CONSTANTS
 MaxTime = 3
 MaxOpens = 2
SPECIFICATION Spec
CHECK_DEADLOCK FALSE
INVARIANT OpeningKeepsNewest
