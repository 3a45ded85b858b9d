CONSTANTS
    Events = {"one", "two"}
    MaxChanges = 3
    MaxFaults = 2
SPECIFICATION Spec
INVARIANTS OneCopyEach DeletedIsGone
PROPERTY GetsImported
CHECK_DEADLOCK FALSE
CONSTRAINT Alone
