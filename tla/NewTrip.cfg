CONSTANTS
    TempIds = {t1}
    RealIds = {s1, s2}
    None = None
    MaxWrites = 2
SPECIFICATION Spec
CHECK_DEADLOCK FALSE
PROPERTY LinkedTripIsStored
