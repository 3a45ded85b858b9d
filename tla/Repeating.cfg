CONSTANTS
    e1 = e1
    e2 = e2
    k1 = k1
    k2 = k2
    d1 = d1
    d2 = d2
    Schedules <- Series
    Events = {e1}
    Ticks = {k1}
    Tokens = {d1}
    STUCK = 2
    MAX_CLAIM = 1
    BATCH = 1
    READY = 9
    GIVE_UP = 9
    MaxClock = 5
    MaxEdits = 2
    MaxDeaths = 1
SPECIFICATION PSpec
CHECK_DEADLOCK FALSE
INVARIANT PendingIsCurrent
PROPERTY ClaimsEnd
