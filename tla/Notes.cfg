CONSTANTS
    u1 = u1
    t1 = t1
    s0 = s0
    s1 = s1
    s2 = s2
    Screens = {u1}
    TempIds = {t1}
    ServerIds = {s0, s1, s2}
    Synced = {s0}
    Fields = {"body"}
    Drafts = {{"body"}}
    MAX_RETRIES = 1
    MaxClock = 4
    MaxRestarts = 1
    MaxPulls = 1
    MaxRemote = 1
SPECIFICATION PSpec
CHECK_DEADLOCK FALSE
INVARIANTS CreatedOnce HandleLeadsToNote EditsAreCarried DeletesAreCarried
PROPERTY NeverOlder
CONSTRAINT OneNote
