CONSTANTS
    t1 = t1
    s1 = s1
    s2 = s2
    u1 = u1
    u2 = u2
    Screens = {u1}
    TempIds = {t1}
    ServerIds = {s1}
    Synced = {}
    Fields = {"body"}
    Drafts = {{"body"}}
    MAX_RETRIES = 0
    MaxClock = 3
    MaxRestarts = 1
    MaxPulls = 1
    MaxRemote = 1
SPECIFICATION Spec
CHECK_DEADLOCK FALSE
INVARIANT UpdatesNameServerNotes
PROPERTY OperationsEnd
CONSTRAINT OneDisturbance
