SPECIFICATION PSpec
CONSTANTS
    Requests = {r1, r2}
    Passwords = {p1, p2}
    MAX_FAILED = 2
    LOCKOUT = 1
    LINK = 1
    MaxClock = 3
    MaxRequests = 5
SYMMETRY Symmetry
INVARIANTS FailuresLock ResetEndsSessions SessionsHaveAccounts
PROPERTY SessionsPromise
CHECK_DEADLOCK FALSE
