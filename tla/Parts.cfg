CONSTANTS
    MaxEdits = 3
    MaxFaults = 2
    Users = {"a", "b"}
    Limit = 2
    GlobalLimit = 3
    Window = 3
    MaxTime = 9
    MaxRetries = 2
    JobTimeout = 2
    StaleAge = 4
    Interval = 4
    Files = {"f", "g"}
    MaxTotal = 1
    Devices = {"d1", "d2"}
    Passwords = {"p1", "p2"}
    KeyIds = {"k1", "k2"}
    Nil = Nil
    MaxChanges = 2
    TempIds = {"t1"}
    RealIds = {"s1"}
    MaxWrites = 2
    CHUNK_SIZE = 2
    HEADER_BYTES = 3
    MaxSize = 6
    Ids = {1, 2, 3, 4}
    PageSize = 2
    MaxPages = 2
    Stamps = {0, 1}
    MaxVisits = 1
    MaxFails = 1
    Outlets = {1, 2}
    MaxOpens = 2
    H = 3
    MonthStarts = {0, 31, 59}
    Year = 90
    MAX_SEARCH_DAYS = 270
    Starts = {1, 30}
    Changes = {36, 60}
    MaxDay = 95
    MaxGrants = 2
    MaxTurns = 3
SPECIFICATION Spec
CHECK_DEADLOCK FALSE
INVARIANTS EditorKeeps QuotaHolds AudioGoes ErasedLeavesNothing KeyIsKept
    LinksLive OpensWhole NewsHolds SameDays
    ConnectionLives StoreKeeps LinksLand SharesArrive SealHolds
CONSTRAINT Followed
