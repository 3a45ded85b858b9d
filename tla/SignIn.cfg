CONSTANTS
    a = a
    b = b
    s1 = s1
    s2 = s2
    s3 = s3
    f1 = f1
    f2 = f2
    None = None
    Accounts = {a, b}
    SessionIds = {s1, s2}
    Owner <- TwoAndOne
    Fetchers = {f1, f2}
SPECIFICATION PSpec
CHECK_DEADLOCK FALSE
INVARIANTS TokensMatch KeyIsOwn
PROPERTIES LiveTokensKept FetchEnds
CONSTRAINT Followed
