SPECIFICATION Spec
CONSTANTS
    Token = {t1}
    t1 = t1
    d1 = d1
    d2 = d2
    p1 = p1
    Blank = Blank
    Absent = Absent
    None = None
    Address <- MCAddress
    Spelling <- MCSpelling
    Normalise <- MCNormalise
    Request <- SilentRequests
    Device = {d1}
    Handler = {h1}
    Worker = {w1}
    MaxRegistrations = 0
    MaxPerAddress = 0
    MaxGmailAccounts = 0
    MaxTime = 1
    Window = 1
    Fresh = 1
    MaxPush = 2
    MaxPost = 2
    Depth = 1
    Coalescing = TRUE
CHECK_DEADLOCK FALSE
INVARIANT FlushedNotDropped
