SPECIFICATION Spec
CONSTANTS
    Token = {t1, t2, t3}
    Device = {d1, d2, d3}
    Topic = {p1}
    p1 = p1
    s1 = s1
    Blank = Blank
    Absent = Absent
    Address <- MCAddress
    Spelling <- MCSpelling
    Normalise <- MCNormalise
    Request <- LifecycleRequests
    MaxRegistrations = 0
    MaxPerAddress = 2
    MaxGmailAccounts = 2
    Lifetime = 2
    PrunePeriod = 1
    MaxTime = 5
    MaxDelay = 1
    CanFail = FALSE
    CanRestart = FALSE
SYMMETRY Symmetry
INVARIANTS
    WithinPrimaryLimit
    RetainedNoLonger
