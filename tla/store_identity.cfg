SPECIFICATION Spec
CONSTANTS
    Token = {t1, t2, t3}
    Device = {d1, d2}
    Topic = {p1, p2}
    p1 = p1
    s1 = s1
    Blank = Blank
    Absent = Absent
    Address <- MCAddress
    Spelling <- MCSpelling
    Normalise <- MCNormalise
    Request <- IdentityRequests
    MaxRegistrations = 2
    MaxPerAddress = 0
    MaxGmailAccounts = 0
    Lifetime = 1
    PrunePeriod = 1
    MaxTime = 0
    MaxDelay = 0
    CanFail = TRUE
    CanRestart = TRUE
SYMMETRY Symmetry
INVARIANTS
    TypeOK
    OneRowPerDevice
    WithinSiteLimit
    KnownDeviceNotTurnedAway
    
PROPERTY OwnerKept
