SPECIFICATION Spec
CONSTANTS
    Token = {t1, t2}
    t1 = t1
    t2 = t2
    d1 = d1
    d2 = d2
    p1 = p1
    p2 = p2
    Blank = Blank
    Absent = Absent
    None = None
    Address <- NoAddress
    Spelling <- NoSpelling
    Normalise <- Identity
    MaxRegistrations = 1
    MaxPerAddress = 0
    MaxGmailAccounts = 0
    Lifetime = 2
    PrunePeriod = 1
    MaxTime = 6
    Product = {"yearly"}
    Day = 1
    Policy <- Policies
    Registration <- Registrations
    Expiry <- Expiries
    Handler = {h1, h2}
    MaxDelay = 1
SYMMETRY Symmetry
 
PROPERTY PrunedOnlyWhenOver
