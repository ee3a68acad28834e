SPECIFICATION Spec
CONSTANTS
    Worker = {w1, w2}
    Device = {d1, d2}
    None = None
    Lifetime = 4
    TooOld = 6
    TooSoon = 2
    PushTime = 1
    MaxTime = 10
INVARIANTS
    BearerAccepted
    OnlyTheGoneUnregistered
