SPECIFICATION FairSpec
CONSTANTS
    Key = {k1, k2}
    Window = 2
    MaxPush = 3
    None = None
INVARIANTS
    NewestKept
    OneTimerPerWindow
PROPERTIES
    AtMostOnePerWindow
    KeepsPromise
    EventuallyQuiet
