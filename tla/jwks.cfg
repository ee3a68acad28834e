SPECIFICATION FairSpec
CONSTANTS
    Kid = {k1, k2}
    None = None
    Caller = {c1, c2}
    Lifetime = 3
    Retry = 2
    FetchTime = 1
    MaxVersion = 1
PROPERTIES
    KnownKeyNotRefused
    KeysNotSetBack
    AttemptsSpaced
    StaleOnlyWhileAsking
    RotationHeard
