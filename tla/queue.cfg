SPECIFICATION FairSpec
CONSTANTS
    Job = {j1, j2, j3, j4, j5}
    Worker = {w1, w2}
    Depth = 2
    None = None
CHECK_DEADLOCK FALSE
INVARIANTS
    CountedExactly
    NothingLost
    NoSendOnClosed
    AcceptedIsAttempted
PROPERTIES
    ShutdownEnds
    AcceptedIsFinished
