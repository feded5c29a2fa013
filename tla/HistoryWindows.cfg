CONSTANTS
    Threads = {t1}
    Exits = {}
    Windows = {w1, w2}
    BatchN = 2
    RingCap = 1
    BatchBytes = 2
    CapacityBytes = 2
    Began = {}
    Before = 0
    MayFail = TRUE
    MaxDepth = 2
    MaxTicks = 3
SPECIFICATION FairSpec
INVARIANT
    DumpIsFaithful
PROPERTIES
    WindowsKept SnapshotAnswered
