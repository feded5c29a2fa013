CONSTANTS
    Threads = {t1, t2}
    Exits = {t1}
    Windows = {w1}
    BatchN = 2
    RingCap = 1
    BatchBytes = 2
    CapacityBytes = 2
    Began = {t2}
    Before = 1
    MayFail = FALSE
    MaxDepth = 1
    MaxTicks = 4
SPECIFICATION Spec
INVARIANTS
    TypeOK DumpIsComplete DumpIsFaithful DumpInventsNothing HistoryBounded RunEndsWithDump
