CONSTANTS
    Threads = {t1, t2}
    Exits = {}
    Windows = {}
    BatchN = 2
    RingCap = 1
    BatchBytes = 2
    CapacityBytes = 2
    Began = {}
    Before = 0
    MayFail = FALSE
    MaxDepth = 1
    MaxTicks = 4
SPECIFICATION Spec
INVARIANT
    Balanced
