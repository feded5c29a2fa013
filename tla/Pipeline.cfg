CONSTANTS
    Threads = {t1, t2}
    Exiting = {t1}
    BatchN = 2
    BatchesCapacity = 1
    MaxEvents = 2
    Turns = 2
    FaninBatches = 1
    MayFail = TRUE
SPECIFICATION Spec
INVARIANTS
    NothingVanishes InOrder DroppedIsExact
