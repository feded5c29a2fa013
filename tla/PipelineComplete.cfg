CONSTANTS
    Threads = {t1}
    Exiting = {}
    BatchN = 2
    BatchesCapacity = 1
    MaxEvents = 2
    Turns = 2
    FaninBatches = 1
    MayFail = FALSE
SPECIFICATION Spec
INVARIANTS
    FinishedIsComplete
