CONSTANTS
    Threads = {t1}
    Exiting = {t1}
    BatchN = 2
    BatchesCapacity = 1
    MaxEvents = 3
    Turns = 2
    FaninBatches = 2
    MayFail = TRUE
SPECIFICATION FairSpec
INVARIANTS
    TypeOK FaninHasRoom TakenIsWritten
PROPERTIES
    RunEnds SerializerLeaves ImplementsLossyLog
