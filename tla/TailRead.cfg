CONSTANTS
    BatchN = 2
    Buffers = 3
    MaxTicks = 3
    Runs = 2
    TailRetries = 2
    Gil = TRUE
SPECIFICATION Spec
INVARIANTS
    TypeOK ArmedForItsBatch TailIsCoherent NothingIsHidden ReadsAreLive
