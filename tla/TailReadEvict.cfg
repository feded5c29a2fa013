CONSTANTS
    BatchN = 2
    Buffers = 3
    MaxTicks = 4
    Runs = 1
    TailRetries = 2
    Gil = TRUE
SPECIFICATION Spec
INVARIANTS
    NoTornEvent
