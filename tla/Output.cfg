CONSTANTS
    SequencesPerSlot = 3
    Root = root
    Kids = {1}
    Formats = {"protobuf", "json", "pprof"}
    Batches <- SomeBatches
    MaxBatches = 2
    MaxFaults = 1
    MaxRuns = 2
    Losses = {0, 3}
    Clocks <- SomeClocks
    NoOne = NoOne
SPECIFICATION Spec
INVARIANTS
    TypeOK CommitsAreWhole ReadBack LockIsReleased HeadFirst ProfileIsTime
\* It is over when every process has closed its output, and a process may be left
\* waiting for a lock for ever (LockIsReleased says when).
CHECK_DEADLOCK FALSE
