CONSTANTS
    Threads = {t1}
    Tracers = {a}
    Subprocesses = {}
    Recorders = {}
    MaxRuns = 1
    MaxChildren = 0
    NoOne = NoOne
    NoTracer = NoTracer
    Exporter = Exporter
    Vanished = Vanished
SPECIFICATION Spec
INVARIANTS
    SignalGoesThrough
\* A process may really hang: that is the question.
CHECK_DEADLOCK FALSE
