CONSTANTS
    Threads = {t1, t2}
    Tracers = {a, b}
    Subprocesses = {a}
    Recorders = {a}
    MaxRuns = 2
    MaxChildren = 1
    NoOne = NoOne
    NoTracer = NoTracer
    Exporter = Exporter
    Vanished = Vanished
SPECIFICATION Spec
SYMMETRY Alike
INVARIANTS
    TypeOK TracedWhenQuiet ChildIsApart AdvertisedIsRunning SignalHasItsHandler DiesFinished OnlyKnownDeadlocks
\* A process may really hang (OnlyKnownDeadlocks says how) or be dead.
CHECK_DEADLOCK FALSE
