CONSTANTS
    Threads = {t1, t2}
    Codes = {c1, c2, c3}
    Keys = {k1}
    Capacity = 2
    NoCode = NoCode
    NotCached = NotCached
    MaxTicks = 6
    BatchN = 1
    RingCap = 1
    Exits = {t2}
    Unnamed = {t2}
    NameRetries = 2
SPECIFICATION Spec
INVARIANTS
    TypeOK NamesKept OneOwnerPerId MisfiledOnlyAfterRefusal
