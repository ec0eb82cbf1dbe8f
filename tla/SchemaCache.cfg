SPECIFICATION FairSpec
CONSTANTS
    t1 = t1
    t2 = t2
    Surfaces = {"mcp", "ui"}
    Callers = {c1, c2}
    Tables = {t1, t2}
    References <- MutualReferences
    TTL = 1
    MaxTime = 2
    MaxFlights = 2
    MaxRefreshes = 1
INVARIANTS
    OneRebuildAtATime
    ServedSchemaIsClosed
PROPERTIES
    NeverGoesBack
    EveryGetSettles
CHECK_DEADLOCK FALSE
