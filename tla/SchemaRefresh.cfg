SPECIFICATION Spec
CONSTANTS
    t1 = t1
    t2 = t2
    Surfaces = {"mcp"}
    Callers = {c1, c2}
    Tables = {t1, t2}
    References <- MutualReferences
    TTL = 1
    MaxTime = 1
    MaxFlights = 2
    MaxRefreshes = 1
INVARIANT
    RefreshForcesReread
