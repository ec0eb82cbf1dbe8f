SPECIFICATION FairDevSpec
CONSTANTS
    Requests = {q1, q2}
    UseApi = TRUE
    UseMcp = TRUE
    MaxSignals = 2
INVARIANTS
    TeardownIsClean
PROPERTY
    TeardownCompletes
