SPECIFICATION FairLogSpec
CONSTANTS
    Codes = {expired, role_missing}
    PER_WINDOW = 2
    WINDOW = 2
    MaxRecords = 5
    Unset = Unset
INVARIANTS
    EveryRefusalIsAccountedFor
PROPERTY
    HeldBackIsReported
