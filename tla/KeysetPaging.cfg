SPECIFICATION Spec
CONSTANTS
    NULL = NULL
    None = None
    Fields <- MCFields
    Nullable <- MCNullable
    Ids = {1, 2, 3}
    Contents <- MCContents
    Sorts <- MCSorts
    PageSizes = {1, 2}
    MAX_PAGE_SIZE = 2
    DEFAULT_PAGE_SIZE = 1
    MaxEdits = 1
    MaxPages = 4
INVARIANTS
    WalkIsGapless
    OfferedPagesExist
CHECK_DEADLOCK FALSE
