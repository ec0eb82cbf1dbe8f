SPECIFICATION Spec
CONSTANTS
    Catalogs <- MCCatalogs
    Methods <- MCMethods
    IdStem <- MCIdStem
    Values <- MCValues
    Texts <- MCTexts
    AsDouble <- MCAsDouble
    IntegerBits <- MCIntegerBits
    FloatFormat <- MCFloatFormat
    MaxEmbedDepth = 5
    MaxEmbedRelations = 3
    MaxEmbedsAsked = 2
    MaxPathAsked = 2
    MaxLines = 3
    Urls <- MCUrls
    Totals = {0, 1, 2, 3, 5}
    InTexts <- MCInTexts
    ImageNames <- MCImageNames
    TextareaHints = {"content"}
    Lookalikes = {"text_kind"}
    Spelling <- MCSpelling
    DEFAULT_PAGE_SIZE = 2
    MAX_PAGE_SIZE = 4
    MAX_SAFE_INTEGER = 15
    DISPLAY_COLUMN_LIMIT = 3
INVARIANTS
    ExposureIsAuthorized
    CallsAreFaithful
    AdviceIsTrue
    RefusalsAreDeserved
    EditsDoWhatWasAsked
    DocumentMatchesRoutes
    EmbedsAreHonoured
    ListsAreHonoured
    EveryLineIsPlaced
CHECK_DEADLOCK FALSE
