SPECIFICATION FairPickerSpec
CONSTANTS
    Rows = {a, b, c}
    MaxSearches = 3
    None = None
INVARIANTS
    SelectedStaysListed
PROPERTIES
    LatestSearchWins
    EverySearchSettles
