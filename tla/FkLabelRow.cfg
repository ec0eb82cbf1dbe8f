SPECIFICATION Spec
CONSTANTS
    a = a
    b = b
    x = x
    Null = Null
    NoRow = NoRow
    Renders = {r1, r2}
    r1 = r1
    r2 = r2
    Labels = {x}
    Pages <- MCPages
    Tables <- MCTables
    Keys <- MCKeys
    Alternate <- MCAlternate
    Written <- MCWritten
    Databases <- MCDatabases
    TtlMs = 2
    MaxTime = 2
    MaxUpsets = 1
INVARIANT EveryLabelNamesTheRow
