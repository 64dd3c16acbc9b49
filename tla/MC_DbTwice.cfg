CONSTANTS
    c = c
    Columns <- OneColumn
    Values = {1}
    NoFooter = NoFooter
    Tables <- OneRow
    Keys = {1, 2, 3}
    Dives = TRUE
    ReloadMayFail = FALSE
    MaxDepth = 2
    MaxEdits = 2
    MaxWrites = 0
SPECIFICATION Spec
INVARIANTS
    AddedAtMostOnce
