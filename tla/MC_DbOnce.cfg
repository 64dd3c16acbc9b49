CONSTANTS
    c = c
    Columns <- OneColumn
    Values = {1, 2}
    NoFooter = NoFooter
    Tables <- TwoRows
    Keys = {1, 2, 3}
    Dives = FALSE
    ReloadMayFail = FALSE
    MaxDepth = 1
    MaxEdits = 2
    MaxWrites = 1
SPECIFICATION Spec
INVARIANTS
    AddedAtMostOnce
PROPERTIES
    SaveMerges
    SavedSheetIsClean
