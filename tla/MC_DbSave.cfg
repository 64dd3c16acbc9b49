CONSTANTS
    c = c
    Columns <- OneColumn
    Values = {1, 2}
    NoFooter = NoFooter
    Tables <- OneRow
    Keys = {1, 2}
    Dives = TRUE
    ReloadMayFail = TRUE
    MaxDepth = 2
    MaxEdits = 2
    MaxWrites = 1
SPECIFICATION Spec
PROPERTIES
    NoLostUpdate
