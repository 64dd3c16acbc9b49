CONSTANTS
    c = c
    Columns <- OneColumn
    Values = {1}
    NoFooter = NoFooter
    Tables <- OneRow
    Keys = {1, 2, 3}
    Dives = FALSE
    ReloadMayFail = FALSE
    MaxDepth = 1
    MaxEdits = 2
    MaxWrites = 0
SPECIFICATION Spec
INVARIANTS
    DeletedNewRowsStayOut
