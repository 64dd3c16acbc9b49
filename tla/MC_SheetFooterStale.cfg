CONSTANTS
    k = k
    v = v
    Columns <- OneColumn
    Values = {1, 2}
    NoFooter = NoFooter
    Loaded <- OneRow
    Clipboards <- OneMore
    Aggregated = TRUE
    MaxUndo = 1
    MaxEdits = 2
SPECIFICATION Spec
INVARIANTS
    FooterFresh
