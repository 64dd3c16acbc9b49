CONSTANTS
    k = k
    v = v
    Columns <- OneColumn
    Values = {1}
    NoFooter = NoFooter
    Loaded <- OneRow
    Clipboards <- OneMore
    Aggregated = FALSE
    MaxUndo = 1
    MaxEdits = 2
SPECIFICATION Spec
PROPERTIES
    RefusedPasteKeepsUndo
