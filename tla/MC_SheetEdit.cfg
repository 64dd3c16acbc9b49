CONSTANTS
    k = k
    v = v
    Columns <- OneColumn
    Values = {1, 2}
    NoFooter = NoFooter
    Loaded <- TwoRows
    Clipboards <- EmptyOrTwo
    Aggregated = TRUE
    MaxUndo = 1
    MaxEdits = 2
SPECIFICATION Spec
INVARIANTS
    FramesWellFormed
    KeysAccountedFor
    MarksVisible
    FooterValuesCurrent
