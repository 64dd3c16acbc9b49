CONSTANTS
    k = k
    v = v
    Columns <- TwoColumns
    Values = {1, 2}
    NoFooter = NoFooter
    Loaded <- TiedRows
    Clipboards <- OnePair
    Aggregated = FALSE
    MaxUndo = 2
    MaxEdits = 3
SPECIFICATION SortSpec
INVARIANTS
    HistoryBudget
PROPERTIES
    ImplementsEditHistory
    SortFollowsMarkers
    DedupKeepsOneOfEach
