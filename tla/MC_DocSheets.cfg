CONSTANTS
    Blanks <- MCBlanks
    Numbers <- MCNumbers
    Files <- MCFiles
    Nodes <- MCNodes
    Keys <- MCKeys
    Texts <- MCTexts
    Typed <- MCTyped
    Targets <- MCTargets
    MaxDepth = 3
    MaxUndo = 1
    MaxEdits = 2
    MaxRevision = 3
    MaxDocs = 2
    MaxEffort = 3
SPECIFICATION Spec
INVARIANTS CellsShowWhatTheyWrite
PROPERTIES RefusedChangesNothing HitsOpenWhatTheyFound ColumnOpsLoseNoValue MarkersGoWithTheOrder
CHECK_DEADLOCK FALSE
CONSTRAINT Bounded
