CONSTANTS
    Null = Null
    Words <- MCWords
    Tables <- MCTables
    Measure <- MCMeasure
    NewNames <- MCNewNames
    Functions <- MCFunctions
    Overs <- MCOvers
    MaxChanges = 2
    MaxEffort = 2
    MaxDepth = 3
SPECIFICATION Spec
INVARIANT FloatLinesFindTheirRows
CHECK_DEADLOCK FALSE
