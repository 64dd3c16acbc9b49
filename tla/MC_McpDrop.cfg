CONSTANTS
    t = t
    u = u
    x = x
    y = y
    empty = empty
    Tables <- MCTables
    Keys = {1, 2}
    Columns <- MCColumns
    Values <- MCValues
    EmptyText = empty
    Disks <- MCDisks
    Made <- MCMade
    Writable = TRUE
    CacheEntries = 2
    MaxCalls = 3
    MaxWrites = 1
SPECIFICATION FairSpec
PROPERTY DropsOnlyWhatWasShown
CHECK_DEADLOCK FALSE
