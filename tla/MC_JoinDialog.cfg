CONSTANTS
    orders = orders
    people = people
    towns = towns
    folder = folder
    Frames <- MCFrames
    Columns <- MCColumns
    Overviews <- MCOverviews
    Beside <- MCBeside
    Placeholder = swappedOut
    Nothing = nothing
    MaxDepth = 4
SPECIFICATION JoinSpec
INVARIANTS OtherTableAtHand KeysAreColumns QueueIsRestOfThisChain
PROPERTIES PeekTakesWhatTheSheetShows
CHECK_DEADLOCK FALSE
