CONSTANTS
    blank = blank
    narrow = narrow
    wide = wide
    listing = listing
    doc = doc
    Frames <- MCFrames
    Width <- MCWidth
    Listings <- MCListings
    Docs <- MCDocs
    Blank = blank
    Placeholder = swappedOut
    Nothing = nothing
    MaxDepth = 3
SPECIFICATION AppSpec
INVARIANT NeverReadsPastTheColumns
CHECK_DEADLOCK FALSE
