\* subtract zippers over maps that differ below a second branch
SPECIFICATION Spec
CONSTANTS
    KeyCap = 3
    MAX_NODE_KEY_BYTES = 3
    NoVal = NoVal
    Panicked = Panicked
    ChunkSize = 4
    Chunk = 2
    Path <- MCPath
    Keys <- MCKeys
    Steps <- MCSteps
    Maps <- MCNone
    Wrapped <- MCNone
    Prefixed <- MCNone
    Overlaid <- MCNone
    Subtracted <- MCNested
    Multiplied <- MCNone
    Enrolled <- MCNone
    Archived <- MCNone
    Updates <- MCNone
    Opened <- MCNone
    SharedNodes <- MCShared
    MaxMerges = 1
    MaxDepth = 4
    ArchiveDepth = 3
    Everywhere = FALSE
VIEW NoHistory
INVARIANTS ChildrenHaveDifference
