\* one zipper of each kind, called in any order
SPECIFICATION Spec
CONSTANTS
    KeyCap = 3
    MAX_NODE_KEY_BYTES = 3
    NoVal = NoVal
    Panicked = Panicked
    ChunkSize = 4
    Chunk = 2
    Path <- MCPath
    Keys <- MCKeys
    Steps <- MCSteps
    Maps <- MCMaps
    Wrapped <- MCWrapped
    Prefixed <- MCPrefixed
    Overlaid <- MCOverlaid
    Subtracted <- MCSubtracted
    Multiplied <- MCMultiplied
    Enrolled <- MCEnrolled
    Archived <- MCArchived
    Updates <- MCUpdates
    Opened <- MCOpened
    SharedNodes <- MCShared
    MaxMerges = 2
    MaxDepth = 4
    ArchiveDepth = 3
    Everywhere = FALSE
VIEW NoHistory
INVARIANTS TypeOK ObserverInStep Reads StackLeadsToFocus SourcesAligned CachesHold ArenaHolds
PROPERTIES KeepsPromises SameArchive
