\* maps of two paths, and what comes of them
SPECIFICATION MCSpec
CONSTANTS
    NoVal = NoVal
    KeyCap = 4
    MaxKey = 3
    Path <- MCPath
    Operands <- MCOperands
    Foci <- MCFoci
    Places <- MCPlaces
    MaxPaths = 1
VIEW NoHistory
INVARIANTS NodesOk MergesOnce ZipperAtNode MergesSources
PROPERTIES ImplementsLattice
CHECK_DEADLOCK FALSE
