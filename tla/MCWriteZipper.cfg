\* zippers at the root of a map and below it; short keys: grafts, relative paths, prefixes, chains of nodes
SPECIFICATION MCSpec
CONSTANTS
    v1 = v1
    v2 = v2
    NoVal = NoVal
    KeyCap = 3
    MaxKey = 3
    Val = {v1}
    Path <- Paths
    Clients <- Everyone
VIEW NoHistory
INVARIANTS TypeOK NodesOk StackOnNodes StackDescended
PROPERTIES ImplementsSpec
CHECK_DEADLOCK FALSE
