\* three trackers, five paths; counts up to 2, so that the third reader at a path is one too many
SPECIFICATION Spec
CONSTANTS
    t1 = t1
    t2 = t2
    t3 = t3
    NoTracker = NoTracker
    Path <- MCPath
    Tracker <- MCTrackers3
    MaxCount = 2
SYMMETRY MCSymmetry
INVARIANTS TypeOK Exclusive RegistryExact NoDangling
PROPERTIES StatusForetells ConflictIsReal ImplementsLocks
