\* a ZipperHead at the root of a map, or at a path below it; a ZipperHeadOwned used by several threads
SPECIFICATION Spec
CONSTANTS
    z1 = z1
    z2 = z2
    z3 = z3
    NoZipper = NoZipper
    NoVal = NoVal
    Zipper = {z1, z2, z3}
    Path <- MCDeepPath
    TriePath <- MCNestedPath
    Byte <- MCBytes
    Val = {v}
    Heads <- MCHeads
SYMMETRY MCSymmetry
INVARIANTS TypeOK WritersAttached ReadersCurrent OpenExclusive NoPanic NoLitter
PROPERTIES ImplementsStore
