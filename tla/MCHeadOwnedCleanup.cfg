\* a ZipperHeadOwned used by several threads; writers are cleaned up
SPECIFICATION Spec
CONSTANTS
    z1 = z1
    z2 = z2
    z3 = z3
    NoZipper = NoZipper
    NoVal = NoVal
    Zipper = {z1, z2}
    Path <- MCDeepPath
    TriePath <- MCNestedPath
    Byte <- MCBytes
    Val = {v}
    Heads <- MCOwnedCleanup
SYMMETRY MCSymmetry
INVARIANTS WritersAttached
