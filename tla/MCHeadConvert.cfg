\* writers are turned into readers, and maps are made
SPECIFICATION Spec
CONSTANTS
    z1 = z1
    z2 = z2
    z3 = z3
    NoZipper = NoZipper
    NoVal = NoVal
    Zipper = {z1, z2, z3}
    Path <- MCDeepPath
    TriePath <- MCNestedPath
    Byte <- MCBytes
    Val = {v}
    Heads <- MCConvert
SYMMETRY MCSymmetry
INVARIANTS ConvertedCurrent
