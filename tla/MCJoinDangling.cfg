\* joins of maps that leave the same children dangling
SPECIFICATION MCSpec
CONSTANTS
    NoVal = NoVal
    KeyCap = 4
    MaxKey = 3
    Path <- MCPath
    Operands <- MCOperands
    Foci <- MCFoci
    Places <- MCPlaces
    MaxPaths = 1
VIEW NoHistory
PROPERTIES JoinsAreUnions
CHECK_DEADLOCK FALSE
