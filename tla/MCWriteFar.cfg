\* set_val_at with a relative path of two bytes
SPECIFICATION MCSpec
CONSTANTS
    v1 = v1
    v2 = v2
    NoVal = NoVal
    KeyCap = 3
    MaxKey = 3
    Val = {v1, v2}
    Path <- Paths
    Clients <- Far
VIEW NoHistory
PROPERTIES SetsAtPath
CHECK_DEADLOCK FALSE
