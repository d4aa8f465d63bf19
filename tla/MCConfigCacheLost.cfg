SPECIFICATION Spec
CONSTANTS
    k1 = k1
    k2 = k2
    f1 = f1
    f2 = f2
    Keys <- MCOneKey
    Fields <- MCFields
    Values <- MCOneValues
    Callers = {c}
    Sync = sync
    BatchSize = 1
    AutoSync = TRUE
    None = None
PROPERTIES
    CountedIsStored
CHECK_DEADLOCK FALSE
