SPECIFICATION FairSpec
CONSTANTS
    k1 = k1
    k2 = k2
    f1 = f1
    f2 = f2
    Keys <- MCKeys
    Fields <- MCFields
    Values <- MCValues
    Callers = {c}
    Sync = sync
    BatchSize = 1
    AutoSync = TRUE
    None = None
INVARIANTS
    TypeOK
    AcknowledgedIsStored
PROPERTIES
    AutoSyncStores
CHECK_DEADLOCK FALSE
