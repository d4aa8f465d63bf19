SPECIFICATION Spec
CONSTANTS
    Users = {u1}
    MaxTime = 5
    PerMinute = 2
    MaxBatches = 2
    Fresh = 1
    Window = 2
    Month = 3
    Pauses <- MCPauses
    Decay = 3
    Expire = 3
    Retention = 3
    None = None
INVARIANTS
    TypeOK
    TotalsAgree
    NoXPWhilePaused
    CleanIsStored
PROPERTIES
    ImplementsLedger
CHECK_DEADLOCK FALSE
