SPECIFICATION FairSpec
CONSTANTS
    Clients <- MCClients
    Ops <- MCOps
    Procs <- MCProcs
    Monitor = monitor
    None = None
    External = External
INVARIANTS
    TypeOK
    NoLostChild
PROPERTIES
    StopLeavesNoChild
    WantedFateRuns
CHECK_DEADLOCK FALSE
