SPECIFICATION FairSpec
CONSTANTS
    Procs <- MCProcs
    None = None
INVARIANTS
    TypeOK
    OneInstance
PROPERTIES
    LeaseNeverStolen
    YieldsToAnAsker
    ClaimSettles
    ImplementsLease
CHECK_DEADLOCK FALSE
