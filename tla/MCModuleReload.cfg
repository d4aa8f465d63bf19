SPECIFICATION FairSpec
CONSTANTS
    MaxRuntimes = 2
    MaxJobs = 3
    MaxFaults = 1
    None = None
INVARIANTS
    TypeOK
    ReloadedOnce
PROPERTIES
    BusyEnds
CHECK_DEADLOCK FALSE
