SPECIFICATION FairRaidSpec
CONSTANTS
    Members = {m1, m2}
    Threshold = 2
    MaxQueued = 1
    MaxEdits = 1
    MaxEvents = 2
INVARIANTS
    RaidTypeOK
    LockdownHasTimer
    AwaitingAreListed
PROPERTIES
    LockdownEnds
CHECK_DEADLOCK FALSE
