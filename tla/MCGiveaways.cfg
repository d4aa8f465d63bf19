SPECIFICATION FairSpec
CONSTANTS
    Users = {u1, u2}
    Fickle = {u1}
    Rerolls = {r1, r2}
    WinnerCount = 1
    MaxCrashes = 1
    None = None
INVARIANTS
    TypeOK
    AnnouncedOnce
    ToldEntriesAreStored
PROPERTIES
    RerollsAreFresh
    RemovedForGood
    DueGiveawaysEnd
CHECK_DEADLOCK FALSE
