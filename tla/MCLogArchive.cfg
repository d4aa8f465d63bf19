SPECIFICATION FairSpec
CONSTANTS
    Messages = {m1}
    Logs = {l1}
    QueueSize = 2
    BatchSize = 2
    Attachments = 2
    FileLimit = 1
    MaxVersion = 1
    MaxEvents = 2
    Aging = {m1, l1}
    None = None
INVARIANTS
    TypeOK
    DrainedIsCurrent
    FilesAreCounted
PROPERTIES
    WaitersGoOn
CHECK_DEADLOCK FALSE
