SPECIFICATION RaidSpec
CONSTANTS
    Members = {m1, m2}
    Threshold = 2
    MaxQueued = 1
    MaxEdits = 0
    MaxEvents = 1
INVARIANTS
    NobodyForgotten
CHECK_DEADLOCK FALSE
