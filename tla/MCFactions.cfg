SPECIFICATION Spec
SYMMETRY Symmetric
CONSTANTS
    Factions = {f1, f2}
    Users = {u1, u2}
    Hands = {h1, h2}
    Votes = {v1}
    Channels = {c1}
    Tasks = {t1, t2}
    Voter = u1
    Wagers = {2}
    StartBalance = 2
    ClaimPrice = 2
    TakeoverPrice = 3
    UnclaimReturn = 1
    VoteReward = 1
    MaxCommands = 3
    None = None
INVARIANTS
    TypeOK
    NeverOverdrawn
    HandsSettleOnce
    VotesCountOnce
    NoClaimHidden
CHECK_DEADLOCK FALSE
