SPECIFICATION FrozenTwiceSpec
CONSTANTS
    Ops = {"freeze", "thaw", "refreeze", "poll"}
    Writers = {w1}
    First = First
    None = None
    Kinds = {"snapshot", "recover", "restore"}
    MaxFaults = 2
    MaxRestarts = 1
    Overtaking = FALSE
    LostReply = TRUE
PROPERTIES RecoveryAlwaysResolves
CHECK_DEADLOCK FALSE
