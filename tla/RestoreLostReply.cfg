SPECIFICATION Spec
CONSTANTS
    Ops = {o1, o2, o3}
    Writers = {w1}
    First = First
    None = None
    Kinds = {"snapshot", "restore"}
    MaxFaults = 0
    MaxRestarts = 0
    Overtaking = TRUE
    LostReply = TRUE
INVARIANTS LiveKeepsPods
CHECK_DEADLOCK FALSE
