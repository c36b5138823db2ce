SPECIFICATION Spec
CONSTANTS
    Ops = {o1, o2}
    Writers = {w1}
    First = First
    None = None
    Kinds = {"snapshot", "restore"}
    MaxFaults = 1
    MaxRestarts = 1
    Overtaking = FALSE
    LostReply = FALSE
INVARIANTS RestartServesAgain
CHECK_DEADLOCK FALSE
