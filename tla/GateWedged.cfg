SPECIFICATION Spec
CONSTANTS
    Ops = {o1, o2}
    Writers = {w1}
    First = First
    None = None
    Kinds = {"snapshot", "recover"}
    MaxFaults = 1
    MaxRestarts = 0
    Overtaking = TRUE
    LostReply = FALSE
INVARIANTS ClosedGateIsRecorded
CHECK_DEADLOCK FALSE
