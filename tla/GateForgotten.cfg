SPECIFICATION Spec
CONSTANTS
    Ops = {o1}
    Writers = {w1}
    First = First
    None = None
    Kinds = {"snapshot"}
    MaxFaults = 1
    MaxRestarts = 1
    Overtaking = FALSE
    LostReply = FALSE
INVARIANTS AcceptedWritesSurvive
CHECK_DEADLOCK FALSE
