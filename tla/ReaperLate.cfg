SPECIFICATION Spec
CONSTANTS
    Ops = {o1}
    Writers = {w1}
    First = First
    None = None
    Kinds = {"reap"}
    MaxFaults = 0
    MaxRestarts = 0
    Overtaking = FALSE
    LostReply = FALSE
PROPERTIES ReaperSeesAccess
CHECK_DEADLOCK FALSE
