SPECIFICATION Spec
CONSTANTS
    Ops = {o1, o2, o3}
    Writers = {w1}
    First = First
    None = None
    Kinds = {"snapshot", "recover", "restore", "terminate", "reap"}
    MaxFaults = 1
    MaxRestarts = 0
    Overtaking = TRUE
    LostReply = FALSE
CONSTRAINT OneOtherCall
SYMMETRY LifecycleSymmetry
INVARIANTS AcceptedWritesSurvive LiveKeepsPods NoOrphanPods RecordedAccessKept
PROPERTIES FrozenIsReclaimed
CHECK_DEADLOCK FALSE
