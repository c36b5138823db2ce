SPECIFICATION Spec
CONSTANTS
    Sessions = {s1, s2}
    Calls = {1, 2, 3, 4, 5}
    None = None
    N = 2
    MaxFaults = 1
    Overtaking = FALSE
    LostReply = FALSE
    Leaks = FALSE
CONSTRAINT InOrder
VIEW PoolView
SYMMETRY PoolSymmetry
INVARIANTS SlotExclusive OneSlotPerSession
PROPERTIES RunningKeepsLease
CHECK_DEADLOCK FALSE
