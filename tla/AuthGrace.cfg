SPECIFICATION Spec
CONSTANTS
    Sessions = {s1, s2}
    Calls = {c1, c2, c3}
    None = None
    N = 1
    MaxFaults = 0
    Overtaking = FALSE
    LostReply = FALSE
    Leaks = FALSE
INVARIANT OnePodPerSlot
CHECK_DEADLOCK FALSE
