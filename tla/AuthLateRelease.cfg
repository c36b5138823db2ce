SPECIFICATION Spec
CONSTANTS
    Sessions = {s1, s2}
    Calls = {c1, c2, c3, c4}
    None = None
    N = 1
    MaxFaults = 0
    Overtaking = TRUE
    LostReply = FALSE
    Leaks = FALSE
INVARIANT SessionsKeepApart
CHECK_DEADLOCK FALSE
