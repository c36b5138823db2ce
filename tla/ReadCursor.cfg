SPECIFICATION Spec
CONSTANTS
    Prompts = {p1}
    Checkpoints = {k1}
    None = None
    Worker = Worker
    MaxQueued = 1
    MaxFaults = 0
    Refreshes = 1
INVARIANT ReadCursorSurvives
CHECK_DEADLOCK FALSE
