SPECIFICATION FairSpec
CONSTANTS
    Prompts = {p1, p2}
    Checkpoints = {k1, k2}
    None = None
    Worker = Worker
    MaxQueued = 1
    MaxFaults = 1
    Refreshes = 1
INVARIANTS StateHoldsStill ArchiveHoldsAccepted
PROPERTIES AcceptedIsRun SleepersWake
CHECK_DEADLOCK FALSE
