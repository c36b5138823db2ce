SPECIFICATION Spec
CONSTANTS
    MaxRounds = 2
    MaxFaults = 2
    Lossy = TRUE
INVARIANTS BoundaryInService
PROPERTIES FailedRoundIsReclaimed
CHECK_DEADLOCK FALSE
