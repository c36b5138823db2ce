SPECIFICATION Spec
CONSTANTS
    Drops <- MCDrops
    MaxCalls = 2
    MaxWrites = 1
    MaxFaults = 1
    MaxResumes = 1
    Chunks = 2
INVARIANTS ReportedIsThere RestoreIsAllOrNothing OldUntilNew
PROPERTIES GapIsOneStep UploadEnds
CHECK_DEADLOCK FALSE
