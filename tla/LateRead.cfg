SPECIFICATION Spec
CONSTANTS
    None = None
    Chunk = 2
    MaxBytes = 3
    MaxProcesses = 2
    MaxFaults = 1
PROPERTIES StreamAlwaysCatchesUp
CHECK_DEADLOCK FALSE
