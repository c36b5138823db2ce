SPECIFICATION Spec
CONSTANTS
    None = None
    MaxLogin = 4
    MaxFaults = 2
    MaxWrites = 4
    MaxSignIns = 2

PROPERTIES MissingMeansLogout
CHECK_DEADLOCK FALSE
