SPECIFICATION SkillSpec
CONSTANTS
    Skills = {a, b}
    Versions = {"v1", "v2"}
    Attempts = 1
    MaxMoves = 2
    MaxFreezes = 1
    MaxSkillFaults = 1
    Unmarked = TRUE
SYMMETRY SkillSymmetry
INVARIANTS SyncIsExact
CHECK_DEADLOCK FALSE
