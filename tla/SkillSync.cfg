SPECIFICATION SkillSpec
CONSTANTS
    Skills = {a, b}
    Versions = {"v1", "v2"}
    Attempts = 1
    MaxMoves = 2
    MaxFreezes = 1
    MaxSkillFaults = 2
    Unmarked = FALSE
SYMMETRY SkillSymmetry
INVARIANTS NoteNamesChanges
PROPERTIES RefreshKeepsSkills
CHECK_DEADLOCK FALSE
