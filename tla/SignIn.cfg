SPECIFICATION Spec
CONSTANTS
    None = None
    MaxLogin = 4
    MaxFaults = 2
    MaxWrites = 4
    MaxSignIns = 2
INVARIANTS FirstWriteIsNoPrompt NewestLoginKept
PROPERTIES SlotClearedByLogout
CHECK_DEADLOCK FALSE
