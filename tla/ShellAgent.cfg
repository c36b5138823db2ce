SPECIFICATION MCSpec
CONSTANTS
    None = None
    MaxPid = 2
    Gens = {g1, g2}
    Writers = {w1, w2}
    MaxRounds = 2
    MaxHome = 1
    MaxOut = 1
    MaxLives = 1
    MaxFaults = 1
    Chunk = 2
    MaxBytes = 3
    MaxProcesses = 2
INVARIANTS ArchiveHoldsStill InputBeforeScrollback
PROPERTIES ImplementsGate StreamCatchesUp
