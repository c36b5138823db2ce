SPECIFICATION Spec
CONSTANTS
    Ops = {o1, o2}
    Clients = {c1}
    States = {"active", "idle"}
    Pods = {a, b}
    Times = {0, 1}
    putMaxRetries = 1
    None = None
SYMMETRY OpSymmetry
INVARIANTS NoLostUpdate
PROPERTIES ImplementsFencedStore AccessMonotone NoStaleCommit
CHECK_DEADLOCK FALSE
