SPECIFICATION Spec
CONSTANTS
    Node = {n1, n2, n3}
    VolName = {}
    Thread = {t1, t2}
    MaxService = 1
    MaxCount = 2
    MaxDev = 0
    Junk = Junk
    None = None
CHECK_DEADLOCK FALSE
SYMMETRY Symmetry
INVARIANTS TypeOK StateIsLock NodesLive ReleasedOnce NoLeak RunningHasMaster
