SPECIFICATION Spec
CONSTANTS
    Node = {n1, n2}
    VolName = {v1, v2}
    Thread = {t1, t2}
    MaxService = 1
    MaxCount = 1
    MaxDev = 1
    Junk = Junk
    None = None
CHECK_DEADLOCK FALSE
SYMMETRY Symmetry
INVARIANT DevicesDistinct
PROPERTIES ImplementsNodePool NamesKept
