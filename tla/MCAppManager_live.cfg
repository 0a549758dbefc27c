SPECIFICATION FairSpec
CONSTANTS
    Node = {n1, n2}
    VolName = {}
    Thread = {t1, t2}
    MaxService = 1
    MaxCount = 1
    MaxDev = 0
    Junk = Junk
    None = None
CHECK_DEADLOCK FALSE
PROPERTIES TransientEnds RemovalEnds
