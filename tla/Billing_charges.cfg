SPECIFICATION FairSpec
CONSTANTS
    MaxVM = 2
    Client = {c1}
    Unit = 2
    Start = 3
    MaxTime = 4
    Gifts = {1}
    Slow = FALSE
    None = None
CHECK_DEADLOCK FALSE
INVARIANTS TypeOK NeverOvercharged
PROPERTY EveryVMCharged
