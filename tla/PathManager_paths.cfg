SPECIFICATION FairSpec
CONSTANTS
    MaxPaths = 2
    EventCap = 1
CHECK_DEADLOCK FALSE
INVARIANTS
    MakeBeforeBreak
    LossIsNoticed
PROPERTIES
    ClosedEnds
    WatchedLossFallsBack
