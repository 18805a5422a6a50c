SPECIFICATION FairSpec
CONSTANTS
    Writers = {w1, w2}
    Capacity = 4
    Sizes = {2}
    MaxEntry = 2
    WordMod = 1024
    MaxMsgs = 3
    MayCrash = TRUE
CHECK_DEADLOCK FALSE
INVARIANT NoOverwrite
PROPERTIES RefinesFifo AllDelivered WriteReturns StopJoins
