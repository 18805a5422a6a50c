SPECIFICATION Spec
CONSTANTS
    Writers = {w1, w2}
    Capacity = 2
    Sizes = {1, 2}
    MaxEntry = 2
    WordMod = 1024
    MaxMsgs = 2
    MayCrash = FALSE
CHECK_DEADLOCK FALSE
INVARIANT NoOverwrite
