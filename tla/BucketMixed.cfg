SPECIFICATION Spec
CONSTANTS
    Writers = {w1, w2}
    Capacity = 2
    Sizes = {1, 2, 3}
    MaxEntry = 1
    WordMod = 1024
    MaxMsgs = 3
    MayCrash = TRUE
CHECK_DEADLOCK FALSE
SYMMETRY WriterSymmetry
INVARIANTS ReaderBehind ReturnIsTruth
