SPECIFICATION Spec
CONSTANTS
    MaxSize = 2
    MaxTotal = 5
    MsgSizes = {1, 2, 3}
    LastSecond = 3
    MaxMsgs = 6
CHECK_DEADLOCK FALSE
PROPERTIES WithinLimit OldestGoFirst
