SPECIFICATION FairSpec
CONSTANTS
    QueueMax = 3
    MaxFrames = 3
CHECK_DEADLOCK FALSE
INVARIANT LossShows
PROPERTIES Consumed StopEnds
