SPECIFICATION FairSpec
CONSTANTS
    Clients = {c1, c2}
    Fds = {f1, f2}
CHECK_DEADLOCK FALSE
INVARIANTS StreamsAreStreams LiveStreamsRegistered
PROPERTIES GoneCleaned StopReturns
