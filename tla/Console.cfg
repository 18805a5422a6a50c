SPECIFICATION FairSpec
CONSTANTS
    Clients = {c1, c2}
    Fds = {f1}
    Requests = {r1}
    ControlStarted = TRUE
CHECK_DEADLOCK FALSE
PROPERTIES CommandAnswered StopCompletes OnlyStrandedSessions
