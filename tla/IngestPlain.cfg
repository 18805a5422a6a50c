SPECIFICATION Spec
CONSTANTS
    Size = 3
    Records = {2}
    MaxWrites = 0
    SubRoutes <- MCSubRoutes
    ThreadOf <- MCThreadOf
    Publishes <- MCPublishes
    Plain <- MCPlain
    Fits = {TRUE, FALSE}
    Tables <- MCTables
    Reaction <- MCReaction
    TimerId = 9
    StatusId = 0
    Depth = 1
    MaxRefused = 1
    OutKey <- AgentData
    Requests <- MCRequests
    MaxRequests = 1
INVARIANT PlainIsFixed
CHECK_DEADLOCK FALSE
