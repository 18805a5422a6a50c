SPECIFICATION Spec
CONSTANTS
    Size = 3
    Records = {2}
    MaxWrites = 2
    SubRoutes <- MCSubRoutes
    ThreadOf <- MCThreadOf
    Publishes <- MCPublishes
    Plain = {}
    Fits = {TRUE}
    Tables <- MCTables
    Reaction <- MCReaction
    TimerId = 9
    StatusId = 0
    Depth = 2
    MaxRefused = 1
    OutKey <- AgentData
    Requests <- MCRequests
    MaxRequests = 1
INVARIANTS OnlyOwnHandler InternalOnce CleanWhenSeparate
PROPERTY AllTaken
CHECK_DEADLOCK FALSE
