SPECIFICATION Spec
CONSTANTS
    Keys = {0, 2}
    SlotCap = 2
    Ttl = 1
    TickMod = 3
    NIds = 2
    AggCap = 1
    Activations <- MCActivations
    Requests <- MCRequests
    MaxTasks = 1
    Budgets <- MCBudgets
    InitBudget <- MCInitBudget
    Times = {0, 3}
    MaxFrames = 3
INVARIANTS NoForeignData Accounted FreshestFirst TtlBound
PROPERTIES NoEarlyEviction
