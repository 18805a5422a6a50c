SPECIFICATION PoolSpec
CONSTANTS
    Keys = {0, 1, 3}
    SlotCap = 3
    Ttl = 1
    TickMod = 5
INVARIANTS OneBlockPerObject
