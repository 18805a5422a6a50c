SPECIFICATION Spec
CONSTANTS
    p1 = p1
    p2 = p2
    q1 = q1
    Readers = {p1, p2, q1}
    PortOf <- MCPortOf
    Writers = {w1}
    Selected <- MCSelected
    Capacity = 1
    MaxSegs = 2
    MaxMsgs = 2
SYMMETRY ChannelSymmetry
CHECK_DEADLOCK FALSE
INVARIANTS OneClaimant CrashKeepsWriters SendTruth
