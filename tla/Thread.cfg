SPECIFICATION FairSpec
CONSTANTS
    Senders = {s1, s2}
    Statuses = {IDLE, WORKING}
    Idle = IDLE
    MaxSends = 4
CHECK_DEADLOCK FALSE
INVARIANTS StatusInOrder TickPunctual NoMissedMessage
PROPERTY RefinesWorker
