SPECIFICATION FairSpec
CONSTANTS
    Names = {"task", "data", "control", "console"}
    Realtime = {"task", "data"}
    Signals = {int}
    Others = {"task"}
    Order <- MCOrder
    Feeds <- MCFeeds
    Registrations <- MCRegistered
    Typed = {"get_threads"}
    MaxSends = 2
    MaxFaults = 1
INVARIANTS ThreadsUseLive MwUsedAlive UpMeansComplete
PROPERTY SignalEndsRun
CHECK_DEADLOCK FALSE
