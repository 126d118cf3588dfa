CONSTANTS
    Keys = {m1, m2}
    MaxUpdates = 3
    MaxFaults = 2
SPECIFICATION FairSpec
INVARIANT QueueIsSound
PROPERTIES NothingComesBack FuturesResolve
CHECK_DEADLOCK FALSE
