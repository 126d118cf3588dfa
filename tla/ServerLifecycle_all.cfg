SPECIFICATION FairSpec
CONSTANTS
    Turns = {t1, t2}
    None = None
    All = All
    MaxFaults = 1
    MaxRestarts = 1
INVARIANTS WorkHasItsResources SessionsAreOwned
PROPERTIES RestartsAreClean RequestsHonoured
CHECK_DEADLOCK FALSE
