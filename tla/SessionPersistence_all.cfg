CONSTANTS
    MaxVersion = 3
    MaxFailures = 1
    MaxCrashes = 1
SPECIFICATION FairSpec
INVARIANT FileIsSound
PROPERTIES NeverGoesBack SavesEnd
CHECK_DEADLOCK FALSE
