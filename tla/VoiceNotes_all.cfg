CONSTANTS
    Notes = {n1, n2}
    Redelivered = {n1}
    Commands = {typed}
    All = All
    MaxCancels = 1
    MaxArrivals = 3
SPECIFICATION VoiceFairSpec
INVARIANT NotesAreOwned
PROPERTY EverythingEnds
CHECK_DEADLOCK FALSE
