CONSTANTS
    Content = {"text", "thinking"}
    Tools = {1, 2}
    MaxAttempts = 3
    MaxChunks = 2
SPECIFICATION FairSpec
INVARIANTS StreamIsSound LeaseOutlivesBody
PROPERTY ResponseEnds
CHECK_DEADLOCK FALSE
