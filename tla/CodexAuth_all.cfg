CONSTANTS
    Managers = {server, other}
    Hosts = {server}
    MaxTokens = 2
    MaxEvents = 2
    None = None
SPECIFICATION FairSpec
INVARIANTS RefreshIsDeduplicated LoginsAreOwned
PROPERTY CallsReturn
CHECK_DEADLOCK FALSE
