CONSTANTS
    Managers = {server}
    Hosts = {server}
    MaxTokens = 2
    MaxEvents = 2
    None = None
SPECIFICATION Spec
INVARIANT CancelPreservesCredentials
CHECK_DEADLOCK FALSE
