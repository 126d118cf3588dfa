CONSTANTS
    Sessions = {unary, codex}
    Chat = {}
    Codex = {codex}
    MaxAttempts = 2
    MaxConcurrency = 1
    RateLimit = 2
    None = None
SPECIFICATION Spec
INVARIANT CancelledLeaderTransfers
CHECK_DEADLOCK FALSE
