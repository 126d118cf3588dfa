CONSTANTS
    Sessions = {unary, chat, codex}
    Chat = {chat}
    Codex = {codex}
    MaxAttempts = 2
    MaxConcurrency = 2
    RateLimit = 2
    None = None
SPECIFICATION FairSpec
INVARIANTS TypeOK OneProbe RecoveryIsOwned SlotsAccountedFor
PROPERTIES EpisodesAreRespected ImplementsBreaker EveryExecutionEnds
CHECK_DEADLOCK FALSE
