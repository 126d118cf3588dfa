CONSTANTS
    Chats = {c1}
    Ids = {m1, m2}
    MaxTurns = 3
    MaxTrees = 1
    Reporting = {}
    MaxSending = 1
    MaxCommands = 1
    MaxRestarts = 1
    None = None
SPECIFICATION FairSpec
PROPERTY EverythingSettles
CHECK_DEADLOCK FALSE
