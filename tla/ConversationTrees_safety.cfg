CONSTANTS
    Chats = {c1, c2}
    Ids = {m1, m2, m3}
    MaxTurns = 3
    MaxTrees = 3
    Reporting = {1}
    MaxSending = 2
    MaxCommands = 3
    MaxRestarts = 0
    None = None
SPECIFICATION Spec
SYMMETRY Symmetry
CONSTRAINT Shape
INVARIANTS ClaimsHaveTasks StructuresAgree ClearedIsGone QueueIsServed Restorable
PROPERTIES StoppedStaysStopped ImplementsTurnQueue
CHECK_DEADLOCK FALSE
