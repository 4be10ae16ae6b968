SPECIFICATION AiderSpec

CONSTANTS
    t1 = t1
    t2 = t2
    Threads = {t1, t2}
    Nobody = Nobody
    Abilities <- AllOrLoad
    Anonymous = TRUE
    MaxSessions = 2
    MaxPrompts = 2
    MaxUpdates = 1
    MaxAsks = 1
    MaxProcs = 2
    MaxLeaves = 1
    MaxAdapters = 2
    MaxTurns = 2
    MaxCancels = 1
    MaxDrops = 1

\* A user and an agent who do nothing more are no error.
CHECK_DEADLOCK FALSE

INVARIANTS
    EventsFindTheirWay
    OpenRunHasSession
    TurnsAreAnswered

PROPERTIES
    ResultEndsOwnTurn
