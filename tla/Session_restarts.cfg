\* A quit or a crash anywhere, also half way through a handler, and the relaunch.
SPECIFICATION Spec

CONSTANTS
    MaxPrompts = 2
    MaxAsks = 1
    MaxWire = 1
    MaxRestarts = 1
    Stops = {"end_turn"}
    AskKinds = {"execute", "question"}
    Policies = {"default"}
    V2 = FALSE
    Chatter = FALSE
    MidCrash = TRUE

\* A user and an agent who do nothing more are no error.
CHECK_DEADLOCK FALSE

INVARIANTS
    TypeOK
    OnlyNewestOpen
    OpenRunIsServed

PROPERTIES
    RunsEndOnce
    AsksDecidedOnce
