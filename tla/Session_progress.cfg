\* Two prompts under the fairness the pump justifies.
SPECIFICATION FairSpec

CONSTANTS
    MaxPrompts = 2
    MaxAsks = 0
    MaxWire = 1
    MaxRestarts = 0
    Stops = {"end_turn", "cancelled"}
    AskKinds = {}
    Policies = {"default"}
    V2 = FALSE
    Chatter = FALSE
    MidCrash = FALSE

\* A user and an agent who do nothing more are no error.
CHECK_DEADLOCK FALSE

PROPERTIES
    RunsEnd
    QueueMoves
    FoldedComesBack
