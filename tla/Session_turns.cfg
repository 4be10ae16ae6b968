\* Three prompts, no asks, an agent that ends every turn twice: queue, interrupt, cancel, cap and adapter death.
SPECIFICATION Spec

CONSTANTS
    MaxPrompts = 3
    MaxAsks = 0
    MaxWire = 1
    MaxRestarts = 0
    Stops = {"end_turn"}
    AskKinds = {}
    Policies = {"default"}
    V2 = TRUE
    Chatter = FALSE
    MidCrash = FALSE

\* A user and an agent who do nothing more are no error.
CHECK_DEADLOCK FALSE

INVARIANTS
    PromptsAccounted
    SentInOrder

PROPERTIES
    LedgerPromise
