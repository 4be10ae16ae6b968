\* Two prompts that may each ask, under both fold policies.
SPECIFICATION Spec

CONSTANTS
    MaxPrompts = 2
    MaxAsks = 2
    MaxWire = 1
    MaxRestarts = 0
    Stops = {"end_turn"}
    AskKinds = {"read"}
    Policies = {"default", "wait_for_inbox"}
    V2 = FALSE
    Chatter = FALSE
    MidCrash = FALSE

\* A user and an agent who do nothing more are no error.
CHECK_DEADLOCK FALSE

INVARIANTS
    LiveAsksArePending
    NoAskAsleep
    AsksAreServed
    NoResultAsleep

