SPECIFICATION DraftsSpec

CONSTANTS
    chief = chief
    writer = writer
    Code = Code
    None = None
    User = User
    Bots = {chief, writer}
    Kinds = {"handoff", "spawn", "fold", "draft", "status"}
    Windows = {w1, w2}
    w1 = w1
    w2 = w2
    Proposals = {x, y}
    x = x
    y = y
    Edited = {"z"}
    MaxCalls = 2
    MaxGenerations = 3
    MaxMoves = 4
    MaxCrashes = 1

\* A crew with nothing to do is no error.
CHECK_DEADLOCK FALSE

SYMMETRY Interchangeable

INVARIANTS
    CallsAreKept
    HandoffsStand
    ProposalsStand
