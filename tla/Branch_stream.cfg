SPECIFICATION BranchSpec

CONSTANTS
    Asks = {"ask"}
    Cap = 2
    Window = 2
    Quiet = TRUE
    MaxTexts = 3
    MaxUnsaved = 1
    MaxStops = 1
    MaxDrops = 1
    MaxViews = 1
    MaxBranches = 2

\* A host and an agent that do nothing more are no error.
CHECK_DEADLOCK FALSE

INVARIANTS
    DesktopIsTrue
    PhoneMissesNothing
    BranchesStand
