SPECIFICATION Spec

CONSTANTS
    t1 = t1
    t2 = t2
    Threads = {t1, t2}
    Slug <- Apart
    MaxNames = 3
    MaxWork = 2
    MaxStops = 1
    MaxMishaps = 1
    MaxMoves = 3

\* The moves of the model run out.
CHECK_DEADLOCK FALSE

INVARIANTS
    NoWorkIsLost

PROPERTIES
    RowsAreReliable
