SPECIFICATION Spec

CONSTANTS
    t1 = t1
    t2 = t2
    p1 = p1
    p2 = p2
    p3 = p3
    c1 = c1
    c2 = c2
    None = None
    Threads = {t1}
    Prs = {p1, p2, p3}
    Strangers = {p3}
    Calls = {c1}
    Batch = 2
    MaxChanges = 2
    MaxHides = 1
    MaxMishaps = 1

SYMMETRY Interchangeable

INVARIANTS
    CardsAreNews
    OnlyExecuteIsProof

PROPERTIES
    NothingUnheldIsTold
