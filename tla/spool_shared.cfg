SPECIFICATION Spec
CONSTANTS
    r1 = r1
    r2 = r2
    c1 = c1
    c2 = c2
    t1 = t1
    t2 = t2
    Reads = {r1, r2}
    Contents = {c1, c2}
    Files = {1, 2, 3, 4, 5, 6}
    Route <- MCRoute
    Limit = 2
    Revised = FALSE
    None = None
INVARIANT TypeOK
INVARIANT MemoryIsBounded
INVARIANT SpoolsRemoved
INVARIANT DeliversOwnPoints
SYMMETRY MCSymmetry
VIEW MCView
