SPECIFICATION FairSpec
CONSTANTS
    r1 = r1
    r2 = r2
    g1 = g1
    g2 = g2
    a = a
    s1 = s1
    s2 = s2
    Reads = {r1, r2}
    Generations = {g1}
    Cached = {}
    Names = {a}
    Stagings = {s1, s2}
    None = None
    LiveAges = FALSE
    MaxDamage = 0
PROPERTY LeftoversSwept
