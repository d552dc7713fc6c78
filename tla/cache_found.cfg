SPECIFICATION Spec
CONSTANTS
    p1 = p1
    p2 = p2
    r1 = r1
    r2 = r2
    k1 = k1
    k2 = k2
    k3 = k3
    a = a
    b = b
    Converters = {p1}
    Readers = {r1}
    Revisions = {k1}
    Names = {a}
    Old = {}
    Earlier = {}
    Adaptive = FALSE
    Casts <- MCPair
    Follows <- MCFollows
    Damageable = {}
    MaxDamage = 0
PROPERTY ConvertedIsFound
