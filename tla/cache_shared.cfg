SPECIFICATION FairSpec
CONSTANTS
    p1 = p1
    p2 = p2
    r1 = r1
    r2 = r2
    k1 = k1
    k2 = k2
    k3 = k3
    a = a
    b = b
    Converters = {p1, p2}
    Readers = {r1, r2}
    Revisions = {k1, k2, k3}
    Names = {a}
    Old <- MCOld
    Earlier <- MCEarlier
    Adaptive = TRUE
    Casts <- MCCasts
    Follows <- MCFollows
    Damageable = {"manifest", a}
    MaxDamage = 1
INVARIANT TypeOK
INVARIANT DeliveredWhole
INVARIANT ReaderHitIsWhole
PROPERTY EntryAppearsWhole
PROPERTY WholeKept
PROPERTY EventuallyCached
