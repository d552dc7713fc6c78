SPECIFICATION RetrySpec
CONSTANTS
    d1 = d1
    d2 = d2
    p1 = p1
    Procs = {p1}
    Dirs = {d1, d2}
    Inside = {d1}
    UserDirs = {}
    CacheDir = d1
    NoFile = NoFile
    Torn = Torn
    Serial = TRUE
    RemoveMayFail = FALSE
    ShortWrites = FALSE
INVARIANT TypeOK
INVARIANT PublishedRootIsBacked
PROPERTY PublishesAtomically
PROPERTY FailureLeavesNothing
PROPERTY EventuallyDelivered
