SPECIFICATION Spec
CONSTANTS
    d1 = d1
    d2 = d2
    p1 = p1
    Procs = {p1}
    Dirs = {d1, d2}
    Inside = {d1}
    UserDirs = {d2}
    CacheDir = d1
    NoFile = NoFile
    Torn = Torn
    Serial = TRUE
    RemoveMayFail = TRUE
    ShortWrites = TRUE
PROPERTY SuccessMeansPublished
PROPERTY CompletedPairKept
PROPERTY UserDataKept
