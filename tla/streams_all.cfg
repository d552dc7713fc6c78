SPECIFICATION FairSpec
CONSTANTS
    Kinds = {"LasReader", "LasPointStream", "LazReader", "LazPointStream", "CopcPointStream", "PlyPointStream"}
    MaxPoints = 4
    LasFilters = FALSE
INVARIANT TypeOK
INVARIANT EndIsValidated
PROPERTY KeepsContract
PROPERTY EveryReadEnds
CHECK_DEADLOCK FALSE
