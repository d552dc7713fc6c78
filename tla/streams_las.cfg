SPECIFICATION Spec
CONSTANTS
    Kinds = {"LasPointStream"}
    MaxPoints = 4
    LasFilters = TRUE
INVARIANT DeliversSelection
CHECK_DEADLOCK FALSE
