SPECIFICATION Spec
CONSTANTS
    Sources <- MCSources
    Replacements <- MCReplacements
    Configs <- MCConfigs
    Stamps = {s1, s2}
SYMMETRY MCStampSymmetry
INVARIANT TypeOK
INVARIANT PlannersAgree
INVARIANT PlanIsSound
INVARIANT RoutedWhereCounted
INVARIANT TilesHoldTheirPoints
CHECK_DEADLOCK FALSE
