SPECIFICATION Spec
CONSTANTS
    Layers = {road}
    Builds = {b1, b2, b3}
    Envs = {prod}
    HistoryKeep = 2
    MaxPacks = 3
    MaxPromotions = 3
    None = None
SYMMETRY Symmetry
PROPERTY GraceAfterUnnamed
CHECK_DEADLOCK FALSE
