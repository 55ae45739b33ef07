SPECIFICATION Spec
CONSTANTS
    Layers = {road, rail}
    Builds = {b1, b2}
    Envs = {prod}
    HistoryKeep = 2
    MaxPacks = 4
    MaxPromotions = 3
    None = None
SYMMETRY Symmetry
INVARIANTS
    RollbackTargetsKept
    OrphansAreMarked
PROPERTY ReadersSeeWholePublishes
CHECK_DEADLOCK FALSE
