SPECIFICATION Spec
CONSTANTS
    t1 = t1
    t2 = t2
    off = off
    NLayers = 2
    Tiles = {t1, t2, off}
    OffGrid = {off}
    Rebuilds <- MCRebuilds
    MaxAttempts = 2
    None = None
PROPERTY PushesRerunnable
CHECK_DEADLOCK FALSE
