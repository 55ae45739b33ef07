SPECIFICATION Spec
CONSTANTS
    Nobody = Nobody
    Empty = Empty
    Writer = {w1, w2, w3, w4}
    Patient = {w1, w2, w3, w4}
    Registered <- MCRegistered
    Rank <- MCRank
    Year <- MCYear
    Layer <- MCLayer
    Claim <- MCClaim
    MaxCrashes = 2
SYMMETRY MCSymmetry
CHECK_DEADLOCK FALSE
INVARIANTS
    ReapMutexSuffices
