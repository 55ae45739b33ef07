SPECIFICATION Spec
CONSTANTS
    w1 = w1
    w2 = w2
    w3 = w3
    Nobody = Nobody
    Empty = Empty
    Writer <- MCWriter
    Registered <- MCRegistered
    Rank <- MCRank
    Year <- MCYear
    Layer <- MCLayer
    Claim <- MCClaim
    Patient <- MCPatient
    MaxCrashes = 1
CHECK_DEADLOCK FALSE
INVARIANTS
    MutualExclusion
