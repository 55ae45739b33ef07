SPECIFICATION Spec
CONSTANTS
    Registered <- MCRegistered
    Rank <- MCRank
    Year <- MCYear
    Layer <- MCLayer
    Rows = 6
    Class <- MCClass
    Ref <- MCRef
    Ends <- MCEnds
    Speed <- MCSpeed
    Authored = {4}
    Default <- MCDefault
    Trips <- MCTrips
    Coverage <- MCCoverage
    Abroad <- MCAbroad
    TreeId = 4
    FillId = 5
    TaperId = 6
    Censuses <- MCCensuses
    Retracting = {2, 3}
    Feeds <- MCFeeds
    Droppable = {5}
    Legacy <- MCLegacy
    MaxChanges = 3
    MaxStrays = 0
CHECK_DEADLOCK FALSE
INVARIANTS
    TaperYields
