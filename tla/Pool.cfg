SPECIFICATION FairSpec
CONSTANTS
    r1 = r1
    r2 = r2
    r3 = r3
    Requests = {r1, r2, r3}
    PoolSize = 2
    MaxQueue = 1
    MaxWorkers = 3
    None = None
INVARIANTS
    OneThreadPerSlot
    OneOutstanding
    NothingLeftBehind
    CloseIsComplete
PROPERTIES
    EventuallySettled
    CloseReturns
CHECK_DEADLOCK FALSE
