SPECIFICATION FairSpec
CONSTANTS
    Callers = {c1, c2}
    ThreadNum = 2
    NoOne = NoOne
    MaxCalls = 2
    MaxTroubles = 1
CHECK_DEADLOCK FALSE
INVARIANTS
    LoggedIn
    WorkersExact
    RoadExact
PROPERTY
    CallsReturn
