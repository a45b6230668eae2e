SPECIFICATION Spec
CONSTANTS
    MaxStreams = 2
    BodyLen = 4
    HeadLen = 1
    MaxFrame = 2
    ConnWindows = {1, 2}
    Windows = {1, 4}
    StreamWindow = 3
    Grant = 3
    MaxGrants = 1
    MaxCuts = 3
    Enough = 0
    MaxConcurrent = 1
CHECK_DEADLOCK FALSE
INVARIANTS
    BodyAccounted
    NoBlockedForgotten
    BodyGoesOn
    AcceptsWhenFree
    TasksHandedOn
