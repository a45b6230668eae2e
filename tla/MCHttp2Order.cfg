SPECIFICATION Spec
CONSTANTS
    MaxStreams = 1
    BodyLen = 3
    HeadLen = 1
    MaxFrame = 2
    ConnWindows = {2}
    Windows = {3}
    StreamWindow = 3
    Grant = 2
    MaxGrants = 1
    MaxCuts = 2
    Enough = 1
    MaxConcurrent = 1
CHECK_DEADLOCK FALSE
INVARIANT
    BodyInOrder
