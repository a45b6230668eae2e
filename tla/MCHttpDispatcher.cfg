CONSTANTS
    Tasks = {t1}
    Workers = {w1, w2}
    None = None
    Ping = Ping
    RetryLimit = 0
    DisturbBound = 1
SYMMETRY WorkerSymmetry
SPECIFICATION Spec
INVARIANTS
    NoTaskForgotten
    AnsweredOnce
    BodyWillEnd
