CONSTANTS
    Callers = {c1, c2}
    Connectors = {t1, t2}
    Socks = {s1, s2}
    PoolMin = 1
    PoolMax = 1
    CallBound = 2
SPECIFICATION Spec
INVARIANTS
    DemandExact
    NoLostWakeUp
    PoolBounded
    OneOwner
PROPERTIES
    CallersReturn
    ThreadsEnd
