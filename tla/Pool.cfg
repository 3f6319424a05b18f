SPECIFICATION Spec
CONSTANTS
    Callers = {k1, k2}
    PoolSize = 1
    MaxVMs = 6
INVARIANTS
    Isolation
    Footprint
    QuietAtRest
PROPERTIES
    EveryCallReturns
CHECK_DEADLOCK FALSE
