SPECIFICATION Spec
CONSTANTS
    Callers = {k1, k2}
    PoolSize = 1
    MaxVMs = 5
INVARIANTS
    NeverPanics
CHECK_DEADLOCK FALSE
