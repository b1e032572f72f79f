SPECIFICATION Spec
CONSTANTS
    Task = {t1, t2, t3, t4}
    Queue = {read, wait, futex}
    Key = {k1, k2}
    Count = {1, 2, 9}
    NULL = NULL
    MaxTurns = 9
SYMMETRY Symmetry
INVARIANTS
    WellLinked
PROPERTIES
    ImplementsWaitQueues
CHECK_DEADLOCK FALSE
