SPECIFICATION FairSpec
CONSTANTS
    Thread = {t1, t2, t3}
    NoThread = NoThread
    Rounds = 2
INVARIANTS
    TypeOK
    MutualExclusion
    NoLostWakeup
    CountIsExact
PROPERTIES
    ImplementsGuardedCounter
    Termination
