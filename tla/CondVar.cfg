SPECIFICATION FairSpec
CONSTANTS
    Consumer = {c1, c2}
    Producer = {p1, p2}
    NoThread = NoThread
    Rounds = 2
    SeqMod = 5
    WakeCount = 1
INVARIANTS
    TypeOK
    NoLostSignal
PROPERTIES
    Termination
CHECK_DEADLOCK FALSE
