SPECIFICATION Spec
CONSTANTS
    NumTasks = 3
    UserNum = 1
    Stacks = {101, 102, 103}
    MainStack = 101
    Futexes = {}
    Unmapped = {}
    Calls = {32, 33, 34}
    FutexValues = {0}
    WakeCounts = {1}
    ExitCodes = {7}
    PidArgs = {0, 1, 2}
    Bursts <- NoBursts
    SharedJoin = TRUE
INVARIANTS
    NoOrphanWaiter
CHECK_DEADLOCK FALSE
