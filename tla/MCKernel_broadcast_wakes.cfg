SPECIFICATION Spec
CONSTANTS
    NumTasks = 3
    UserNum = 1
    Stacks = {101, 102, 103}
    MainStack = 101
    Futexes = {201}
    Unmapped = {}
    Calls = {32, 33, 35}
    FutexValues = {0}
    WakeCounts = {9}
    ExitCodes = {7}
    PidArgs = {0, 1, 2}
    Bursts <- NoBursts
    SharedJoin = FALSE
PROPERTIES
    BroadcastWakesAll
CHECK_DEADLOCK FALSE
