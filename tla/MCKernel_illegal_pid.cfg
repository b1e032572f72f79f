SPECIFICATION Spec
CONSTANTS
    NumTasks = 3
    UserNum = 1
    Stacks = {101, 102, 103}
    MainStack = 101
    Futexes = {}
    Unmapped = {}
    Calls = {32, 33, 34}
    FutexValues = {0}
    WakeCounts = {1}
    ExitCodes = {7}
    PidArgs = {1, 3}
    Bursts <- NoBursts
    SharedJoin = FALSE
INVARIANTS
    WaitpidRejectsIllegalPid
CHECK_DEADLOCK FALSE
