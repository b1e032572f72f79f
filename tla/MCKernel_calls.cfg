SPECIFICATION Spec
CONSTANTS
    NumTasks = 3
    UserNum = 1
    Stacks = {101, 102, 103}
    MainStack = 101
    Futexes = {201, 202}
    Unmapped = {900}
    Calls = {0, 1, 32, 33, 34, 35}
    FutexValues = {0}
    WakeCounts = {0, 2}
    ExitCodes = {0}
    PidArgs = {1, 4}
    Bursts <- MCBursts
    SharedJoin = FALSE
INVARIANTS
    TypeOK
    QueueDiscipline
    CurrentIsRunning
PROPERTIES
    NoOvertaking
CHECK_DEADLOCK FALSE
