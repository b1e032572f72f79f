SPECIFICATION FairSpec
CONSTANTS
    NumTasks = 3
    UserNum = 1
    Stacks = {101, 102, 103}
    MainStack = 101
    Futexes = {201}
    Unmapped = {}
    Calls = {0, 32, 33, 34, 35, 99}
    FutexValues = {1}
    WakeCounts = {1}
    ExitCodes = {7}
    PidArgs = {0, 1, 2}
    Bursts <- OneChar
    SharedJoin = FALSE
INVARIANTS
    NoOrphanWaiter
    JoinDelivers
    StackIsolation
PROPERTIES
    TerminatedIsFinal
    RoundRobin
    ReadyRuns
CHECK_DEADLOCK FALSE
