SPECIFICATION Spec
CONSTANTS
    UserNum = 2
    TaskNum = 2
    PcNum = 2
    ShortPcNum = 1
    Entry = 0
    Offset = 3
    RamPages = 7
    PmpEntries = {1, 16}
    StoreValues = {7}
    Bursts <- MCBursts
INVARIANTS
    TypesOK
    UserModeForPrograms
    SleepersInQueues
    BlockedIsReader
PROPERTIES
    ImplementsPrograms
CHECK_DEADLOCK FALSE
