SPECIFICATION FairSpec
CONSTANTS
    MaxWord = 11
    PageSize = 2
    UserNum = 2
    Images <- MCImages
    VpnNum = 4
    PmpSlots = 6
    RamPages = 6
    Ram = 0
    StoreValues = {7}
    Targets = {0, 3, 4}
INVARIANTS
    TypeOK
    FramesDisjoint
    MappedIsOpened
PROPERTIES
    ImplementsUserMemory
    EveryAccessEnds
CHECK_DEADLOCK FALSE
