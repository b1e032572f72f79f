SPECIFICATION Spec
CONSTANTS
    UserNum = 2
    PcNum = 1
    Bursts = {}
INVARIANTS
    SavedRegistersKept
CHECK_DEADLOCK FALSE
