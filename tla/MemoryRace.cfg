SPECIFICATION MemSpec
CONSTANTS
    Process = {p1, p2, p3}
    NumPhysPages = 3
    ProgramSize = {1, 2}
INVARIANTS
    GetPageAllocates
CHECK_DEADLOCK FALSE
