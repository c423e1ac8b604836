SPECIFICATION ProcSpec
CONSTANTS
    Process = {p1, p2, p3}
    Root = p1
    Joiner = {p1}
    MaxProcess = 3
    ExitArg <- NegativeAndPositive
    NULL = NULL
INVARIANTS
    UniquePids
CHECK_DEADLOCK FALSE
