SPECIFICATION ProcSpec
CONSTANTS
    Process = {p1, p2}
    Root = p1
    Joiner = {}
    MaxProcess = 2
    ExitArg <- NegativeAndPositive
    NULL = NULL
INVARIANTS
    ExecReturnsId
CHECK_DEADLOCK FALSE
