SPECIFICATION FairProcSpec
CONSTANTS
    Process = {p1, p2}
    Root = p1
    Joiner = {p1}
    MaxProcess = 2
    ExitArg <- NegativeAndPositive
    NULL = NULL
PROPERTIES
    JoinReturns
CHECK_DEADLOCK FALSE
