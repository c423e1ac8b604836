SPECIFICATION MCSpec
CONSTANTS
    Process = {p1, p2, p3}
    Root = p1
    Joiner = {p1}
    MaxProcess = 3
    ExitArg <- NegativeAndPositive
    NULL = NULL
    Thread = {t1, t2}
    Large = t1
    PageSize = 3
    NumPhysPages = 5
    numPages <- MCNumPages
    pageTable <- MCPageTable
    Anywhere = {1, 14}
    Address = {0, 2}
    RequestSize = {2, 3, 6}
INVARIANTS
    NoFault
    FlatJoinNotEarly
    FlatJoinGetsStatus
    TransferExact
PROPERTIES
    FlatJoinReturns
CHECK_DEADLOCK FALSE
