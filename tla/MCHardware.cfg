SPECIFICATION MCSpec
CONSTANTS
    ByteBits = 2
    GPR = {0, 1, 2, 31}
    Instr <- MCInstr
    PageSize = 4
    NumPhysPages = 3
    pageTableSize = 3
    InitialTable <- MCInitialTable
    InitialWord = {3, 128}
    MaxTicks = 2
    UserTick = 1
    SystemTick = 2
    TimerTicks = 5
    ConsoleTime = 3
    RotationTime = 3
    SeekTime = 2
    SectorsPerTrack = 3
    DiskSector = {0, 1, 5}
    Typed <- MCTyped
    MaxTime = 17
    MaxWork = 1
    Proc = {p1, p2}
    FileName = {f1, f2}
    TableSize = 2
    MaxUserFiles = 2
    MaxOpens = 3
    MaxIO = 2
SYMMETRY MCSymmetry
INVARIANTS
    CleanPagesUnchanged
    PendingSound
    HaltsWhenDone
    EchoesAll
    DiskOnTime
    FilesResolve
    WritesApart
PROPERTIES
    ImplementsExecute
    Restartable
    MultIsProduct
CHECK_DEADLOCK FALSE
