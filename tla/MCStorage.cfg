SPECIFICATION MCSpec
CONSTANTS
    Thread = {t1, t2, t3}
    Sector = {s1, s2}
    Data = {blank, d1}
    Blank = blank
    NoCall = NoCall
    NumSectors = 13
    SectorSize = 3
    PointerSectors = 2
    NumInDirect = 2
    Name = {n1, n2, n3}
    CreateSize = {0, 6, 15}
    NumDirEntries = 2
    Inc = 2
    MaxCalls = 6
    Taken = {0, 1, 2, 3, 4}
    Value = {a, b}
    Stale = Stale
    InitialSize = {0, 2, 7}
    RequestLength = {1, 4}
    MaxWrites = 3
SYMMETRY MCSymmetry
INVARIANTS
    WaitsForItsInterrupt
    FilesSurvive
    MapExact
    ReadsBack
    SectorsOwned
PROPERTIES
    ImplementsAtomicDisk
    SomeCallReturns
CHECK_DEADLOCK FALSE
