SPECIFICATION MCSpec
CONSTANTS
    Process = {p1, p2, p3}
    NumPhysPages = 4
    ProgramSize = {1, 2}
    Pid = {i1, i2, i3}
    Size = {1, 2, 4}
    CodePages = 1
    NumFrames = 3
    SwapSize = 4
    Text = text
    Value = {d}
    Unknown = Unknown
    MaxStores = 1
    PageSize = 3
    UserStackSize = 4
    HeaderSize = 2
    TextSize = {1, 2, 3, 4, 5}
    SectionSize = {0, 1, 4}
    Cell = {e1, e2, e3}
    Thing = {x, y}
    Key = {0, 1, 2}
    NULL = NULL
SYMMETRY MCSymmetry
INVARIANTS
    FramesKept
    BookkeepingExact
    Coherent
    LoadedExact
PROPERTIES
    FlatExitCompletes
    ImplementsContents
CHECK_DEADLOCK FALSE
