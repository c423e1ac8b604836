SPECIFICATION SynchSpec
CONSTANTS
    Thread = {t1, t2, t3, t4}
    Main = t1
    NULL = NULL
    Semaphore = {s1}
    Lock = {l1}
    Condition = {c1}
    InitialValue <- Zero
    MaxValue = 2
SYMMETRY MCSymmetry
INVARIANTS
    MutualExclusion
    WaitersServed
PROPERTIES
    SchedSpec
CHECK_DEADLOCK FALSE
