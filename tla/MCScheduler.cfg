SPECIFICATION MCSpec
CONSTANTS
    Thread = {t1, t2, t3}
    Main = t1
    NULL = NULL
    User = {u1, u2, u3, u4}
    Item = {x, y}
    NoItem = NoItem
    MaxItems = 2
    NetMachine = {m1, m2}
    Clerk = {c1}
INVARIANTS
    ReadyListSound
    NoSleepOverItems
    OneMessageAtATime
    DeliveredOnce
    HaltedMeansReceived
PROPERTIES
    SafeDestroy
    ReadyEventuallyRuns
    ImplementsQueue
    MailTestEnds
CHECK_DEADLOCK FALSE
