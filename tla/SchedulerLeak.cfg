SPECIFICATION SchedSpec
CONSTANTS
    Thread = {t1, t2, t3}
    Main = t1
    NULL = NULL
INVARIANT FinishedIsRemembered
CHECK_DEADLOCK FALSE
