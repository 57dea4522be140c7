SPECIFICATION FairSpec
CONSTANTS
    Num = 2
    Threads = {t1, t2, t3}
    MaxCalls = 2
PROPERTIES
    KeepsAPromise
CHECK_DEADLOCK FALSE
