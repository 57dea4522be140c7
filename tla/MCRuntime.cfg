SPECIFICATION Spec
CONSTANTS
    MAX_NUM_OF_THREADS = 3
    EnvThreads = 2
    Main = Main
    Blocks = {b1, b2}
    MaxCalls = 4
INVARIANTS
    SuccessExplained
PROPERTIES
    NoWayBack
    MisuseExplained
CHECK_DEADLOCK FALSE
