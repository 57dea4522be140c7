SPECIFICATION BroadcastSpec
CONSTANTS
    Num = 2
    TreeProcs <- MCTreeProcs
    Main = Main
    None = None
INVARIANTS
    ArgsOwned
    TargetExplained
    TreeReachesChildren
CHECK_DEADLOCK FALSE
