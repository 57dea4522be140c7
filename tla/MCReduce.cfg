SPECIFICATION Spec
CONSTANTS
    Num = 2
    Sizes <- MCSizes
    Src <- PowersOfTwo
    Junk = 1000
    Main = Main
    None = None
INVARIANTS
    SumExplained
    StrayWasMissed
PROPERTIES
    PoolServes
CHECK_DEADLOCK FALSE
