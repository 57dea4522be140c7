SPECIFICATION FairSpec
CONSTANTS
    Num = 3
    Updates = 1
    MaxRefused = 1
    Main = Main
    None = None
INVARIANTS
    OneSurvivor
    StuckCount
    ExitExplained
    LateWasMissed
    OverBudgetHangs
PROPERTIES
    EndsUnlessWedged
    EndsWithinBudget
CHECK_DEADLOCK FALSE
