SPECIFICATION FairSpec
CONSTANTS
    Num = 1
    Clients = {c1, c2}
    Units = {u1, u2}
    None = None
INVARIANTS
    TypeOK
    WorkingCountsBusy
    NoLostWakeup
    FreedAfterExit
PROPERTIES
    ImplementsService
    AcceptedWorkRuns
    WaitReturns
    DestroyReturns
CHECK_DEADLOCK FALSE
