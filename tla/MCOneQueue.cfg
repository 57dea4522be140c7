SPECIFICATION FairSpec
CONSTANTS
    Num = 3
    Clients = {c1}
    Units = {u1, u2, u3}
    None = None
INVARIANTS
    FreedAfterAll
PROPERTIES
    AcceptedWorkRuns
    DestroyReturns
    ImplementsService
CHECK_DEADLOCK FALSE
