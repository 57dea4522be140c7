SPECIFICATION FairSpec
CONSTANTS
    Num = 2
    Clients = {c1}
    Units = {u1}
    None = None
PROPERTIES
    DestroyReturns
CHECK_DEADLOCK FALSE
