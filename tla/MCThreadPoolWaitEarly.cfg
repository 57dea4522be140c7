SPECIFICATION Spec
CONSTANTS
    Num = 2
    Clients = {c1}
    Units = {u1}
    None = None
PROPERTIES
    WaitCoversPending
CHECK_DEADLOCK FALSE
