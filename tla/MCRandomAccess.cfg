SPECIFICATION Spec
CONSTANTS
    W = 6
    PERIOD = 31
    Args <- MCArgs
    Procs <- MCProcs
    MemWords <- MCMemWords
    Tables <- MCTables
    None = None
INVARIANTS
    SequenceCorrect
    OutsideExplained
    RemoteForced
    RefusesRemainder
CHECK_DEADLOCK FALSE
