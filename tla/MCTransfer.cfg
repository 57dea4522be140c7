SPECIFICATION Spec
CONSTANTS
    REG = 512
    WORD = 128
    Counts <- MCCounts
    Strides <- MCStrides
    MaxArray = 144
    Old = Old
INVARIANTS
    LossExplained
    StrayExplained
    NoMisplacedByte
CHECK_DEADLOCK FALSE
