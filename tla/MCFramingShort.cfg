SPECIFICATION Spec
CONSTANTS
    HdrLen = 2
    MaxLen = 4
    Lengths <- MCGoodLengths
    ReadMax = 5
    MaxPdus = 3
    ShortWrites = TRUE
INVARIANTS SentWhole
CHECK_DEADLOCK FALSE
