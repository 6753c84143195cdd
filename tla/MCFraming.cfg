SPECIFICATION Spec
CONSTANTS
    HdrLen = 2
    MaxLen = 4
    Lengths <- MCLengths
    ReadMax = 5
    MaxPdus = 4
    ShortWrites = FALSE
INVARIANTS TypeOK QuietMeansDrained TailBounded
PROPERTIES ImplementsPduStream
CHECK_DEADLOCK FALSE
