SPECIFICATION FairSpec
CONSTANTS
    MaxStarts = 2
    Strangers <- MCStrangers
INVARIANTS TypeOK AgreeOnBind FlagClearedUnlessRaced SessionKeepsFlag
PROPERTIES HandshakeEnds
CHECK_DEADLOCK FALSE
