SPECIFICATION Spec
CONSTANTS
    U8Mod = 4
    U16Mod = 4
    MaxPduLen = 70
    MaxCut = 0
    Pdus <- MCPdus
    Scripts <- MCCancel
INVARIANTS EveryPduArrives
CHECK_DEADLOCK FALSE
