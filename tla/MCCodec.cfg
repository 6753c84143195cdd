SPECIFICATION Spec
CONSTANTS
    U8Mod = 4
    U16Mod = 4
    MaxPduLen = 70
    MaxCut = 12
    Pdus <- MCPdus
    Scripts <- MCScripts
INVARIANTS InStep ReceivedAsSent CutNeverMisread
CHECK_DEADLOCK FALSE
