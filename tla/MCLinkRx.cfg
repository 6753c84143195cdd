SPECIFICATION Spec
CONSTANTS
    Bind = "RX"
    u1 = u1
    u2 = u2
    d1 = d1
    CCalls = {}
    CCmd <- MCNone
    SCalls <- MCServerCalls
    SCmd <- MCDeliver
    CProbes = 0
    SProbes = 0
    SeqSpace = 5
    ChanCap = 1
    LinkCap = 1
    WireCap = 1
    MaxTasks = 1
INVARIANTS NoAnswerRefused
CHECK_DEADLOCK FALSE
