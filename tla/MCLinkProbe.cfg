SPECIFICATION Spec
CONSTANTS
    Bind = "TRX"
    u1 = u1
    u2 = u2
    d1 = d1
    CCalls = {}
    CCmd <- MCNone
    SCalls <- MCServerCalls
    SCmd <- MCDeliver
    CProbes = 2
    SProbes = 0
    SeqSpace = 4
    ChanCap = 1
    LinkCap = 1
    WireCap = 1
    MaxTasks = 1
INVARIANTS ProbeAnswerIsFresh NoAnswerRefused
PROPERTIES SidesAreSessions
CHECK_DEADLOCK FALSE
