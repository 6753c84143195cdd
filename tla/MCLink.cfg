SPECIFICATION Spec
CONSTANTS
    Bind = "TX"
    u1 = u1
    u2 = u2
    d1 = d1
    CCalls <- MCClientCalls
    CCmd <- MCSubmitUnbind
    SCalls <- MCServerCalls
    SCmd <- MCDeliver
    CProbes = 0
    SProbes = 0
    SeqSpace = 5
    ChanCap = 1
    LinkCap = 1
    WireCap = 1
    MaxTasks = 1
INVARIANTS AnswerIsForThisCall NoAnswerRefused UnbindAgreed
CHECK_DEADLOCK FALSE
