SPECIFICATION Spec
CONSTANTS
    Role = "client"
    Bind = "TRX"
    c1 = c1
    c2 = c2
    Calls <- MCCalls
    CmdOf <- MCSubmits
    BoundCalls <- MCAtBound
    PeerCalls = {}
    SeqSpace = 2
    ChanCap = 1
    LinkCap = 1
    WireCap = 1
    MaxProbes = 1
    MaxTasks = 1
    MayStop = FALSE
    PeerPdus <- MCPeerOfClient
INVARIANTS TypeOK OneOwnerPerCall RegisteredOnceWritten AnswerMatchesCall NoOrphanAfterTeardown BoundCallNeverAnswered
CHECK_DEADLOCK FALSE
