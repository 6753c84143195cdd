SPECIFICATION FairSpec
CONSTANTS
    Role = "client"
    Bind = "TRX"
    c1 = c1
    c2 = c2
    Calls <- MCOneCall
    CmdOf <- MCSubmit
    BoundCalls = {}
    PeerCalls = {}
    SeqSpace = 3
    ChanCap = 1
    LinkCap = 1
    WireCap = 1
    MaxProbes = 1
    MaxTasks = 1
    MayStop = FALSE
    PeerPdus <- MCPeerProbe
PROPERTIES InactivityAlwaysTriggers
CHECK_DEADLOCK FALSE
