SPECIFICATION Spec
CONSTANTS
    a = a
    b = b
    d0 = d0
    d1 = d1
    d2 = d2
    NoData = NoData
    Node = {a, b}
    Peer <- MCPeer
    Data = {d0, d1}
    StateCode <- StateCodes
    HalfWidth = 4
    RD16 <- MCRD16
    MixCode <- MCMixCode
    TimeoutTicks = 1
    QueueCap = 1
    MaxPut <- OneEach
    AwaitOk = TRUE
INVARIANT TakenWhenReset
CHECK_DEADLOCK FALSE
