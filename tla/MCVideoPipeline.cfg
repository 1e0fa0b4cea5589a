SPECIFICATION FairSpec
CONSTANTS
    p1 = p1
    p2 = p2
    p3 = p3
    Pbufs <- MCPbufs
    NoPbuf = NoPbuf
    UdpQueueLen = 2
    AgcQueueLen = 2
    TcpQueueLen = 2
    PacketsPerFrame = 3
INVARIANTS
    TypeOK
    RefExact
    NoUseAfterFree
    AgcReadsSentFrame
    QueuesShallow
    SuspendQuiescent
    VerdictsAgree
    GainAuthority
    OneInFlight
PROPERTIES
    InputNotStarved
    BufferReturned
    Relays
