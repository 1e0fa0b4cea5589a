SPECIFICATION Spec
CONSTANTS
    p1 = p1
    p2 = p2
    p3 = p3
    Pbufs <- MCPbufs
    NoPbuf = NoPbuf
    UdpQueueLen = 2
    AgcQueueLen = 2
    TcpQueueLen = 2
    PacketsPerFrame = 3
INVARIANTS
    CoreExclusive
