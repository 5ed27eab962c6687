CONSTANTS
    s1 = s1
    s2 = s2
    c1 = c1
    c2 = c2
    p80 = p80
    h1 = h1
    h2 = h2
    r1 = r1
    r2 = r2
    ok = ok
    nopacket = nopacket
    dispatcher = dispatcher
    Sockets <- MCSockets2
    Dispatcher = dispatcher
    Ports <- MCPorts
    Hosts <- MCHosts
    RemotePorts <- MCRemotePorts
    Bytes <- MCBytes
    Packets <- MCPackets
    NoPacket = nopacket
    Responses <- MCResponses
    SeqSpace <- MCSeqSpace
    QueueBound = 4
    Peers <- OnePeer
    PeerAddress <- Apart
    ServerPort = p80
    Isn <- Wrapping
    Script <- ShortRequests
    Polite = FALSE
    LossBudget = 0
    RetryBudget = 0

SPECIFICATION LinkSpec
CHECK_DEADLOCK FALSE
INVARIANTS
    AssertConnectedHolds
