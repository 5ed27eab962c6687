CONSTANTS
    s1 = s1
    s2 = s2
    p1 = p1
    h1 = h1
    r1 = r1
    r2 = r2
    b1 = b1
    none = none
    dispatcher = dispatcher
    Sockets <- MCSockets
    Dispatcher = dispatcher
    Ports <- MCPorts
    Hosts <- MCHosts
    RemotePorts <- MCRemotePorts
    Bytes <- MCBytes
    Packets <- MCPackets
    NoPacket = none
    Responses <- MCResponses
    SeqSpace <- MCSeqSpace
    QueueBound = 1

SPECIFICATION Spec
CHECK_DEADLOCK FALSE
INVARIANTS
    TypeOK
    NoUseAfterFree
    OneBranchPerPacket
    NoLostWakeup
    CloseStates
