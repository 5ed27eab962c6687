\* Three sockets, three ports, payloads that are and are not taken for fragments.
SPECIFICATION Spec
CONSTANTS
    s1 = s1
    s2 = s2
    s3 = s3
    h1 = h1
    h2 = h2
    none = none
    Sockets <- MCSockets
    Hosts <- MCHosts
    NoHost = none
    RemotePorts <- MCRemotePorts
    ListenPorts <- MCListenPorts
    base = 10
    n_ports = 3
    PayloadSizes <- AnyLength
    QueueBound = 1
CHECK_DEADLOCK FALSE
INVARIANT OneSocketPerPeer
INVARIANT PortsAccounted
SYMMETRY SocketSymmetry
