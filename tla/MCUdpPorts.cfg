\* Two sockets that are opened and closed, and more ports than sockets.
SPECIFICATION Spec
CONSTANTS
    s1 = s1
    s2 = s2
    s3 = s3
    h1 = h1
    h2 = h2
    none = none
    Sockets <- TwoSockets
    Hosts <- MCHosts
    NoHost = none
    RemotePorts <- MCRemotePorts
    ListenPorts <- MCListenPorts
    base = 10
    n_ports = 4
    PayloadSizes <- Short
    QueueBound = 1
CHECK_DEADLOCK FALSE
INVARIANT PortsRunOutFairly
