------------------------------ MODULE MCPackets ------------------------------
\* Packets with two hosts and payloads of even and odd size.
EXTENDS Packets

MCIp == <<49320, 325>>                  \* 192.168.1.69
MCMac == <<22165, 30620, 18618>>        \* 56:95:77:9C:48:BA
MCPeers == {[ip |-> <<49320, 258>>, mac |-> <<2, 0, 1>>],
            [ip |-> <<65535, 65279>>, mac |-> <<255, 65535, 7>>]}
MCPayloads == {<<>>, <<255>>, <<1, 2>>, <<255, 255, 255>>, <<0, 0, 7, 128, 9>>}
MCPorts == {80, 65535}
MCNumbers == {<<0, 1>>, <<65535, 65535>>}
MCPaddings == {4, 17}
=============================================================================
