------------------------------ MODULE MCTcpLink ------------------------------
(***************************************************************************)
(* Instances of TcpLink: what the peers of each run send, and from where.  *)
(***************************************************************************)
EXTENDS TcpLink

CONSTANTS s1, s2, c1, c2, p80, h1, h2, r1, r2, ok, nopacket, dispatcher

MCSeqSpace == 16
OnePeer == {c1}
TwoPeers == {c1, c2}
MCPorts == {p80}
MCHosts == {h1, h2}
MCRemotePorts == {r1, r2}
MCSockets2 == {s1, s2}

\* Each peer has a host and a port of its own.
Apart == [p \in Peers |-> IF p = c1 THEN [ip |-> h1, port |-> r1]
                                    ELSE [ip |-> h2, port |-> r2]]

\* The first peer's numbers wrap around during the connection, or do not.
Wrapping == [p \in Peers |-> IF p = c1 THEN 13 ELSE 2]
NotWrapping == [p \in Peers |-> 2]

MCPart(n) == [len |-> n, last |-> FALSE]
MCReq(n) == [len |-> n, last |-> TRUE]

\* A request of the first peer in two segments, the second peer sends nothing;
\* two requests of a byte each; two of two.
RequestInParts == [p \in Peers |-> IF p = c1 THEN <<MCPart(1), MCReq(2)>> ELSE <<>>]
ShortRequests == [p \in Peers |-> <<MCReq(1), MCReq(1)>>]
LongSegments == [p \in Peers |-> <<MCReq(2), MCReq(2)>>]

MCBytes == {<<p, n>> : p \in Peers, n \in 1 .. 4} \cup {<<ok, 1>>}
MCResponses == {<<<<ok, 1>>>>}
MCResponses2 == {<<<<ok, 1>>, <<ok, 1>>>>}

MCPayloads == {<<>>} \cup UNION {{Stream(p, StreamLength(p, k - 1), StreamLength(p, k)) :
                                 k \in DOMAIN Script[p]} : p \in Peers}
\* Every segment a peer can build.
MCPackets ==
    [src_port : {PeerAddress[p].port : p \in Peers}, dest_port : MCPorts,
     ip : {PeerAddress[p].ip : p \in Peers}, seq_num : SeqNum, ack_num : SeqNum,
     syn : BOOLEAN, fin : BOOLEAN, ack : BOOLEAN, payload : MCPayloads]
=============================================================================
