------------------------------- MODULE MCTcp -------------------------------
(***************************************************************************)
(* The endpoint against an arbitrary network: every segment of a small set *)
(* can arrive at any time, as often as it likes.                           *)
(***************************************************************************)
EXTENDS Tcp

CONSTANTS s1, s2, p1, h1, r1, r2, b1, none, dispatcher

MCSockets == {s1, s2}
MCPorts == {p1}
MCHosts == {h1}
MCRemotePorts == {r1, r2}
MCBytes == {b1}
MCSeqSpace == 4

MCSeg(src, seq, syn, fin, ack, payload) ==
    [src_port |-> src, dest_port |-> p1, ip |-> h1, seq_num |-> seq,
     ack_num |-> 0, syn |-> syn, fin |-> fin, ack |-> ack, payload |-> payload]

MCPackets ==
    {MCSeg(src, 0, TRUE, FALSE, FALSE, <<>>) : src \in MCRemotePorts}
    \cup {MCSeg(r1, n, FALSE, FALSE, TRUE, d) : n \in 1 .. 3, d \in {<<>>, <<b1>>}}
    \cup {MCSeg(r1, n, FALSE, TRUE, TRUE, <<>>) : n \in 1 .. 2}
    \cup {MCSeg(r2, 1, FALSE, f, TRUE, <<>>) : f \in BOOLEAN}

MCResponses == {<<b1>>}
=============================================================================
