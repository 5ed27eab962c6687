------------------------------- MODULE TcpLink -------------------------------
(***************************************************************************)
(* The endpoint of Tcp with remote peers and the network between them.     *)
(*                                                                         *)
(* A peer is an ordinary TCP client that keeps to the protocol: it opens a *)
(* connection, sends the segments of its script, acknowledges what it      *)
(* receives in order, and closes or lets the server close.  What it sends  *)
(* and when is steered by the constants: a polite peer has one request     *)
(* outstanding and acknowledges the answer before it goes on.  The network *)
(* keeps the order of each direction; it may lose segments and the peer    *)
(* may retransmit, within budgets.                                         *)
(*                                                                         *)
(* Peers and network are not code of the repository; the endpoint's part   *)
(* of every action is an action of Tcp.                                    *)
(***************************************************************************)
EXTENDS Tcp

CONSTANTS
    Peers,
    PeerAddress,   \* [Peers -> [ip, port]]
    ServerPort,
    Isn,           \* [Peers -> SeqNum], initial sequence numbers
    Script,        \* [Peers -> Seq([len, last])]: the segments a peer sends,
                   \* and whether each is the last of its request
    Polite,        \* wait for the answer to a request before the next, or FIN
    LossBudget,    \* bound: segments the network loses
    RetryBudget    \* bound: segments the peers retransmit

ASSUME PeersAssumption ==
    /\ PeerAddress \in [Peers -> [ip : Hosts, port : RemotePorts]]
    /\ ServerPort \in Ports
    /\ Isn \in [Peers -> SeqNum]
    /\ Polite \in BOOLEAN
    /\ LossBudget \in Nat /\ RetryBudget \in Nat
ASSUME ScriptAssumption ==
    Script \in [Peers -> Seq([len : Nat \ {0}, last : BOOLEAN])]

VARIABLES
    peer,     \* per peer: its state and the variables of its control block
    c2s,      \* segments on their way to the endpoint, per peer
    s2c,      \* segments on their way to the peer
    got,      \* history: the bytes put in the receive queue of each socket
    losses, retries

net == <<peer, c2s, s2c, losses, retries>>
linkVars == <<vars, net, got>>

PeerStates == {"closed", "syn_sent", "established", "fin_sent", "last_ack", "done"}

LinkInit ==
    /\ Init
    /\ peer = [p \in Peers |->
                  [st |-> "closed", snd_nxt |-> Isn[p], rcv_nxt |-> 0,
                   at |-> 0, answers |-> 0, unacked |-> <<>>, acked |-> 0]]
    /\ c2s = [p \in Peers |-> <<>>]
    /\ s2c = [p \in Peers |-> <<>>]
    /\ got = [s \in Sockets |-> <<>>]
    /\ losses = 0 /\ retries = 0

(***************************************************************************)
(* The bytes of a peer's stream are <<p, 1>>, <<p, 2>>, ...                *)
(***************************************************************************)
StreamLength(p, k) ==
    Cardinality(UNION {{i} \X (1 .. Script[p][i].len) : i \in 1 .. k})

Stream(p, from, to) == [i \in 1 .. to - from |-> <<p, from + i>>]

\* Requests that the first k segments of the script complete.
Requests(p, k) == Cardinality({i \in 1 .. k : Script[p][i].last})

\* The worker answers a payload that ends a request and ignores others.
MutantAnswersAny(payload) == TRUE
EndsRequest(payload) ==
    LET p == Last(payload)[1]
        n == Last(payload)[2]
    IN  \E k \in DOMAIN Script[p] : Script[p][k].last /\ n = StreamLength(p, k)

(***************************************************************************)
(* Peers.                                                                  *)
(***************************************************************************)
PeerSeg(p, seq, ackNum, syn, fin, ack, payload) ==
    [src_port |-> PeerAddress[p].port, dest_port |-> ServerPort,
     ip |-> PeerAddress[p].ip, seq_num |-> seq, ack_num |-> ackNum,
     syn |-> syn, fin |-> fin, ack |-> ack, payload |-> payload]

Put(p, seg) == c2s' = [c2s EXCEPT ![p] = Append(@, seg)]

\* A segment that takes n sequence numbers is kept until it is acknowledged.
PutKept(p, seg, n, changed) ==
    /\ Put(p, seg)
    /\ peer' = [peer EXCEPT ![p] =
                   [changed EXCEPT !.snd_nxt = Plus(@, n),
                                   !.unacked = Append(@, seg)]]

Open(p) ==
    /\ peer[p].st = "closed"
    /\ PutKept(p, PeerSeg(p, Isn[p], 0, TRUE, FALSE, FALSE, <<>>), 1,
               [peer[p] EXCEPT !.st = "syn_sent"])
    /\ UNCHANGED <<s2c, losses, retries>>

\* The socket that holds a connection of p, if any.
Holds(s, p) ==
    /\ Live(s) /\ state_[s] # "want_syn"
    /\ PeerAddress[p] = [ip |-> ip_[s], port |-> out_port_[s]]

\* The SYN was dropped, no socket being in want_syn: the peer repeats it.  Its
\* timeout is ideal, it never fires while an answer may still come.
Reopen(p) ==
    /\ peer[p].st = "syn_sent"
    /\ c2s[p] = <<>> /\ s2c[p] = <<>>
    /\ \A s \in Sockets : ~Holds(s, p)
    /\ Put(p, Head(peer[p].unacked))
    /\ UNCHANGED <<peer, s2c, losses, retries>>

\* Everything sent is acknowledged, and answered if it ended a request.
Settled(p) ==
    /\ peer[p].unacked = <<>>
    /\ peer[p].answers = Requests(p, peer[p].at)

SendRequest(p) ==
    LET k == peer[p].at + 1
        from == StreamLength(p, k - 1)
        seg == Script[p][k]
    IN  /\ peer[p].st = "established"
        /\ k \in DOMAIN Script[p]
        /\ Polite /\ k > 1 /\ Script[p][k - 1].last => Settled(p)
        /\ LossBudget > 0 => peer[p].unacked = <<>>
        /\ PutKept(p, PeerSeg(p, peer[p].snd_nxt, peer[p].rcv_nxt, FALSE, FALSE,
                              TRUE, Stream(p, from, from + seg.len)),
                   seg.len, [peer[p] EXCEPT !.at = k])
        /\ UNCHANGED <<s2c, losses, retries>>

PeerClose(p) ==
    /\ peer[p].st = "established"
    /\ Polite => Settled(p)
    /\ PutKept(p, PeerSeg(p, peer[p].snd_nxt, peer[p].rcv_nxt, FALSE, TRUE, TRUE, <<>>),
               1, [peer[p] EXCEPT !.st = "fin_sent"])
    /\ UNCHANGED <<s2c, losses, retries>>

Retransmit(p) ==
    /\ peer[p].st \in {"established", "fin_sent", "last_ack"}
    /\ retries < RetryBudget
    /\ peer[p].unacked # <<>>
    /\ Put(p, Head(peer[p].unacked))
    /\ retries' = retries + 1
    /\ UNCHANGED <<peer, s2c, losses>>

\* Sequence numbers a segment takes.
Span(seg) == Len(seg.payload) + (IF seg.syn \/ seg.fin THEN 1 ELSE 0)

\* What an acknowledgement leaves: it covers a segment when it is just past it,
\* or past a later one.
StillUnacked(unacked, ackNum) ==
    LET ends == {i \in DOMAIN unacked :
                     Plus(unacked[i].seq_num, Span(unacked[i])) = ackNum}
    IN  IF ends = {} THEN unacked
        ELSE SubSeq(unacked, Max(ends) + 1, Len(unacked))

AckedBytes(old, new) ==
    FoldLeft(LAMBDA n, seg : n + Len(seg.payload), 0,
             SubSeq(old, 1, Len(old) - Len(new)))

\* The endpoint's segment m arrives at the peer.
PeerReceive(p) ==
    LET m == Head(s2c[p])
        left == StillUnacked(peer[p].unacked, m.ack_num)
        acked == [peer[p] EXCEPT !.unacked = left,
                                 !.acked = @ + AckedBytes(peer[p].unacked, left)]
        inOrder == peer[p].st = "syn_sent" \/ m.seq_num = peer[p].rcv_nxt
        took == [acked EXCEPT
                    !.rcv_nxt = IF inOrder THEN Plus(m.seq_num, Span(m)) ELSE @,
                    !.answers = IF inOrder /\ m.payload # <<>> THEN @ + 1 ELSE @]
        ackOf(next) == PeerSeg(p, next.snd_nxt, next.rcv_nxt, FALSE, FALSE, TRUE, <<>>)
    IN  /\ s2c[p] # <<>>
        /\ s2c' = [s2c EXCEPT ![p] = Tail(@)]
        /\ \/ \* the SYN-ACK
              /\ peer[p].st = "syn_sent" /\ m.syn
              /\ peer' = [peer EXCEPT ![p] = [took EXCEPT !.st = "established"]]
              /\ Put(p, ackOf(took))
           \/ \* data, or an acknowledgement
              /\ peer[p].st \in {"established", "fin_sent", "last_ack"}
              /\ ~m.fin \/ ~inOrder
              /\ peer' = [peer EXCEPT ![p] =
                             [took EXCEPT !.st = IF @ = "last_ack" /\ left = <<>>
                                                 THEN "done" ELSE @]]
              /\ IF Span(m) > 0 THEN Put(p, ackOf(took)) ELSE UNCHANGED c2s
           \/ \* the endpoint closes first: acknowledge, then send the FIN
              /\ peer[p].st = "established" /\ m.fin /\ inOrder
              /\ PutKept(p, PeerSeg(p, took.snd_nxt, took.rcv_nxt, FALSE, TRUE, TRUE, <<>>),
                         1, [took EXCEPT !.st = "last_ack"])
           \/ \* the endpoint's FIN after the peer's
              /\ peer[p].st = "fin_sent" /\ m.fin /\ inOrder
              /\ peer' = [peer EXCEPT ![p] = [took EXCEPT !.st = "done"]]
              /\ Put(p, ackOf(took))
           \/ peer[p].st = "done" /\ UNCHANGED <<peer, c2s>>
        /\ UNCHANGED <<losses, retries>>

PeerStep(p) ==
    /\ failed = "no"
    /\ \/ Open(p) \/ Reopen(p) \/ SendRequest(p) \/ PeerClose(p)
       \/ Retransmit(p) \/ PeerReceive(p)
    /\ UNCHANGED <<vars, got>>

(***************************************************************************)
(* The network.                                                            *)
(***************************************************************************)
\* Only segments of an open connection are lost: the endpoint never repeats a
\* SYN-ACK, and asserts on a repeated SYN.
Losable(seg) == ~seg.syn

Lose(p) ==
    /\ failed = "no"
    /\ losses < LossBudget
    /\ \/ /\ c2s[p] # <<>> /\ Losable(Head(c2s[p]))
          /\ c2s' = [c2s EXCEPT ![p] = Tail(@)]
          /\ UNCHANGED s2c
       \/ /\ s2c[p] # <<>> /\ Losable(Head(s2c[p]))
          /\ s2c' = [s2c EXCEPT ![p] = Tail(@)]
          /\ UNCHANGED c2s
    /\ losses' = losses + 1
    /\ UNCHANGED <<vars, peer, retries, got>>

-----------------------------------------------------------------------------
(***************************************************************************)
(* The endpoint's steps.                                                   *)
(***************************************************************************)
Record ==
    got' = [s \in Sockets |->
               IF Len(recv_queue_'[s]) > Len(recv_queue_[s])
               THEN got[s] \o Last(recv_queue_'[s])
               ELSE got[s]]

Deliver(p) ==
    /\ failed = "no"
    /\ c2s[p] # <<>>
    /\ Head(c2s[p]) \in Packets
    /\ PushPacket(Head(c2s[p]))
    /\ c2s' = [c2s EXCEPT ![p] = Tail(@)]
    /\ UNCHANGED <<peer, s2c, losses, retries, got>>

\* A frame leaves the NIC for the peer it is addressed to.
ServerTx ==
    /\ failed = "no"
    /\ TxDone
    /\ LET seg == Head(txq).seg
       IN  s2c' = [p \in Peers |->
                      IF PeerAddress[p] = [ip |-> seg.ip, port |-> seg.dest_port]
                      THEN Append(s2c[p], seg) ELSE s2c[p]]
    /\ UNCHANGED <<peer, c2s, losses, retries, got>>

Reply == failed = "no" /\ AfterReply /\ Record /\ UNCHANGED net

LinkWorker(s) ==
    /\ failed = "no"
    /\ \/ Accept(s) \/ RecvWait(s) \/ Cancelled(s) \/ SendDone(s)
       \/ recv_queue_[s] # <<>> /\ ~EndsRequest(Head(recv_queue_[s])) /\ Ignore(s)
       \/ recv_queue_[s] # <<>> /\ EndsRequest(Head(recv_queue_[s])) /\ Answer(s)
       \/ Close(s) \/ FinSent(s) \/ Closed(s)
    /\ UNCHANGED <<net, got>>

LinkListen ==
    /\ failed = "no"
    /\ \E s \in Sockets : Listen(s, ServerPort)
    /\ UNCHANGED <<net, got>>

LinkNext ==
    \/ \E p \in Peers : PeerStep(p) \/ Lose(p) \/ Deliver(p)
    \/ ServerTx \/ Reply \/ LinkListen
    \/ \E s \in Sockets : LinkWorker(s)

LinkSpec == LinkInit /\ [][LinkNext]_linkVars

(***************************************************************************)
(* Fairness.  The endpoint goes on while it can: the NIC transmits what it *)
(* is given and runnable coroutines run (the run queue is drained between  *)
(* polls), in any order.  The network delivers what is sent to each peer   *)
(* and from it, and a peer keeps to its script, reads and finally closes.  *)
(* A worker at its loop head may prefer closing or not; the network need   *)
(* not lose anything.                                                      *)
(***************************************************************************)
PeerProceeds(p) ==
    /\ failed = "no"
    /\ \/ Open(p) \/ Reopen(p) \/ SendRequest(p) \/ PeerClose(p)
       \/ PeerReceive(p)
    /\ UNCHANGED <<vars, got>>

\* The subscripts are what each step changes in any case.
Fairness ==
    /\ WF_vars(ServerTx \/ Reply \/ LinkListen \/ \E s \in Sockets : LinkWorker(s))
    /\ \A p \in Peers :
           WF_c2s(Deliver(p)) /\ WF_<<c2s, s2c>>(PeerProceeds(p))

FairLinkSpec == LinkSpec /\ Fairness

-----------------------------------------------------------------------------
\* The peer a socket is connected to.
PeersOf(s) ==
    {p \in Peers : PeerAddress[p] = [ip |-> ip_[s], port |-> out_port_[s]]}

Accepted(s) == own[s] \notin {"unborn", "listen"}

\* What a socket hands to its worker is the peer's byte stream from the start,
\* without a gap, a repetition or a byte of another peer.
StreamInOrder ==
    \A s \in Sockets : Accepted(s) =>
        \A p \in PeersOf(s) : got[s] = Stream(p, 0, Len(got[s]))

\* A byte that the endpoint has acknowledged is in the receive queue, or in the
\* hands of the dispatcher, which enqueues it once the acknowledgement is sent:
\* no acknowledgement covers a byte the application will not see, unless the
\* owner has closed the socket.
AckedIsDelivered ==
    \A s \in Sockets : Accepted(s) /\ ~cancel_closed_[s] =>
        \A p \in PeersOf(s) :
            peer[p].acked <= Len(got[s])
                + (IF disp.sock = s /\ disp.pc = "data_ack"
                   THEN Len(disp.pkt.payload) ELSE 0)

\* On a network that keeps order and loses nothing, whatever the endpoint sends
\* is numbered so that the peer can take it: data and FIN follow without gap.
PeerTakesAll ==
    \A p \in Peers :
        s2c[p] # <<>> /\ Span(Head(s2c[p])) > 0 /\ peer[p].st \notin {"syn_sent", "done"}
            => Head(s2c[p]).seq_num = peer[p].rcv_nxt

\* Every segment a connected socket takes carries an ACK: assert(tcp.ack),
\* tcp.cpp:106.
AssertAckHolds == failed # "assert_ack"

\* A worker that is still connected() may send:
\* assert(state_ == socket_state::connected), tcp.cpp:176.
AssertConnectedHolds == failed # "assert_connected"

\* Neither assertion of the endpoint fails (process_packet, send).
AssertsHold == AssertAckHolds /\ AssertConnectedHolds

\* Every connection ends: all peers reach the end of their close
\* (process_packet, close).
EveryPeerFinishes == <>(\A p \in Peers : peer[p].st = "done")

\* Every call of close() returns, and the socket is freed: again and again none
\* is under way (close, process_packet).
EveryCloseReturns ==
    []<>(\A s \in Sockets : own[s] \notin {"close_fin", "close_wait", "close_woken"})

\* A request that has been sent in full is answered, unless the connection is
\* being closed: again and again none is left (recv, send, connection_worker).
EveryRequestAnswered ==
    []<>(\A p \in Peers :
             \/ peer[p].answers = Requests(p, peer[p].at)
             \/ peer[p].st \in {"fin_sent", "last_ack", "done"})
=============================================================================
