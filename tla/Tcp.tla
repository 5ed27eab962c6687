--------------------------------- MODULE Tcp ---------------------------------
(***************************************************************************)
(* The TCP endpoint of tart: net::tcp_processor and its tcp_socket         *)
(* (src/net/ipv4/tcp.cpp, include/tart/net/ipv4/tcp.hpp), driven by        *)
(*                                                                         *)
(*   - the dispatcher, the one coroutine that takes frames from the NIC    *)
(*     and awaits push_packet on each (include/tart/net/dispatch.hpp);     *)
(*   - per port, an accept loop `while (true) worker(co_await listen(p))`, *)
(*     and per accepted socket a worker coroutine that receives, answers   *)
(*     and closes (src/service.hpp, connection_worker).                    *)
(*                                                                         *)
(* Coroutines are cooperative: one runs until it awaits something that is  *)
(* not ready.  Every action below is one such run, or, while a worker is   *)
(* at its loop head ("loop"), a piece of one that only that worker can     *)
(* continue.  Raising an event makes the waiter runnable; it runs later    *)
(* (async::run_queue), in any order with the other runnable ones.          *)
(*                                                                         *)
(* The module is open: any segment of Packets can arrive at any time.      *)
(* TcpLink closes it with remote peers and a network.                      *)
(***************************************************************************)
EXTENDS Naturals, Sequences, FiniteSets, SequencesExt

CONSTANTS
    Sockets,      \* identities of tcp_socket objects, one per `new`
    Dispatcher,   \* the dispatcher coroutine; also "no socket"
    Ports,        \* local ports the program listens on
    Hosts,        \* remote IPv4 addresses
    RemotePorts,  \* remote ports
    Bytes,        \* what a payload is made of
    Packets,      \* the segments that can arrive
    NoPacket,     \* the dispatcher holds none
    Responses,    \* the payloads the worker may answer with
    SeqSpace,       \* sequence numbers are modulo this (2^32 in the code)
    QueueBound    \* bound: no segment arrives while a receive queue is this long

SeqNum == 0 .. SeqSpace - 1

Segment == [src_port : RemotePorts \cup Ports, dest_port : RemotePorts \cup Ports,
            ip : Hosts, seq_num : SeqNum, ack_num : SeqNum,
            syn : BOOLEAN, fin : BOOLEAN, ack : BOOLEAN, payload : Seq(Bytes)]

ASSUME DispatcherAssumption == Dispatcher \notin Sockets
ASSUME AddressAssumption == Ports # {} /\ RemotePorts # {} /\ Hosts # {}
ASSUME PacketsAssumption ==
    /\ Packets \subseteq Segment
    /\ \A p \in Packets : p.src_port \in RemotePorts /\ p.dest_port \in Ports
    /\ NoPacket \notin Packets
ASSUME ResponsesAssumption == Responses \subseteq Seq(Bytes)
ASSUME SeqSpaceAssumption == SeqSpace \in Nat \ {0}
ASSUME QueueBoundAssumption == QueueBound \in Nat

VARIABLES
    sockets_,     \* tcp_processor::sockets_, in list order
    in_port_, out_port_, ip_,          \* the addresses of a socket
    state_, next_state_,               \* its state and the one an ACK leads to
    in_seq_, out_seq_, next_out_seq_,  \* its sequence numbers
    recv_queue_,  \* payloads not yet received by the worker
    cancel_closed_,                    \* the cancellation event was raised
    own,          \* where the coroutine that owns the socket stands
    disp,         \* where the dispatcher stands: pc, socket, segment
    txq,          \* frames handed to the NIC, and the coroutine awaiting each
    failed        \* the assert() that stopped the program, or "no"

address == <<in_port_, out_port_, ip_>>
control == <<state_, next_state_>>
numbers == <<in_seq_, out_seq_, next_out_seq_>>
vars == <<sockets_, address, control, numbers, recv_queue_, cancel_closed_,
          own, disp, txq, failed>>

States == {"none", "want_syn", "want_ack", "connected", "want_fin_ack", "closed"}

(***************************************************************************)
(* unborn     not allocated yet        listen     in listen(), at notify_  *)
(* notified   notify_ was raised       loop       running                  *)
(* recv       awaiting recv_queue_     send       awaiting the NIC in send *)
(* close_fin  awaiting the NIC in close()                                  *)
(* close_wait awaiting closed_         close_woken  closed_ was raised     *)
(* deleted    after `delete this`                                          *)
(***************************************************************************)
OwnerPcs == {"unborn", "listen", "notified", "loop", "recv", "send",
             "close_fin", "close_wait", "close_woken", "deleted"}
DispatcherPcs == {"syn_ack", "fin_ack", "data_ack", "last_ack"}

Idle == [pc |-> "idle", sock |-> Dispatcher, pkt |-> NoPacket]
Awaiting(pc, s, pkt) == [pc |-> pc, sock |-> s, pkt |-> pkt]

\* Every variable has its type (tcp_processor, tcp_socket).
TypeOK ==
    /\ sockets_ \in Seq(Sockets)
    /\ in_port_ \in [Sockets -> Ports]
    /\ out_port_ \in [Sockets -> RemotePorts]
    /\ ip_ \in [Sockets -> Hosts]
    /\ state_ \in [Sockets -> States]
    /\ next_state_ \in [Sockets -> {"none", "connected", "closed"}]
    /\ in_seq_ \in [Sockets -> SeqNum]
    /\ out_seq_ \in [Sockets -> SeqNum]
    /\ next_out_seq_ \in [Sockets -> SeqNum]
    /\ recv_queue_ \in [Sockets -> Seq(Seq(Bytes))]
    /\ cancel_closed_ \in [Sockets -> BOOLEAN]
    /\ own \in [Sockets -> OwnerPcs]
    /\ disp \in {Idle} \cup [pc : DispatcherPcs, sock : Sockets, pkt : Packets]
    /\ txq \in Seq([by : Sockets \cup {Dispatcher}, seg : Segment])
    /\ failed \in {"no", "assert_ack", "assert_connected"}

Live(s) == own[s] \notin {"unborn", "deleted"}

\* No worker is in the middle of a run, so another coroutine may start one.
Yielded == \A s \in Sockets : own[s] # "loop"

MutantNoWrap(a, n) == a + n
Plus(a, n) == (a + n) % SeqSpace

Init ==
    /\ sockets_ = <<>>
    /\ in_port_ \in [Sockets -> {CHOOSE p \in Ports : TRUE}]
    /\ out_port_ \in [Sockets -> {CHOOSE p \in RemotePorts : TRUE}]
    /\ ip_ \in [Sockets -> {CHOOSE h \in Hosts : TRUE}]
    /\ state_ = [s \in Sockets |-> "none"]
    /\ next_state_ = [s \in Sockets |-> "none"]
    /\ in_seq_ = [s \in Sockets |-> 0]
    /\ out_seq_ = [s \in Sockets |-> 0]
    /\ next_out_seq_ = [s \in Sockets |-> 0]
    /\ recv_queue_ = [s \in Sockets |-> <<>>]
    /\ cancel_closed_ = [s \in Sockets |-> FALSE]
    /\ own = [s \in Sockets |-> "unborn"]
    /\ disp = Idle
    /\ txq = <<>>
    /\ failed = "no"

(***************************************************************************)
(* Frames to the NIC.  A frame is built when the send is called, with the  *)
(* socket's values at that point, and the caller is suspended until the    *)
(* NIC has transmitted it (TxDone), which Sent tells its resumption.       *)
(***************************************************************************)
Frame(s, seq, syn, fin, payload) ==
    [src_port |-> in_port_[s], dest_port |-> out_port_'[s], ip |-> ip_'[s],
     seq_num |-> seq, ack_num |-> in_seq_'[s],
     syn |-> syn, fin |-> fin, ack |-> TRUE, payload |-> payload]

\* send_syn_ack(), send_ack() and send_fin_ack().  All read the socket's values
\* after the assignments of their caller.
SynAck(s) == Frame(s, out_seq_'[s], TRUE, FALSE, <<>>)
Ack(s) == Frame(s, out_seq_'[s], FALSE, FALSE, <<>>)
MutantFinAckIsAck(s) == Ack(s)
FinAck(s) == Frame(s, out_seq_'[s], FALSE, TRUE, <<>>)

Transmit(task, seg) == txq' = Append(txq, [by |-> task, seg |-> seg])

Sent(task) == \A i \in DOMAIN txq : txq[i].by # task

TxDone ==
    /\ txq # <<>>
    /\ txq' = Tail(txq)
    /\ UNCHANGED <<sockets_, address, control, numbers, recv_queue_,
                   cancel_closed_, own, disp, failed>>

\* A recurring event resumes the coroutine that awaits it; with none it is lost.
Raise(s, waiting, woken) ==
    own' = [own EXCEPT ![s] = IF @ = waiting THEN woken ELSE @]

(***************************************************************************)
(* tcp_processor::push_packet and tcp_socket::process_packet.              *)
(***************************************************************************)
Accepts(s, pkt) ==
    /\ pkt.dest_port = in_port_[s]
    /\ state_[s] = "want_syn" \/ out_port_[s] = pkt.src_port

Candidates(pkt) == {i \in DOMAIN sockets_ : Accepts(sockets_[i], pkt)}

Return == disp' = Idle

\* The ACK that completes a handshake, acknowledges data, or ends the connection.
IsAwaitedAck(s, pkt) ==
    /\ state_[s] = "want_ack"
    /\ pkt.ack /\ ~pkt.syn
    /\ pkt.seq_num = in_seq_[s]

MutantKeepsOutSeq(s) == out_seq_' = out_seq_
AdvanceOutSeq(s) == out_seq_' = [out_seq_ EXCEPT ![s] = next_out_seq_[s]]

\* notify_.raise() or closed_.raise(); cancel_closed_.cancel()
MutantNoNotify(s) ==
    IF next_state_[s] = "closed" THEN Raise(s, "close_wait", "close_woken")
                                 ELSE own' = own
MutantNoClosed(s) ==
    IF next_state_[s] = "connected" THEN Raise(s, "listen", "notified")
                                    ELSE own' = own
RaiseAfterAck(s) ==
    CASE next_state_[s] = "connected" -> Raise(s, "listen", "notified")
      [] next_state_[s] = "closed" -> Raise(s, "close_wait", "close_woken")
      [] OTHER -> own' = own

TakeAck(s) ==
    /\ AdvanceOutSeq(s)
    /\ state_' = [state_ EXCEPT ![s] = next_state_[s]]
    /\ next_state_' = [next_state_ EXCEPT ![s] = "none"]
    /\ RaiseAfterAck(s)
    /\ cancel_closed_' =
           [cancel_closed_ EXCEPT ![s] = @ \/ next_state_[s] = "closed"]
    /\ Return
    /\ UNCHANGED <<sockets_, address, in_seq_, next_out_seq_, txq, failed>>

TakeSyn(s, pkt) ==
    /\ in_seq_' = [in_seq_ EXCEPT ![s] = Plus(pkt.seq_num, 1)]
    /\ ip_' = [ip_ EXCEPT ![s] = pkt.ip]
    /\ out_port_' = [out_port_ EXCEPT ![s] = pkt.src_port]
    /\ next_out_seq_' = [next_out_seq_ EXCEPT ![s] = Plus(out_seq_[s], 1)]
    /\ next_state_' = [next_state_ EXCEPT ![s] = "connected"]
    /\ state_' = [state_ EXCEPT ![s] = "want_ack"]
    /\ UNCHANGED <<sockets_, in_port_, out_seq_, cancel_closed_, own, failed>>
    /\ Transmit(Dispatcher, SynAck(s))
    /\ disp' = Awaiting("syn_ack", s, pkt)

\* The last branch, the only one left after those of a connected socket.
IsFinAck(s, pkt) == state_[s] = "want_fin_ack" /\ pkt.fin /\ pkt.ack

MutantClosedBeforeAck(s, pkt) ==
    /\ in_seq_' = [in_seq_ EXCEPT ![s] = Plus(pkt.seq_num, 1)]
    /\ out_seq_' = [out_seq_ EXCEPT ![s] = Plus(@, 1)]
    /\ state_' = [state_ EXCEPT ![s] = "closed"]
    /\ Raise(s, "close_wait", "close_woken")
    /\ UNCHANGED <<sockets_, address, next_state_, next_out_seq_, cancel_closed_,
                   failed>>
    /\ Transmit(Dispatcher, Ack(s))
    /\ disp' = Awaiting("last_ack", s, pkt)

TakeFinAck(s, pkt) ==
    /\ in_seq_' = [in_seq_ EXCEPT ![s] = Plus(pkt.seq_num, 1)]
    /\ out_seq_' = [out_seq_ EXCEPT ![s] = Plus(@, 1)]
    /\ UNCHANGED <<sockets_, address, control, next_out_seq_, cancel_closed_,
                   own, failed>>
    /\ Transmit(Dispatcher, Ack(s))
    /\ disp' = Awaiting("last_ack", s, pkt)

LastBranch(s, pkt) ==
    \/ IsFinAck(s, pkt) /\ TakeFinAck(s, pkt)
    \/ /\ ~IsFinAck(s, pkt)
       /\ Return
       /\ UNCHANGED <<sockets_, address, control, numbers, cancel_closed_, own,
                      txq, failed>>

\* A bug: the socket does not remember that it is closed after its FIN.
MutantForgetsNext(s) == UNCHANGED next_state_
AfterFinClosed(s) == next_state_' = [next_state_ EXCEPT ![s] = "closed"]

TakeFin(s, pkt) ==
    /\ in_seq_' = [in_seq_ EXCEPT ![s] = Plus(pkt.seq_num, 1)]
    /\ AfterFinClosed(s)
    /\ state_' = [state_ EXCEPT ![s] = "want_ack"]
    /\ UNCHANGED <<sockets_, address, out_seq_, next_out_seq_, cancel_closed_,
                   own, failed>>
    /\ Transmit(Dispatcher, FinAck(s))
    /\ disp' = Awaiting("fin_ack", s, pkt)

\* What the receive branch lets in: anything from in_seq_ on, compared as
\* unsigned numbers, and the byte just before it.
MutantTakesAnything(s, pkt) == TRUE
InOrder(s, pkt) ==
    \/ in_seq_[s] <= pkt.seq_num
    \/ Plus(in_seq_[s], SeqSpace - 1) = pkt.seq_num

TakeData(s, pkt) ==
    /\ in_seq_' = [in_seq_ EXCEPT ![s] = Plus(pkt.seq_num, Len(pkt.payload))]
    /\ UNCHANGED <<sockets_, address, control, out_seq_, next_out_seq_,
                   cancel_closed_, own, failed>>
    /\ Transmit(Dispatcher, Ack(s))
    /\ disp' = Awaiting("data_ack", s, pkt)

AssertAckFails ==
    /\ failed' = "assert_ack"
    /\ UNCHANGED <<sockets_, address, control, numbers, cancel_closed_, own,
                   disp, txq>>

\* The branches of a socket whose handshake is over, in the code's order.
LaterBranches(s, pkt) ==
    \/ /\ state_[s] = "connected"
       /\ \/ ~pkt.ack /\ AssertAckFails
          \/ pkt.ack /\ pkt.fin /\ TakeFin(s, pkt)
          \/ pkt.ack /\ ~pkt.fin /\ InOrder(s, pkt) /\ TakeData(s, pkt)
          \/ pkt.ack /\ ~pkt.fin /\ ~InOrder(s, pkt) /\ LastBranch(s, pkt)
    \/ state_[s] # "connected" /\ LastBranch(s, pkt)

IsSyn(s, pkt) == state_[s] = "want_syn" /\ pkt.syn /\ ~pkt.ack

ProcessPacket(s, pkt) ==
    \/ IsAwaitedAck(s, pkt) /\ TakeAck(s)
    \/ IsSyn(s, pkt) /\ TakeSyn(s, pkt)
    \/ ~IsAwaitedAck(s, pkt) /\ ~IsSyn(s, pkt) /\ LaterBranches(s, pkt)

\* The first socket of the list that accepts the segment gets it; a segment
\* that none accepts is dropped.
PushPacket(pkt) ==
    /\ Yielded
    /\ disp.pc = "idle"
    /\ \A s \in Sockets : Len(recv_queue_[s]) <= QueueBound
    /\ \/ \E i \in Candidates(pkt) :
              /\ \A j \in Candidates(pkt) : i <= j
              /\ ProcessPacket(sockets_[i], pkt)
              /\ UNCHANGED recv_queue_
       \/ Candidates(pkt) = {} /\ UNCHANGED vars

(***************************************************************************)
(* The rest of process_packet, once the NIC has sent the reply.  What      *)
(* follows an await tests state_ again, so a branch may lead into a later  *)
(* one; OneBranchPerPacket states that it does not.                        *)
(***************************************************************************)
Resumed(pc) ==
    /\ Yielded
    /\ disp.pc = pc
    /\ Sent(Dispatcher)

AfterSynAck ==
    /\ Resumed("syn_ack")
    /\ LaterBranches(disp.sock, disp.pkt)
    /\ UNCHANGED recv_queue_

AfterFinAck ==
    /\ Resumed("fin_ack")
    /\ LastBranch(disp.sock, disp.pkt)
    /\ UNCHANGED recv_queue_

MutantDropsOneByte(s, payload) ==
    [recv_queue_ EXCEPT ![s] = IF Len(payload) > 1 THEN Append(@, payload) ELSE @]
MutantDropsUnawaited(s, payload) ==
    [recv_queue_ EXCEPT ![s] =
        IF payload # <<>> /\ own[s] = "recv" THEN Append(@, payload) ELSE @]
Emplaced(s, payload) ==
    [recv_queue_ EXCEPT ![s] = IF payload # <<>> THEN Append(@, payload) ELSE @]

AfterDataAck ==
    /\ Resumed("data_ack")
    /\ recv_queue_' = Emplaced(disp.sock, disp.pkt.payload)
    /\ LastBranch(disp.sock, disp.pkt)

AfterLastAck ==
    /\ Resumed("last_ack")
    /\ state_' = [state_ EXCEPT ![disp.sock] = "closed"]
    /\ Raise(disp.sock, "close_wait", "close_woken")
    /\ Return
    /\ UNCHANGED <<sockets_, address, next_state_, numbers, recv_queue_,
                   cancel_closed_, txq, failed>>

(***************************************************************************)
(* The accept loop of a port and the worker it spawns for each connection. *)
(***************************************************************************)
Allocate(s, p) ==
    /\ sockets_' = Append(sockets_, s)
    /\ in_port_' = [in_port_ EXCEPT ![s] = p]
    /\ state_' = [state_ EXCEPT ![s] = "want_syn"]

\* The accept loop of port p starts: its first call of listen.
Listen(s, p) ==
    /\ Yielded
    /\ own[s] = "unborn"
    /\ \A t \in Sockets : own[t] # "unborn" => in_port_[t] # p
    /\ Allocate(s, p)
    /\ own' = [own EXCEPT ![s] = "listen"]
    /\ UNCHANGED <<out_port_, ip_, next_state_, numbers, recv_queue_,
                   cancel_closed_, disp, txq, failed>>

\* listen() returns socket s: its worker starts, and the loop listens again on
\* a new socket t (when the bound on Sockets leaves one).
Accept(s) ==
    /\ Yielded
    /\ own[s] = "notified"
    /\ \/ \E t \in Sockets :
              /\ own[t] = "unborn"
              /\ Allocate(t, in_port_[s])
              /\ own' = [own EXCEPT ![s] = "loop", ![t] = "listen"]
       \/ /\ \A t \in Sockets : own[t] # "unborn"
          /\ own' = [own EXCEPT ![s] = "loop"]
          /\ UNCHANGED <<sockets_, in_port_, state_>>
    /\ UNCHANGED <<out_port_, ip_, next_state_, numbers, recv_queue_,
                   cancel_closed_, disp, txq, failed>>

\* tcp_socket::connected()
Connected(s) == state_[s] \in {"want_ack", "connected"}

\* tcp_socket::recv() with nothing to take: suspended until a payload or a
\* cancellation.
RecvWait(s) ==
    /\ own[s] = "loop"
    /\ Connected(s)
    /\ recv_queue_[s] = <<>>
    /\ own' = [own EXCEPT ![s] = "recv"]
    /\ UNCHANGED <<sockets_, address, control, numbers, recv_queue_,
                   cancel_closed_, disp, txq, failed>>

Cancelled(s) ==
    /\ Yielded
    /\ own[s] = "recv"
    /\ recv_queue_[s] = <<>>
    /\ cancel_closed_[s]
    /\ own' = [own EXCEPT ![s] = "loop"]
    /\ UNCHANGED <<sockets_, address, control, numbers, recv_queue_,
                   cancel_closed_, disp, txq, failed>>

\* tcp_socket::send(), up to the NIC.  send_mutex_ is free: a socket has one
\* owner, which awaits each send.
Send(s, data) ==
    \/ /\ cancel_closed_[s]
       /\ own' = [own EXCEPT ![s] = "loop"]
       /\ UNCHANGED <<sockets_, address, control, numbers, cancel_closed_, disp,
                      txq, failed>>
    \/ /\ ~cancel_closed_[s]
       /\ state_[s] # "connected"
       /\ failed' = "assert_connected"
       /\ UNCHANGED <<sockets_, address, control, numbers, cancel_closed_, own,
                      disp, txq>>
    \/ /\ ~cancel_closed_[s]
       /\ state_[s] = "connected"
       /\ out_seq_' = [out_seq_ EXCEPT ![s] = Plus(@, Len(data))]
       /\ next_out_seq_' = [next_out_seq_ EXCEPT ![s] = out_seq_'[s]]
       /\ next_state_' = [next_state_ EXCEPT ![s] = "connected"]
       /\ state_' = [state_ EXCEPT ![s] = "want_ack"]
       /\ own' = [own EXCEPT ![s] = "send"]
       /\ UNCHANGED <<sockets_, address, in_seq_, cancel_closed_, disp, failed>>
       /\ Transmit(s, Frame(s, out_seq_[s], FALSE, FALSE, data))

\* recv() returns a payload: at once, or when it resumes.
Take(s) ==
    /\ \/ own[s] = "loop" /\ Connected(s)
       \/ Yielded /\ own[s] = "recv"
    /\ recv_queue_[s] # <<>>
    /\ recv_queue_' = [recv_queue_ EXCEPT ![s] = Tail(@)]

\* The payload is not a whole request: `continue`.
Ignore(s) ==
    /\ Take(s)
    /\ own' = [own EXCEPT ![s] = "loop"]
    /\ UNCHANGED <<sockets_, address, control, numbers, cancel_closed_, disp, txq,
                   failed>>

Answer(s) == Take(s) /\ \E data \in Responses : Send(s, data)

SendDone(s) ==
    /\ Yielded
    /\ own[s] = "send"
    /\ Sent(s)
    /\ own' = [own EXCEPT ![s] = "loop"]
    /\ UNCHANGED <<sockets_, address, control, numbers, recv_queue_,
                   cancel_closed_, disp, txq, failed>>

(***************************************************************************)
(* tcp_socket::close().  connection_worker closes once connected() is      *)
(* false; an owner may also close an open connection between two requests. *)
(* The branch that waits for notify_ is for a socket that is not connected *)
(* yet; no worker holds one (CloseStates), so it is not modelled.          *)
(***************************************************************************)
\* Removal from the list and `delete this`.  TCP ports lie below
\* port_allocator::base here, so no port is freed.
Destroy(s) ==
    /\ \E i \in DOMAIN sockets_ :
           sockets_[i] = s /\ sockets_' = RemoveAt(sockets_, i)
    /\ own' = [own EXCEPT ![s] = "deleted"]
    /\ UNCHANGED <<address, control, numbers, recv_queue_, disp, txq, failed>>

MutantAnyWantAck(s) == state_[s] \in {"connected", "want_ack"}
ClosesActively(s) ==
    \/ state_[s] = "connected"
    \/ state_[s] = "want_ack" /\ next_state_[s] = "connected"

Close(s) ==
    /\ own[s] = "loop"
    /\ cancel_closed_' = [cancel_closed_ EXCEPT ![s] = TRUE]
    /\ \/ /\ ClosesActively(s)
          /\ state_' = [state_ EXCEPT ![s] = "want_fin_ack"]
          /\ own' = [own EXCEPT ![s] = "close_fin"]
          /\ UNCHANGED <<sockets_, address, next_state_, numbers, recv_queue_,
                         disp, failed>>
          /\ Transmit(s, FinAck(s))
       \/ /\ state_[s] = "want_ack" /\ next_state_[s] = "closed"
          /\ own' = [own EXCEPT ![s] = "close_wait"]
          /\ UNCHANGED <<sockets_, address, control, numbers, recv_queue_, disp,
                         txq, failed>>
       \/ state_[s] = "closed" /\ Destroy(s)

\* After send_fin_ack: the answer may have come in the meantime.
MutantNoRecheck(s) == TRUE
StillOpen(s) == state_[s] # "closed"

FinSent(s) ==
    /\ Yielded
    /\ own[s] = "close_fin"
    /\ Sent(s)
    /\ \/ /\ StillOpen(s)
          /\ own' = [own EXCEPT ![s] = "close_wait"]
          /\ UNCHANGED <<sockets_, address, control, numbers, recv_queue_, disp,
                         txq, failed>>
       \/ ~StillOpen(s) /\ Destroy(s)
    /\ UNCHANGED cancel_closed_

Closed(s) ==
    /\ Yielded
    /\ own[s] = "close_woken"
    /\ Destroy(s)
    /\ UNCHANGED cancel_closed_

-----------------------------------------------------------------------------
AfterReply == AfterSynAck \/ AfterFinAck \/ AfterDataAck \/ AfterLastAck

Worker(s) ==
    \/ Accept(s) \/ RecvWait(s) \/ Cancelled(s) \/ Ignore(s) \/ Answer(s)
    \/ SendDone(s) \/ Close(s) \/ FinSent(s) \/ Closed(s)

Next ==
    /\ failed = "no"
    /\ \/ \E pkt \in Packets : PushPacket(pkt)
       \/ AfterReply
       \/ TxDone
       \/ \E s \in Sockets, p \in Ports : Listen(s, p)
       \/ \E s \in Sockets : Worker(s)

Spec == Init /\ [][Next]_vars

-----------------------------------------------------------------------------
\* Nothing the program can still reach is deleted: the socket the dispatcher is
\* suspended in (process_packet goes on using `this` after each reply) and the
\* sockets of the list push_packet walks.
NoUseAfterFree ==
    /\ disp.pc # "idle" => Live(disp.sock)
    /\ \A i \in DOMAIN sockets_ : Live(sockets_[i])

\* Every branch of process_packet tests state_ again after the await of the
\* branch before: no segment is handled by two branches, whatever the owner
\* did to the socket while the reply was on its way.
OneBranchPerPacket ==
    /\ disp.pc = "syn_ack" => state_[disp.sock] = "want_ack"
    /\ disp.pc \in {"fin_ack", "data_ack"} => ~IsFinAck(disp.sock, disp.pkt)

\* No wakeup is lost.  closed_ and notify_ are not latched, so a coroutine
\* suspended on one is in a state from which the event is still to come, and a
\* worker in recv() can still be cancelled.
NoLostWakeup ==
    \A s \in Sockets :
        /\ own[s] = "close_wait" => state_[s] \in {"want_ack", "want_fin_ack"}
        /\ own[s] = "listen" => state_[s] \in {"want_syn", "want_ack"}
        /\ own[s] = "recv" /\ recv_queue_[s] = <<>> /\ ~cancel_closed_[s]
               => state_[s] \in {"want_ack", "connected"}

\* When a worker calls close() the socket is in a state of one of its first two
\* branches or closed: it never waits for a connection to be established.
CloseStates ==
    \A s \in Sockets :
        own[s] = "loop" =>
            \/ ClosesActively(s)
            \/ state_[s] = "want_ack" /\ next_state_[s] = "closed"
            \/ state_[s] = "closed"

(***************************************************************************)
(* The inductive invariant behind the four: how far the owner of a socket  *)
(* can be in each state of the socket, and what the dispatcher's position  *)
(* says of the socket it is suspended in.                                  *)
(***************************************************************************)
Working == {"notified", "loop", "recv", "send"}

ListInv ==
    /\ \A i \in DOMAIN sockets_ : Live(sockets_[i])
    /\ \A i, j \in DOMAIN sockets_ : sockets_[i] = sockets_[j] => i = j

OwnerInv(s) ==
    /\ own[s] = "unborn" => ~cancel_closed_[s]
    /\ own[s] = "listen" =>
           /\ ~cancel_closed_[s]
           /\ \/ state_[s] = "want_syn"
              \/ state_[s] = "want_ack" /\ next_state_[s] = "connected"
    /\ own[s] \in Working =>
           /\ state_[s] \in {"want_ack", "connected", "closed"}
           /\ state_[s] = "want_ack" => next_state_[s] \in {"connected", "closed"}
           /\ cancel_closed_[s] <=> state_[s] = "closed"
    /\ own[s] = "close_fin" => state_[s] \in {"want_fin_ack", "closed"}
    /\ own[s] = "close_wait" =>
           \/ state_[s] = "want_fin_ack"
           \/ state_[s] = "want_ack" /\ next_state_[s] = "closed"
    /\ own[s] = "close_woken" => state_[s] = "closed"

DispatcherInv ==
    LET s == disp.sock
    IN  /\ disp.pc = "syn_ack" =>
               /\ own[s] = "listen"
               /\ state_[s] = "want_ack" /\ next_state_[s] = "connected"
        /\ disp.pc = "fin_ack" =>
               /\ own[s] \in Working \cup {"close_wait"}
               /\ state_[s] = "want_ack" /\ next_state_[s] = "closed"
        /\ disp.pc = "data_ack" =>
               /\ ~disp.pkt.fin
               /\ own[s] \in Working \cup {"close_fin", "close_wait"}
               /\ \/ state_[s] \in {"connected", "want_fin_ack"}
                  \/ state_[s] = "want_ack" /\ next_state_[s] = "connected"
        /\ disp.pc = "last_ack" =>
               /\ own[s] \in {"close_fin", "close_wait"}
               /\ state_[s] = "want_fin_ack"

\* The owner, the socket's state and the dispatcher agree at every step of the
\* connection's life (used as the inductive invariant of TcpProofs).
ActorsAgree == ListInv /\ (\A s \in Sockets : OwnerInv(s)) /\ DispatcherInv

=============================================================================
