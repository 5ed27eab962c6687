--------------------------------- MODULE Udp ---------------------------------
(***************************************************************************)
(* The UDP endpoint of tart, net::udp_processor and its udp_socket         *)
(* (src/net/ipv4/udp.cpp, include/tart/net/ipv4/udp.hpp), and the port     *)
(* allocator it shares with TCP (include/tart/net/port.hpp).               *)
(*                                                                         *)
(* The dispatcher calls push_packet for each datagram; it never suspends.  *)
(* Every socket belongs to one coroutine of the program, which makes its   *)
(* calls one after the other, and may do so in any order.  An assertion    *)
(* that fails stops the program; `failed` says which.                      *)
(***************************************************************************)
EXTENDS Naturals, Sequences, SequencesExt, FiniteSetsExt

CONSTANTS
    Sockets,      \* identities of udp_socket objects; a closed one is reused
    Hosts,        \* remote IPv4 addresses
    NoHost,       \* the address of a socket that is still listening, 0.0.0.0
    RemotePorts,  \* ports of the remote hosts
    ListenPorts,  \* the ports the program listens on, below the allocator's
    base, n_ports,     \* the allocator hands out base .. base + n_ports - 1
    PayloadSizes, \* bytes of payload in the datagrams that arrive
    QueueBound    \* bound: no datagram arrives while a queue is this long

\* What fits into an IPv4 packet, and into the length field.
PayloadSize == {n \in Nat : n <= 65507}
Length == {n \in Nat : n <= 65535}

ASSUME UdpAssumption ==
    /\ NoHost \notin Hosts
    /\ base \in Nat /\ n_ports \in Nat \ {0}
    /\ ListenPorts \subseteq 0 .. base - 1 /\ RemotePorts \subseteq Nat
    /\ PayloadSizes \subseteq PayloadSize
    /\ QueueBound \in Nat

Port == Nat
Allocatable == base .. base + n_ports - 1

Datagrams == [source : Hosts, src_port : RemotePorts,
              dest_port : ListenPorts \cup Allocatable, size : PayloadSizes]

VARIABLES
    sockets_,     \* udp_processor::sockets_, in list order
    in_port_, out_port_, ip_, listening_,
    recv_queue_,  \* datagrams not received yet: source and length
    own,          \* where the coroutine that owns the socket stands
    bitmap_,      \* port_allocator: the ports in use
    listened,     \* history: the ports that listen() has allocated
    sent,         \* the last packet given to send_packet
    failed        \* "no", or the assertion that failed

socketVars == <<in_port_, out_port_, ip_, listening_>>
ports == <<bitmap_, listened>>
vars == <<sockets_, socketVars, recv_queue_, own, ports, sent, failed>>

NoPacket == [src_port |-> 0, ip |-> NoHost, dest_port |-> 0]

\* Every variable has its type (udp_socket, port_allocator).
TypeOK ==
    /\ sockets_ \in Seq(Sockets) /\ IsInjective(sockets_)
    /\ in_port_ \in [Sockets -> Port]
    /\ out_port_ \in [Sockets -> Port]
    /\ ip_ \in [Sockets -> Hosts \cup {NoHost}]
    /\ listening_ \in [Sockets -> BOOLEAN]
    /\ recv_queue_ \in [Sockets -> Seq([source : Hosts, length : Length])]
    /\ own \in [Sockets -> {"none", "listening", "woken", "idle", "resolving"}]
    /\ bitmap_ \subseteq Allocatable /\ listened \subseteq Allocatable
    /\ sent \in [src_port : Port, ip : Hosts \cup {NoHost}, dest_port : Port]
    /\ failed \in {"no", "out of ports", "free", "fragmentation"}
    /\ \A s \in Sockets : own[s] = "none" <=> s \notin ToSet(sockets_)

Init ==
    /\ sockets_ = <<>>
    /\ in_port_ = [s \in Sockets |-> 0] /\ out_port_ = [s \in Sockets |-> 0]
    /\ ip_ = [s \in Sockets |-> NoHost]
    /\ listening_ = [s \in Sockets |-> FALSE]
    /\ recv_queue_ = [s \in Sockets |-> <<>>]
    /\ own = [s \in Sockets |-> "none"]
    /\ bitmap_ = {} /\ listened = {}
    /\ sent = NoPacket
    /\ failed = "no"

Fail(why) ==
    /\ failed' = why
    /\ UNCHANGED <<sockets_, socketVars, recv_queue_, own, ports, sent>>

-----------------------------------------------------------------------------
(***************************************************************************)
(* udp_frame::from_ipv4_frame.                                             *)
(***************************************************************************)
\* The length field holds 8 more than the size of the payload.  In
\* `(hi << 8) | lo - 8` the subtraction binds first: for lo < 8 it is
\* negative, all its high bits are set, and the 16 bits kept are lo - 8.
LengthParsed(size) ==
    LET hi == (size + 8) \div 256
        lo == (size + 8) % 256
    IN  IF lo >= 8 THEN hi * 256 + (lo - 8) ELSE 65536 + lo - 8

(***************************************************************************)
(* udp_processor::push_packet.                                             *)
(***************************************************************************)
\* A bug: sockets that listen are preferred.
MutantListeningFirst(s, d) ==
    /\ in_port_[s] = d.dest_port
    /\ \/ listening_[s]
       \/ ip_[s] = d.source /\ \A t \in ToSet(sockets_) : ~listening_[t]

\* The loop stops at the first socket on the port that listens or is the sender's.
Accepts(s, d) ==
    /\ in_port_[s] = d.dest_port
    /\ listening_[s] \/ ip_[s] = d.source

\* notify_.raise(): the coroutine in listen() runs later.
Notify(s) == own' = [own EXCEPT ![s] = IF @ = "listening" THEN "woken" ELSE @]

Claim(s, d) ==
    /\ listening_' = [listening_ EXCEPT ![s] = FALSE]
    /\ out_port_' = [out_port_ EXCEPT ![s] = d.src_port]
    /\ ip_' = [ip_ EXCEPT ![s] = d.source]
    /\ Notify(s)

\* The socket is the first in the list that accepts the datagram.
Takes(s, d) ==
    \E i \in DOMAIN sockets_ :
        /\ s = sockets_[i] /\ Accepts(s, d)
        /\ \A j \in 1 .. i - 1 : ~Accepts(sockets_[j], d)

PushPacket(d) ==
    LET length == LengthParsed(d.size)
    IN  /\ failed = "no"
        /\ \/ d.size < length /\ Fail("fragmentation")
           \/ /\ d.size >= length
              /\ \E s \in Sockets :
                     /\ Takes(s, d)
                     /\ Len(recv_queue_[s]) < QueueBound
                     /\ \/ listening_[s] /\ Claim(s, d)
                        \/ ~listening_[s] /\ UNCHANGED <<out_port_, ip_, listening_, own>>
                     /\ recv_queue_' = [recv_queue_ EXCEPT ![s] =
                            Append(@, [source |-> d.source, length |-> length])]
              /\ UNCHANGED <<sockets_, in_port_, ports, sent, failed>>

-----------------------------------------------------------------------------
(***************************************************************************)
(* port_allocator.                                                         *)
(***************************************************************************)
Allocate(p) == bitmap_' = bitmap_ \cup {p}

FreePorts == Allocatable \ bitmap_

-----------------------------------------------------------------------------
(***************************************************************************)
(* The program's calls.                                                    *)
(***************************************************************************)
\* A new socket at the end of the list.
New(s, in, out, ip, listening) ==
    /\ sockets_' = Append(sockets_, s)
    /\ in_port_' = [in_port_ EXCEPT ![s] = in]
    /\ out_port_' = [out_port_ EXCEPT ![s] = out]
    /\ ip_' = [ip_ EXCEPT ![s] = ip]
    /\ listening_' = [listening_ EXCEPT ![s] = listening]
    /\ recv_queue_' = [recv_queue_ EXCEPT ![s] = <<>>]
    /\ own' = [own EXCEPT ![s] = IF listening THEN "listening" ELSE "idle"]
    /\ UNCHANGED <<sent, failed>>

\* listen() allocates a port to be out_port_ until the first datagram.
Listen(s, port) ==
    /\ failed = "no" /\ own[s] = "none"
    /\ \/ FreePorts = {} /\ Fail("out of ports")
       \/ /\ FreePorts # {}
          /\ Allocate(Min(FreePorts))
          /\ listened' = listened \cup {Min(FreePorts)}
          /\ New(s, port, Min(FreePorts), NoHost, TRUE)

ListenReturns(s) ==
    /\ failed = "no" /\ own[s] = "woken"
    /\ own' = [own EXCEPT ![s] = "idle"]
    /\ UNCHANGED <<sockets_, socketVars, recv_queue_, ports, sent, failed>>

Connect(s, ip, port) ==
    /\ failed = "no" /\ own[s] = "none"
    /\ \/ FreePorts = {} /\ Fail("out of ports")
       \/ /\ FreePorts # {}
          /\ Allocate(Min(FreePorts))
          /\ New(s, Min(FreePorts), port, ip, FALSE)
          /\ UNCHANGED listened

Recv(s) ==
    /\ failed = "no" /\ own[s] = "idle"
    /\ recv_queue_[s] # <<>>
    /\ recv_queue_' = [recv_queue_ EXCEPT ![s] = Tail(@)]
    /\ UNCHANGED <<sockets_, socketVars, own, ports, sent, failed>>

\* send() suspends in arp_processor::mac_of, then reads the socket again.
Send(s) ==
    /\ failed = "no" /\ own[s] = "idle"
    /\ own' = [own EXCEPT ![s] = "resolving"]
    /\ UNCHANGED <<sockets_, socketVars, recv_queue_, ports, sent, failed>>

Resolved(s) ==
    /\ failed = "no" /\ own[s] = "resolving"
    /\ sent' = [src_port |-> in_port_[s], ip |-> ip_[s], dest_port |-> out_port_[s]]
    /\ own' = [own EXCEPT ![s] = "idle"]
    /\ UNCHANGED <<sockets_, socketVars, recv_queue_, ports, failed>>

\* A bug: the other port of the connection is freed.
MutantFreesOutPort(s) == bitmap_' = bitmap_ \ {out_port_[s]}

\* close() frees in_port_ if it is in the allocator's range.
FreePort(s) == bitmap_' = bitmap_ \ {in_port_[s]}

\* A deleted socket has no fields; they are set back to what Init gives them.
Delete(s) ==
    /\ in_port_' = [in_port_ EXCEPT ![s] = 0]
    /\ out_port_' = [out_port_ EXCEPT ![s] = 0]
    /\ ip_' = [ip_ EXCEPT ![s] = NoHost]
    /\ listening_' = [listening_ EXCEPT ![s] = FALSE]
    /\ recv_queue_' = [recv_queue_ EXCEPT ![s] = <<>>]

\* free() asserts that the port is in use.
Close(s) ==
    /\ failed = "no" /\ own[s] = "idle"
    /\ IF base <= in_port_[s] /\ in_port_[s] \notin bitmap_
       THEN Fail("free")
       ELSE /\ FreePort(s)
            /\ \E i \in DOMAIN sockets_ :
                   sockets_[i] = s /\ sockets_' = RemoveAt(sockets_, i)
            /\ own' = [own EXCEPT ![s] = "none"]
            /\ Delete(s)
            /\ UNCHANGED <<listened, sent, failed>>

Calls(s) ==
    \/ \E port \in ListenPorts : Listen(s, port)
    \/ ListenReturns(s)
    \/ \E ip \in Hosts, port \in RemotePorts : Connect(s, ip, port)
    \/ Recv(s) \/ Send(s) \/ Resolved(s) \/ Close(s)

Next ==
    \/ \E d \in Datagrams : PushPacket(d)
    \/ \E s \in Sockets : Calls(s)

Spec == Init /\ [][Next]_vars

-----------------------------------------------------------------------------
(***************************************************************************)
(* Properties.                                                             *)
(***************************************************************************)
Open == ToSet(sockets_)
Connected == {s \in Open : in_port_[s] \in Allocatable}

\* A remote host's datagrams to a port of ours all go to one socket, and that
\* socket holds no others: no two sockets that have a peer have the same port and
\* the same peer (push_packet, listen, connect).
OneSocketPerPeer ==
    /\ \A s, t \in Open :
           ~listening_[s] /\ ~listening_[t] /\ in_port_[s] = in_port_[t]
               /\ ip_[s] = ip_[t] => s = t
    /\ \A s \in Open : \A i \in DOMAIN recv_queue_[s] :
           recv_queue_[s][i].source = ip_[s]

\* The allocator knows exactly the ports of the connected sockets, each of which
\* has one of its own, and those listen() has allocated: a port comes back when
\* its connection is closed, and one that listen() took never does
\* (connect, listen, close, port_allocator; udp.cpp:36 and 70-73).
PortsAccounted ==
    /\ bitmap_ = {in_port_[s] : s \in Connected} \cup listened
    /\ \A s \in Connected : in_port_[s] \notin listened
    /\ \A s, t \in Connected : in_port_[s] = in_port_[t] => s = t

\* The allocator runs out of ports only when sockets hold all of them: "out of
\* ports..." (port_allocator::allocate).
PortsRunOutFairly == failed = "out of ports" => Len(sockets_) >= n_ports
=============================================================================
