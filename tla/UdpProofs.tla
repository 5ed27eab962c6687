------------------------------ MODULE UdpProofs ------------------------------
(***************************************************************************)
(* Theorems about Udp, for any sockets, hosts, ports, sizes of payloads    *)
(* and range of the port allocator.                                        *)
(***************************************************************************)
EXTENDS Udp, Lemmas

(***************************************************************************)
(* The inductive invariant.                                                *)
(***************************************************************************)

\* A socket in the list listens, on a port below the allocator's and with
\* nothing received, or has a peer (listen, connect, push_packet).
SocketsSound ==
    \A s \in Open :
        /\ in_port_[s] \in ListenPorts \cup Allocatable
        /\ IF listening_[s]
           THEN ip_[s] = NoHost /\ in_port_[s] \in ListenPorts /\ recv_queue_[s] = <<>>
           ELSE ip_[s] \in Hosts
        /\ \A i \in DOMAIN recv_queue_[s] : recv_queue_[s][i].source = ip_[s]

\* Of the sockets on a port, those that listen come after those that have a peer:
\* the first is claimed and new ones go to the end (push_packet, listen).
ClaimedFirst ==
    \A i, j \in DOMAIN sockets_ :
        i < j /\ in_port_[sockets_[i]] = in_port_[sockets_[j]] /\ listening_[sockets_[i]]
            => listening_[sockets_[j]]

OnePerPeer ==
    \A s, t \in Open :
        ~listening_[s] /\ ~listening_[t] /\ in_port_[s] = in_port_[t]
            /\ ip_[s] = ip_[t] => s = t

\* The assertion of port_allocator::free holds (port.hpp, free).
FreeHolds == failed # "free"

IInv == TypeOK /\ SocketsSound /\ ClaimedFirst /\ OnePerPeer /\ PortsAccounted /\ FreeHolds

LEMMA InitIInv == Init => IInv
BY UdpAssumption
DEF Init, IInv, TypeOK, SocketsSound, ClaimedFirst, OnePerPeer, PortsAccounted, FreeHolds,
    Open, Connected, NoPacket, Port, ToSet, IsInjective

\* An assertion that fails changes nothing else.
LEMMA FailIInv ==
    ASSUME IInv, NEW why \in {"out of ports", "fragmentation"}, Fail(why)
    PROVE  IInv'
<1>1. UNCHANGED <<sockets_, in_port_, ip_, listening_, recv_queue_, bitmap_, listened>>
      /\ Open' = Open /\ Connected' = Connected
  BY DEF Fail, socketVars, ports, Open, Connected
<1>2. TypeOK' /\ FreeHolds'
  BY DEF IInv, TypeOK, FreeHolds, Fail, socketVars, ports
<1>3. SocketsSound'
  BY <1>1 DEF IInv, SocketsSound
<1>4. ClaimedFirst' /\ OnePerPeer'
  BY <1>1 DEF IInv, ClaimedFirst, OnePerPeer
<1>5. PortsAccounted'
  BY <1>1 DEF IInv, PortsAccounted
<1> QED BY <1>2, <1>3, <1>4, <1>5 DEF IInv

\* The list holds sockets.
LEMMA OpenType ==
    ASSUME TypeOK
    PROVE  /\ sockets_ \in Seq(Sockets) /\ Open \subseteq Sockets
           /\ \A i \in DOMAIN sockets_ : sockets_[i] \in Open
<1>1. sockets_ \in Seq(Sockets)
  BY DEF TypeOK
<1>2. \A i \in DOMAIN sockets_ : sockets_[i] \in Sockets
  BY <1>1
<1> QED BY <1>1, <1>2 DEF Open, ToSet

-----------------------------------------------------------------------------
(***************************************************************************)
(* push_packet.                                                            *)
(***************************************************************************)

\* The parsed length fits its field.
LEMMA LengthType ==
    ASSUME NEW size \in PayloadSize
    PROVE  LengthParsed(size) \in Length
<1> DEFINE hi == (size + 8) \div 256
           lo == (size + 8) % 256
<1>1. hi \in Nat /\ lo \in 0 .. 255 /\ size + 8 = 256 * hi + lo
  BY SMT DEF PayloadSize
<1>2. LengthParsed(size) = IF lo >= 8 THEN hi * 256 + (lo - 8) ELSE 65536 + lo - 8
  BY SMT DEF LengthParsed
<1> HIDE DEF hi, lo
<1>3. size \in Nat /\ size <= 65507
  BY SMT DEF PayloadSize
<1>4. CASE lo >= 8
  <2>1. LengthParsed(size) = size
    BY <1>1, <1>2, <1>3, <1>4, SMT
  <2> QED BY <2>1, <1>3, SMT DEF Length
<1>5. CASE ~(lo >= 8)
  <2>1. LengthParsed(size) = 65528 + lo
    BY <1>1, <1>2, <1>5, SMT
  <2>2. LengthParsed(size) \in Nat /\ LengthParsed(size) <= 65535
    BY <2>1, <1>1, <1>5, SMT
  <2> QED BY <2>2, SMT DEF Length
<1> QED BY <1>4, <1>5

LEMMA PushPacketIInv ==
    ASSUME IInv, NEW d \in Datagrams, PushPacket(d)
    PROVE  IInv'
<1> DEFINE length == LengthParsed(d.size)
           entry == [source |-> d.source, length |-> length]
<1>1. CASE Fail("fragmentation")
  BY <1>1, FailIInv
<1>2. CASE ~Fail("fragmentation")
  <2>1. length \in Length
    BY UdpAssumption, LengthType DEF Datagrams
  <2>2. d.source \in Hosts /\ d.src_port \in Nat /\ entry \in [source : Hosts, length : Length]
    BY <2>1, UdpAssumption DEF Datagrams
  <2> HIDE DEF length
  <2>3. PICK s \in Sockets :
            /\ Takes(s, d)
            /\ \/ listening_[s] /\ Claim(s, d)
               \/ ~listening_[s] /\ UNCHANGED <<out_port_, ip_, listening_, own>>
            /\ recv_queue_' = [recv_queue_ EXCEPT ![s] = Append(@, entry)]
    BY <1>2 DEF PushPacket, length
  <2>4. UNCHANGED <<sockets_, in_port_, ports, sent, failed>>
    BY <1>2 DEF PushPacket
  <2>5. PICK i \in DOMAIN sockets_ :
            /\ s = sockets_[i] /\ Accepts(s, d)
            /\ \A j \in 1 .. i - 1 : ~Accepts(sockets_[j], d)
    BY <2>3 DEF Takes
  <2>6. s \in Open /\ Open' = Open /\ Connected' = Connected
    BY <2>4, <2>5 DEF Open, Connected, ToSet
  <2> HIDE DEF entry
  <2>7. /\ listening_'[s] = FALSE /\ ip_'[s] = d.source
        /\ \A t \in Sockets \ {s} :
               /\ listening_'[t] = listening_[t] /\ ip_'[t] = ip_[t]
               /\ recv_queue_'[t] = recv_queue_[t]
        /\ recv_queue_'[s] = Append(recv_queue_[s], entry)
    <3>1. CASE listening_[s] /\ Claim(s, d)
      BY <2>3, <3>1 DEF IInv, TypeOK, Claim
    <3>2. CASE ~listening_[s] /\ UNCHANGED <<out_port_, ip_, listening_, own>>
      BY <2>3, <2>5, <3>2 DEF IInv, TypeOK, Accepts
    <3> QED BY <2>3, <3>1, <3>2
  <2>8. Open \subseteq Sockets /\ sockets_ \in Seq(Sockets)
    BY OpenType DEF IInv
  <2>9. TypeOK'
    <3>1. recv_queue_' \in [Sockets -> Seq([source : Hosts, length : Length])]
      <4>1. recv_queue_[s] \in Seq([source : Hosts, length : Length])
        BY DEF IInv, TypeOK
      <4>2. Append(recv_queue_[s], entry) \in Seq([source : Hosts, length : Length])
        BY <2>2, <4>1
      <4> QED BY <2>3, <4>2 DEF IInv, TypeOK
    <3>2. CASE listening_[s] /\ Claim(s, d)
      BY <2>2, <2>4, <3>1, <3>2 DEF IInv, TypeOK, Claim, Notify, Port, ports
    <3>3. CASE ~listening_[s] /\ UNCHANGED <<out_port_, ip_, listening_, own>>
      BY <2>4, <3>1, <3>3 DEF IInv, TypeOK, ports
    <3> QED BY <2>3, <3>2, <3>3
  <2>10. SocketsSound'
    <3>1. \A k \in DOMAIN recv_queue_'[s] : recv_queue_'[s][k].source = d.source
      <4>1. recv_queue_[s] \in Seq([source : Hosts, length : Length])
        BY DEF IInv, TypeOK
      <4>2. \A k \in DOMAIN recv_queue_[s] : recv_queue_[s][k].source = d.source
        BY <2>5, <2>6 DEF IInv, SocketsSound, Accepts
      <4> QED BY <2>2, <2>7, <4>1, <4>2 DEF entry
    <3>2. \A t \in Open : /\ in_port_'[t] = in_port_[t]
                          /\ in_port_[t] \in ListenPorts \cup Allocatable
      BY <2>4 DEF IInv, SocketsSound
    <3>3. ASSUME NEW t \in Open, t # s
          PROVE  /\ IF listening_'[t]
                    THEN /\ ip_'[t] = NoHost /\ in_port_[t] \in ListenPorts
                         /\ recv_queue_'[t] = <<>>
                    ELSE ip_'[t] \in Hosts
                 /\ \A k \in DOMAIN recv_queue_'[t] : recv_queue_'[t][k].source = ip_'[t]
      <4>1. /\ listening_'[t] = listening_[t] /\ ip_'[t] = ip_[t]
            /\ recv_queue_'[t] = recv_queue_[t]
        BY <2>7, <2>8, <3>3
      <4> QED BY <4>1 DEF IInv, SocketsSound
    <3> QED BY <2>2, <2>6, <2>7, <3>1, <3>2, <3>3 DEF SocketsSound
  <2>11. ClaimedFirst'
    <3> SUFFICES ASSUME NEW a \in DOMAIN sockets_, NEW b \in DOMAIN sockets_, a < b,
                        in_port_[sockets_[a]] = in_port_[sockets_[b]],
                        listening_'[sockets_[a]]
                 PROVE  listening_'[sockets_[b]]
      BY <2>4 DEF ClaimedFirst
    <3>1. sockets_[a] # s /\ sockets_[a] \in Sockets /\ sockets_[b] \in Sockets
      BY <2>7, <2>8
    <3>2. listening_[sockets_[a]] /\ listening_[sockets_[b]]
      BY <2>7, <3>1 DEF IInv, ClaimedFirst
    <3>3. CASE sockets_[b] = s
      <4>1. b = i
        BY <2>5, <3>3 DEF IInv, TypeOK, IsInjective
      <4>2. Accepts(sockets_[a], d)
        BY <2>5, <3>2, <3>3 DEF Accepts
      <4> QED BY <2>5, <2>8, <4>1, <4>2
    <3> QED BY <2>7, <3>1, <3>2, <3>3
  <2>12. OnePerPeer'
    <3> SUFFICES ASSUME NEW t \in Open, t # s, ~listening_[t],
                        in_port_[t] = in_port_[s], ip_[t] = d.source
                 PROVE  FALSE
      BY <2>4, <2>6, <2>7, <2>8 DEF IInv, OnePerPeer
    <3>1. PICK j \in DOMAIN sockets_ : t = sockets_[j]
      BY DEF Open, ToSet
    <3>2. Accepts(t, d)
      BY <2>5 DEF Accepts
    <3>3. i < j
      BY <2>5, <2>8, <3>1, <3>2
    <3>4. ~listening_[s]
      BY <2>5, <3>1, <3>3 DEF IInv, ClaimedFirst
    <3> QED BY <2>5, <2>6, <3>4 DEF IInv, OnePerPeer, Accepts
  <2>13. PortsAccounted' /\ FreeHolds'
    BY <2>4, <2>6 DEF IInv, PortsAccounted, FreeHolds, ports
  <2> QED BY <2>9, <2>10, <2>11, <2>12, <2>13 DEF IInv
<1> QED BY <1>1, <1>2

-----------------------------------------------------------------------------
(***************************************************************************)
(* listen, connect and close.                                              *)
(***************************************************************************)

\* allocate() finds a free port.
LEMMA AllocateType ==
    ASSUME FreePorts # {}
    PROVE  Min(FreePorts) \in Allocatable \ bitmap_
<1>1. FreePorts \subseteq Nat
  BY UdpAssumption DEF FreePorts, Allocatable
<1>2. Min(FreePorts) \in FreePorts
  BY <1>1, MinIs
<1> QED BY <1>2 DEF FreePorts

\* What a new socket does to the list.
LEMMA NewType ==
    ASSUME IInv, NEW s \in Sockets, own[s] = "none",
           NEW in \in Nat, NEW out \in Nat, NEW ip \in Hosts \cup {NoHost},
           NEW listening \in BOOLEAN, New(s, in, out, ip, listening),
           bitmap_' \subseteq Allocatable, listened' \subseteq Allocatable
    PROVE  /\ TypeOK' /\ FreeHolds'
           /\ s \notin Open /\ Open' = Open \cup {s}
           /\ in_port_'[s] = in /\ ip_'[s] = ip /\ listening_'[s] = listening
           /\ recv_queue_'[s] = <<>>
           /\ \A t \in Open :
                  /\ in_port_'[t] = in_port_[t] /\ ip_'[t] = ip_[t]
                  /\ listening_'[t] = listening_[t] /\ recv_queue_'[t] = recv_queue_[t]
           /\ DOMAIN sockets_' = 1 .. Len(sockets_) + 1
           /\ sockets_'[Len(sockets_) + 1] = s
           /\ \A i \in DOMAIN sockets_ : sockets_'[i] = sockets_[i] /\ sockets_[i] \in Open
           /\ DOMAIN sockets_ = 1 .. Len(sockets_) /\ Len(sockets_) \in Nat
<1>1. /\ sockets_ \in Seq(Sockets) /\ Open \subseteq Sockets
      /\ \A i \in DOMAIN sockets_ : sockets_[i] \in Open
  BY OpenType DEF IInv
<1>2. s \notin Open /\ IsInjective(sockets_)
  BY DEF IInv, TypeOK, Open
<1>3. sockets_' = Append(sockets_, s) /\ sockets_' \in Seq(Sockets)
  BY <1>1 DEF New
<1>4. Open' = Open \cup {s} /\ IsInjective(sockets_')
  BY <1>1, <1>2, <1>3, AppendSet DEF Open
<1>5. /\ in_port_'[s] = in /\ ip_'[s] = ip /\ listening_'[s] = listening
      /\ recv_queue_'[s] = <<>>
      /\ \A t \in Sockets \ {s} :
             /\ in_port_'[t] = in_port_[t] /\ ip_'[t] = ip_[t]
             /\ listening_'[t] = listening_[t] /\ recv_queue_'[t] = recv_queue_[t]
  BY DEF New, IInv, TypeOK
<1>6. /\ DOMAIN sockets_' = 1 .. Len(sockets_) + 1
      /\ sockets_'[Len(sockets_) + 1] = s
      /\ \A i \in DOMAIN sockets_ : sockets_'[i] = sockets_[i]
      /\ DOMAIN sockets_ = 1 .. Len(sockets_) /\ Len(sockets_) \in Nat
  BY <1>1, <1>3
<1>7. TypeOK'
  <2>1. /\ in_port_' \in [Sockets -> Port] /\ out_port_' \in [Sockets -> Port]
        /\ ip_' \in [Sockets -> Hosts \cup {NoHost}]
        /\ listening_' \in [Sockets -> BOOLEAN]
    BY DEF New, IInv, TypeOK, Port
  <2>5. recv_queue_' \in [Sockets -> Seq([source : Hosts, length : Length])]
    <3>1. <<>> \in Seq([source : Hosts, length : Length])
      OBVIOUS
    <3>2. recv_queue_' = [recv_queue_ EXCEPT ![s] = <<>>]
      BY DEF New
    <3>3. recv_queue_ \in [Sockets -> Seq([source : Hosts, length : Length])]
      BY DEF IInv, TypeOK
    <3> QED BY <3>1, <3>2, <3>3
  <2>2. own' \in [Sockets -> {"none", "listening", "woken", "idle", "resolving"}]
    BY DEF New, IInv, TypeOK
  <2>3. \A t \in Sockets : own'[t] = "none" <=> t \notin Open'
    BY <1>4 DEF New, IInv, TypeOK, Open
  <2>4. sent' = sent /\ failed' = failed
    BY DEF New
  <2> QED BY <1>3, <1>4, <2>1, <2>2, <2>3, <2>4, <2>5 DEF IInv, TypeOK, Open
<1>8. FreeHolds'
  BY DEF New, IInv, FreeHolds
<1> QED BY <1>1, <1>2, <1>4, <1>5, <1>6, <1>7, <1>8

LEMMA ListenIInv ==
    ASSUME IInv, NEW s \in Sockets, NEW port \in ListenPorts, Listen(s, port)
    PROVE  IInv'
<1>1. CASE Fail("out of ports")
  BY <1>1, FailIInv
<1>2. CASE ~Fail("out of ports")
  <2> DEFINE p == Min(FreePorts)
  <2>1. /\ own[s] = "none" /\ FreePorts # {}
        /\ bitmap_' = bitmap_ \cup {p} /\ listened' = listened \cup {p}
        /\ New(s, port, p, NoHost, TRUE)
    BY <1>2 DEF Listen, Allocate
  <2>2. p \in Allocatable \ bitmap_
    BY <2>1, AllocateType
  <2> HIDE DEF p
  <2>3. port \in Nat /\ port < base /\ port \notin Allocatable /\ p \in Nat
    BY <2>2, UdpAssumption DEF Allocatable
  <2>4. bitmap_' \subseteq Allocatable /\ listened' \subseteq Allocatable
    BY <2>1, <2>2 DEF IInv, TypeOK
  <2>5. /\ TypeOK' /\ FreeHolds'
        /\ s \notin Open /\ Open' = Open \cup {s}
        /\ in_port_'[s] = port /\ ip_'[s] = NoHost /\ listening_'[s] = TRUE
        /\ recv_queue_'[s] = <<>>
        /\ \A t \in Open :
               /\ in_port_'[t] = in_port_[t] /\ ip_'[t] = ip_[t]
               /\ listening_'[t] = listening_[t] /\ recv_queue_'[t] = recv_queue_[t]
    BY <2>1, <2>3, <2>4, NewType
  <2>6. /\ DOMAIN sockets_' = 1 .. Len(sockets_) + 1
        /\ sockets_'[Len(sockets_) + 1] = s
        /\ \A i \in DOMAIN sockets_ : sockets_'[i] = sockets_[i] /\ sockets_[i] \in Open
        /\ DOMAIN sockets_ = 1 .. Len(sockets_) /\ Len(sockets_) \in Nat
    BY <2>1, <2>3, <2>4, NewType
  <2>7. SocketsSound'
    <3>1. ASSUME NEW t \in Open
          PROVE  /\ in_port_'[t] \in ListenPorts \cup Allocatable
                 /\ IF listening_'[t]
                    THEN /\ ip_'[t] = NoHost /\ in_port_'[t] \in ListenPorts
                         /\ recv_queue_'[t] = <<>>
                    ELSE ip_'[t] \in Hosts
                 /\ \A i \in DOMAIN recv_queue_'[t] : recv_queue_'[t][i].source = ip_'[t]
      BY <2>5 DEF IInv, SocketsSound
    <3> QED BY <2>5, <3>1 DEF SocketsSound
  <2>8. ClaimedFirst'
    <3> SUFFICES ASSUME NEW i \in DOMAIN sockets_', NEW j \in DOMAIN sockets_', i < j,
                        in_port_'[sockets_'[i]] = in_port_'[sockets_'[j]],
                        listening_'[sockets_'[i]]
                 PROVE  listening_'[sockets_'[j]]
      BY DEF ClaimedFirst
    <3>1. CASE j = Len(sockets_) + 1
      BY <2>5, <2>6, <3>1
    <3>2. CASE j # Len(sockets_) + 1
      <4>1. i \in DOMAIN sockets_ /\ j \in DOMAIN sockets_
        BY <2>6, <3>2
      <4> QED BY <2>5, <2>6, <4>1 DEF IInv, ClaimedFirst
    <3> QED BY <3>1, <3>2
  <2>9. OnePerPeer'
    BY <2>5 DEF IInv, OnePerPeer
  <2>10. PortsAccounted'
    <3>1. Connected' = Connected /\ \A t \in Connected : in_port_'[t] = in_port_[t]
      BY <2>3, <2>5 DEF Connected
    <3>2. \A t \in Connected : in_port_[t] \in bitmap_
      BY DEF IInv, PortsAccounted
    <3>3. {in_port_'[t] : t \in Connected'} = {in_port_[t] : t \in Connected}
      BY <3>1
    <3>4. bitmap_' = {in_port_'[t] : t \in Connected'} \cup listened'
      BY <2>1, <3>3 DEF IInv, PortsAccounted
    <3>5. \A t \in Connected' : in_port_'[t] \notin listened'
      BY <2>1, <2>2, <3>1, <3>2 DEF IInv, PortsAccounted
    <3>6. \A t, u \in Connected' : in_port_'[t] = in_port_'[u] => t = u
      BY <3>1 DEF IInv, PortsAccounted
    <3> QED BY <3>4, <3>5, <3>6 DEF PortsAccounted
  <2> QED BY <2>5, <2>7, <2>8, <2>9, <2>10 DEF IInv
<1> QED BY <1>1, <1>2

LEMMA ConnectIInv ==
    ASSUME IInv, NEW s \in Sockets, NEW ip \in Hosts, NEW port \in RemotePorts,
           Connect(s, ip, port)
    PROVE  IInv'
<1>1. CASE Fail("out of ports")
  BY <1>1, FailIInv
<1>2. CASE ~Fail("out of ports")
  <2> DEFINE p == Min(FreePorts)
  <2>1. /\ own[s] = "none" /\ FreePorts # {}
        /\ bitmap_' = bitmap_ \cup {p} /\ listened' = listened
        /\ New(s, p, port, ip, FALSE)
    BY <1>2 DEF Connect, Allocate
  <2>2. p \in Allocatable \ bitmap_
    BY <2>1, AllocateType
  <2> HIDE DEF p
  <2>3. port \in Nat /\ p \in Nat /\ p \notin ListenPorts
    BY <2>2, UdpAssumption DEF Allocatable
  <2>4. bitmap_' \subseteq Allocatable /\ listened' \subseteq Allocatable
    BY <2>1, <2>2 DEF IInv, TypeOK
  <2>5. /\ TypeOK' /\ FreeHolds'
        /\ s \notin Open /\ Open' = Open \cup {s}
        /\ in_port_'[s] = p /\ ip_'[s] = ip /\ listening_'[s] = FALSE
        /\ recv_queue_'[s] = <<>>
        /\ \A t \in Open :
               /\ in_port_'[t] = in_port_[t] /\ ip_'[t] = ip_[t]
               /\ listening_'[t] = listening_[t] /\ recv_queue_'[t] = recv_queue_[t]
    BY <2>1, <2>3, <2>4, NewType
  <2>6. /\ DOMAIN sockets_' = 1 .. Len(sockets_) + 1
        /\ sockets_'[Len(sockets_) + 1] = s
        /\ \A i \in DOMAIN sockets_ : sockets_'[i] = sockets_[i] /\ sockets_[i] \in Open
        /\ DOMAIN sockets_ = 1 .. Len(sockets_) /\ Len(sockets_) \in Nat
    BY <2>1, <2>3, <2>4, NewType
  <2>7. \A t \in Open : in_port_[t] # p
    BY <2>2, <2>3 DEF IInv, SocketsSound, PortsAccounted, Connected
  <2>8. SocketsSound'
    <3>1. ASSUME NEW t \in Open
          PROVE  /\ in_port_'[t] \in ListenPorts \cup Allocatable
                 /\ IF listening_'[t]
                    THEN /\ ip_'[t] = NoHost /\ in_port_'[t] \in ListenPorts
                         /\ recv_queue_'[t] = <<>>
                    ELSE ip_'[t] \in Hosts
                 /\ \A i \in DOMAIN recv_queue_'[t] : recv_queue_'[t][i].source = ip_'[t]
      BY <2>5 DEF IInv, SocketsSound
    <3> QED BY <2>2, <2>5, <3>1 DEF SocketsSound
  <2>9. ClaimedFirst'
    <3> SUFFICES ASSUME NEW i \in DOMAIN sockets_', NEW j \in DOMAIN sockets_', i < j,
                        in_port_'[sockets_'[i]] = in_port_'[sockets_'[j]],
                        listening_'[sockets_'[i]]
                 PROVE  listening_'[sockets_'[j]]
      BY DEF ClaimedFirst
    <3>1. i \in DOMAIN sockets_
      BY <2>6
    <3>2. CASE j = Len(sockets_) + 1
      BY <2>5, <2>6, <2>7, <3>1, <3>2
    <3>3. CASE j # Len(sockets_) + 1
      <4>1. j \in DOMAIN sockets_
        BY <2>6, <3>3
      <4> QED BY <2>5, <2>6, <3>1, <4>1 DEF IInv, ClaimedFirst
    <3> QED BY <3>2, <3>3
  <2>10. OnePerPeer'
    BY <2>5, <2>7 DEF IInv, OnePerPeer
  <2>11. PortsAccounted'
    <3>1. /\ Connected' = Connected \cup {s}
          /\ \A t \in Connected : in_port_'[t] = in_port_[t]
      BY <2>2, <2>5 DEF Connected
    <3>2. {in_port_'[t] : t \in Connected'} = {in_port_[t] : t \in Connected} \cup {p}
      BY <2>5, <3>1
    <3>3. bitmap_' = {in_port_'[t] : t \in Connected'} \cup listened'
      BY <2>1, <3>2 DEF IInv, PortsAccounted
    <3>4. p \notin listened
      BY <2>2 DEF IInv, PortsAccounted
    <3>5. \A t \in Connected' : in_port_'[t] \notin listened'
      BY <2>1, <2>5, <3>1, <3>4 DEF IInv, PortsAccounted
    <3>6. \A t, u \in Connected' : in_port_'[t] = in_port_'[u] => t = u
      BY <2>5, <2>7, <3>1 DEF IInv, PortsAccounted, Connected
    <3> QED BY <3>3, <3>5, <3>6 DEF PortsAccounted
  <2> QED BY <2>5, <2>8, <2>9, <2>10, <2>11 DEF IInv
<1> QED BY <1>1, <1>2

LEMMA CloseIInv ==
    ASSUME IInv, NEW s \in Sockets, Close(s)
    PROVE  IInv'
<1>1. /\ sockets_ \in Seq(Sockets) /\ Open \subseteq Sockets /\ IsInjective(sockets_)
      /\ \A i \in DOMAIN sockets_ : sockets_[i] \in Open
  BY OpenType DEF IInv, TypeOK
<1>2. s \in Open
  BY DEF Close, IInv, TypeOK, Open
<1>3. ~(base <= in_port_[s] /\ in_port_[s] \notin bitmap_)
  <2>1. CASE in_port_[s] \in Allocatable
    BY <1>2, <2>1 DEF IInv, PortsAccounted, Connected
  <2>2. CASE in_port_[s] \in ListenPorts
    <3>1. in_port_[s] \in 0 .. base - 1 /\ base \in Nat
      BY <2>2, UdpAssumption
    <3> QED BY <3>1
  <2> QED BY <1>2, <2>1, <2>2 DEF IInv, SocketsSound
<1>4. PICK k \in DOMAIN sockets_ : sockets_[k] = s /\ sockets_' = RemoveAt(sockets_, k)
  BY <1>3 DEF Close
<1>5. /\ FreePort(s) /\ Delete(s) /\ own' = [own EXCEPT ![s] = "none"]
      /\ listened' = listened /\ sent' = sent /\ failed' = failed
  BY <1>3 DEF Close
<1>6. /\ sockets_' \in Seq(Sockets) /\ DOMAIN sockets_' = 1 .. Len(sockets_) - 1
      /\ \A j \in 1 .. Len(sockets_) - 1 :
             sockets_'[j] = IF j < k THEN sockets_[j] ELSE sockets_[j + 1]
      /\ Open' = Open \ {s} /\ IsInjective(sockets_')
  BY <1>1, <1>4, RemoveAtType, RemoveAtSet DEF Open
<1>7. \A t \in Open' :
          /\ in_port_'[t] = in_port_[t] /\ ip_'[t] = ip_[t]
          /\ listening_'[t] = listening_[t] /\ recv_queue_'[t] = recv_queue_[t]
  BY <1>1, <1>5, <1>6 DEF Delete, IInv, TypeOK
<1>8. TypeOK'
  <2>1. /\ in_port_' \in [Sockets -> Port] /\ out_port_' \in [Sockets -> Port]
        /\ ip_' \in [Sockets -> Hosts \cup {NoHost}]
        /\ listening_' \in [Sockets -> BOOLEAN]
    BY <1>5 DEF Delete, IInv, TypeOK, Port
  <2>2. recv_queue_' \in [Sockets -> Seq([source : Hosts, length : Length])]
    <3>1. <<>> \in Seq([source : Hosts, length : Length])
      OBVIOUS
    <3>2. recv_queue_' = [recv_queue_ EXCEPT ![s] = <<>>]
      BY <1>5 DEF Delete
    <3>3. recv_queue_ \in [Sockets -> Seq([source : Hosts, length : Length])]
      BY DEF IInv, TypeOK
    <3> QED BY <3>1, <3>2, <3>3
  <2>3. /\ own' \in [Sockets -> {"none", "listening", "woken", "idle", "resolving"}]
        /\ \A t \in Sockets : own'[t] = "none" <=> t \notin Open'
    BY <1>5, <1>6 DEF IInv, TypeOK, Open
  <2>4. bitmap_' \subseteq Allocatable
    BY <1>5 DEF FreePort, IInv, TypeOK
  <2>5. sent' = sent /\ failed' = failed /\ listened' = listened
    BY <1>5
  <2> QED BY <1>6, <2>1, <2>5, <2>2, <2>3, <2>4 DEF IInv, TypeOK, Open
<1>9. SocketsSound'
  BY <1>6, <1>7 DEF IInv, SocketsSound
<1>10. ClaimedFirst'
  <2> SUFFICES ASSUME NEW i \in DOMAIN sockets_', NEW j \in DOMAIN sockets_', i < j,
                      in_port_'[sockets_'[i]] = in_port_'[sockets_'[j]],
                      listening_'[sockets_'[i]]
               PROVE  listening_'[sockets_'[j]]
    BY DEF ClaimedFirst
  <2> DEFINE from(n) == IF n < k THEN n ELSE n + 1
  <2>1. /\ from(i) \in DOMAIN sockets_ /\ from(j) \in DOMAIN sockets_ /\ from(i) < from(j)
        /\ sockets_'[i] = sockets_[from(i)] /\ sockets_'[j] = sockets_[from(j)]
    BY <1>1, <1>6
  <2>2. sockets_'[i] \in Open' /\ sockets_'[j] \in Open'
    BY DEF Open, ToSet
  <2> HIDE DEF from
  <2>3. /\ in_port_[sockets_[from(i)]] = in_port_[sockets_[from(j)]]
        /\ listening_[sockets_[from(i)]]
    BY <1>7, <2>1, <2>2
  <2>4. listening_[sockets_[from(j)]]
    BY <2>1, <2>3 DEF IInv, ClaimedFirst
  <2> QED BY <1>7, <2>1, <2>2, <2>4
<1>11. OnePerPeer'
  BY <1>6, <1>7 DEF IInv, OnePerPeer
<1>12. PortsAccounted' /\ FreeHolds'
  <2>1. /\ bitmap_' = bitmap_ \ {in_port_[s]}
        /\ \A t \in Connected' : in_port_'[t] = in_port_[t]
        /\ Connected' = Connected \ {s}
    BY <1>5, <1>6, <1>7 DEF FreePort, Connected
  <2>2. CASE s \in Connected
    <3>1. {in_port_'[t] : t \in Connected'} = {in_port_[t] : t \in Connected} \ {in_port_[s]}
      BY <2>1, <2>2 DEF IInv, PortsAccounted
    <3>2. in_port_[s] \notin listened
      BY <2>2 DEF IInv, PortsAccounted
    <3>3. bitmap_' = {in_port_'[t] : t \in Connected'} \cup listened'
      BY <1>5, <2>1, <3>1, <3>2 DEF IInv, PortsAccounted
    <3> QED BY <1>5, <2>1, <3>3 DEF IInv, PortsAccounted, FreeHolds
  <2>3. CASE s \notin Connected
    <3>1. in_port_[s] \notin bitmap_
      BY <1>2, <2>3 DEF IInv, TypeOK, Connected
    <3>2. {in_port_'[t] : t \in Connected'} = {in_port_[t] : t \in Connected}
      BY <2>1, <2>3
    <3>3. bitmap_' = {in_port_'[t] : t \in Connected'} \cup listened'
      BY <1>5, <2>1, <3>1, <3>2 DEF IInv, PortsAccounted
    <3> QED BY <1>5, <2>1, <3>3 DEF IInv, PortsAccounted, FreeHolds
  <2> QED BY <2>2, <2>3
<1> QED BY <1>8, <1>9, <1>10, <1>11, <1>12 DEF IInv

-----------------------------------------------------------------------------
(***************************************************************************)
(* The other calls, and the theorems.                                      *)
(***************************************************************************)

\* A call that only moves its coroutine, or takes a datagram.
LEMMA OtherCallsIInv ==
    ASSUME IInv, NEW s \in Sockets,
           ListenReturns(s) \/ Recv(s) \/ Send(s) \/ Resolved(s)
    PROVE  IInv'
<1>1. /\ UNCHANGED <<sockets_, socketVars, ports, failed>>
      /\ Open' = Open /\ Connected' = Connected
  BY DEF ListenReturns, Recv, Send, Resolved, Open, Connected, socketVars, ports
<1>2. /\ recv_queue_' \in [Sockets -> Seq([source : Hosts, length : Length])]
      /\ \A t \in Open : /\ recv_queue_[t] = <<>> => recv_queue_'[t] = <<>>
                         /\ \A i \in DOMAIN recv_queue_'[t] :
                                recv_queue_'[t][i].source = ip_[t]
  <2>1. recv_queue_ \in [Sockets -> Seq([source : Hosts, length : Length])]
    BY DEF IInv, TypeOK
  <2>2. CASE recv_queue_' = recv_queue_
    BY <2>1, <2>2 DEF IInv, SocketsSound
  <2>3. CASE Recv(s)
    <3>1. /\ recv_queue_[s] \in Seq([source : Hosts, length : Length])
          /\ recv_queue_[s] # <<>>
          /\ recv_queue_' = [recv_queue_ EXCEPT ![s] = Tail(recv_queue_[s])]
      BY <2>1, <2>3 DEF Recv
    <3>2. /\ Tail(recv_queue_[s]) \in Seq([source : Hosts, length : Length])
          /\ \A i \in DOMAIN Tail(recv_queue_[s]) :
                 /\ i + 1 \in DOMAIN recv_queue_[s]
                 /\ Tail(recv_queue_[s])[i] = recv_queue_[s][i + 1]
      BY <3>1
    <3>3. recv_queue_' \in [Sockets -> Seq([source : Hosts, length : Length])]
      BY <2>1, <3>1, <3>2
    <3>4. ASSUME NEW t \in Open
          PROVE  /\ recv_queue_[t] = <<>> => recv_queue_'[t] = <<>>
                 /\ \A i \in DOMAIN recv_queue_'[t] : recv_queue_'[t][i].source = ip_[t]
      <4>1. t \in Sockets
        BY OpenType DEF IInv
      <4>2. CASE t = s
        <5>1. recv_queue_'[t] = Tail(recv_queue_[s])
          BY <2>1, <3>1, <4>2
        <5> QED BY <3>1, <3>2, <4>2, <5>1 DEF IInv, SocketsSound
      <4>3. CASE t # s
        <5>1. recv_queue_'[t] = recv_queue_[t]
          BY <2>1, <3>1, <4>1, <4>3
        <5> QED BY <5>1 DEF IInv, SocketsSound
      <4> QED BY <4>2, <4>3
    <3> QED BY <3>3, <3>4
  <2> QED BY <2>2, <2>3 DEF ListenReturns, Send, Resolved
<1>3. /\ own' \in [Sockets -> {"none", "listening", "woken", "idle", "resolving"}]
      /\ \A t \in Sockets : own'[t] = "none" <=> own[t] = "none"
  BY DEF IInv, TypeOK, ListenReturns, Recv, Send, Resolved
<1>4. sent' \in [src_port : Port, ip : Hosts \cup {NoHost}, dest_port : Port]
  <2>1. CASE sent' = sent
    BY <2>1 DEF IInv, TypeOK
  <2>2. CASE Resolved(s)
    <3>1. in_port_[s] \in Port /\ out_port_[s] \in Port /\ ip_[s] \in Hosts \cup {NoHost}
      BY DEF IInv, TypeOK
    <3> QED BY <2>2, <3>1 DEF Resolved
  <2> QED BY <2>1, <2>2 DEF ListenReturns, Recv, Send
<1>5. TypeOK'
  BY <1>1, <1>2, <1>3, <1>4 DEF IInv, TypeOK, socketVars, ports
<1>6. SocketsSound'
  BY <1>1, <1>2 DEF IInv, SocketsSound, socketVars
<1>7. ClaimedFirst' /\ OnePerPeer' /\ FreeHolds'
  BY <1>1 DEF IInv, ClaimedFirst, OnePerPeer, FreeHolds, socketVars
<1>8. PortsAccounted'
  <2>1. UNCHANGED <<in_port_, bitmap_, listened>>
    BY <1>1 DEF socketVars, ports
  <2> QED BY <1>1, <2>1 DEF IInv, PortsAccounted
<1> QED BY <1>5, <1>6, <1>7, <1>8 DEF IInv

\* Every step keeps the invariant.
LEMMA NextIInv == IInv /\ [Next]_vars => IInv'
<1> SUFFICES ASSUME IInv, [Next]_vars PROVE IInv'
  OBVIOUS
<1>1. ASSUME NEW d \in Datagrams, PushPacket(d) PROVE IInv'
  BY <1>1, PushPacketIInv
<1>2. ASSUME NEW s \in Sockets, Calls(s) PROVE IInv'
  <2>1. ASSUME NEW port \in ListenPorts, Listen(s, port) PROVE IInv'
    BY <2>1, ListenIInv
  <2>2. ASSUME NEW ip \in Hosts, NEW port \in RemotePorts, Connect(s, ip, port) PROVE IInv'
    BY <2>2, ConnectIInv
  <2>3. CASE ListenReturns(s) \/ Recv(s) \/ Send(s) \/ Resolved(s)
    BY <2>3, OtherCallsIInv
  <2>4. CASE Close(s)
    BY <2>4, CloseIInv
  <2> QED BY <1>2, <2>1, <2>2, <2>3, <2>4 DEF Calls
<1>3. CASE UNCHANGED vars
  <2>1. UNCHANGED <<sockets_, in_port_, ip_, listening_, recv_queue_, bitmap_, listened>>
        /\ Open' = Open /\ Connected' = Connected
    BY <1>3 DEF vars, socketVars, ports, Open, Connected
  <2>2. TypeOK' /\ FreeHolds'
    BY <1>3 DEF IInv, TypeOK, FreeHolds, vars, socketVars, ports
  <2>3. SocketsSound'
    BY <2>1 DEF IInv, SocketsSound
  <2>4. ClaimedFirst' /\ OnePerPeer'
    BY <2>1 DEF IInv, ClaimedFirst, OnePerPeer
  <2>5. PortsAccounted'
    BY <2>1 DEF IInv, PortsAccounted
  <2> QED BY <2>2, <2>3, <2>4, <2>5 DEF IInv
<1> QED BY <1>1, <1>2, <1>3 DEF Next

\* The inductive invariant of the endpoint: sockets on a port with a peer come
\* before those that listen, and everything below (push_packet, listen, connect,
\* close).
THEOREM UdpInvariant == Spec => []IInv
BY InitIInv, NextIInv, PTL DEF Spec

\* The datagrams of one remote host to one of our ports all go to one socket,
\* which holds no others, whatever is opened and closed in between (push_packet).
THEOREM DatagramsGoToOneSocket == Spec => []OneSocketPerPeer
<1>1. IInv => OneSocketPerPeer
  BY DEF IInv, SocketsSound, OnePerPeer, OneSocketPerPeer
<1> QED BY <1>1, UdpInvariant, PTL

\* The allocator holds the ports of the connected sockets and those that listen()
\* took, and no other, for any range of ports (port_allocator).
THEOREM AllocatorAccounts == Spec => []PortsAccounted
<1>1. IInv => PortsAccounted
  BY DEF IInv
<1> QED BY <1>1, UdpInvariant, PTL

\* close() never frees a port that is not in use: the assertion of
\* port_allocator::free holds.
THEOREM FreeNeverFails == Spec => []FreeHolds
<1>1. IInv => FreeHolds
  BY DEF IInv
<1> QED BY <1>1, UdpInvariant, PTL
===============================================================================
