------------------------------ MODULE TcpProofs ------------------------------
(***************************************************************************)
(* Theorems about the endpoint of Tcp, for any set of sockets, ports,      *)
(* segments and responses, any modulus of the sequence numbers, and any    *)
(* network.                                                                *)
(***************************************************************************)
EXTENDS Tcp, Lemmas

(***************************************************************************)
(* Type correctness.                                                       *)
(***************************************************************************)

\* Plus stays a sequence number.
LEMMA PlusType ==
    ASSUME NEW a \in Nat, NEW n \in Nat
    PROVE  Plus(a, n) \in SeqNum
BY SeqSpaceAssumption DEF Plus, SeqNum

\* Handing a well-formed segment to the NIC keeps the queue well-formed.
LEMMA TransmitType ==
    ASSUME TypeOK, NEW t \in Sockets \cup {Dispatcher}, NEW seg \in Segment,
           Transmit(t, seg)
    PROVE  txq' \in Seq([by : Sockets \cup {Dispatcher}, seg : Segment])
BY DEF TypeOK, Transmit

\* The frames the socket builds are segments.
LEMMA ReplyType ==
    ASSUME NEW s \in Sockets,
           in_port_[s] \in Ports, out_port_'[s] \in RemotePorts, ip_'[s] \in Hosts,
           out_seq_'[s] \in SeqNum, in_seq_'[s] \in SeqNum
    PROVE  SynAck(s) \in Segment /\ Ack(s) \in Segment /\ FinAck(s) \in Segment
BY DEF SynAck, Ack, FinAck, Frame, Segment

\* Raising an event leaves the program counters well-formed.
LEMMA RaiseType ==
    ASSUME TypeOK, NEW s \in Sockets, NEW a \in OwnerPcs, NEW b \in OwnerPcs,
           Raise(s, a, b)
    PROVE  own' \in [Sockets -> OwnerPcs]
BY DEF TypeOK, Raise

USE DispatcherAssumption

LEMMA TypeInit == Init => TypeOK
<1> SUFFICES ASSUME Init PROVE TypeOK
  OBVIOUS
<1>1. 0 \in SeqNum
  BY SeqSpaceAssumption DEF SeqNum
<1>2. /\ (CHOOSE p \in Ports : TRUE) \in Ports
      /\ (CHOOSE p \in RemotePorts : TRUE) \in RemotePorts
      /\ (CHOOSE h \in Hosts : TRUE) \in Hosts
  BY AddressAssumption
<1> QED BY <1>1, <1>2 DEF Init, TypeOK, Idle, States, OwnerPcs, DispatcherPcs

\* The branches of process_packet, wherever they are entered from.
LEMMA TypeLastBranch ==
    ASSUME TypeOK, NEW s \in Sockets, NEW pkt \in Packets, LastBranch(s, pkt),
           recv_queue_' \in [Sockets -> Seq(Seq(Bytes))]
    PROVE  TypeOK'
<1>1. pkt.seq_num \in Nat /\ SeqNum \subseteq Nat
  BY PacketsAssumption, SeqSpaceAssumption DEF Segment, SeqNum
<1>2. CASE IsFinAck(s, pkt) /\ TakeFinAck(s, pkt)
  <2>1. Plus(pkt.seq_num, 1) \in SeqNum /\ Plus(out_seq_[s], 1) \in SeqNum
    BY <1>1, PlusType DEF TypeOK
  <2>2. /\ in_seq_' \in [Sockets -> SeqNum]
        /\ out_seq_' \in [Sockets -> SeqNum]
    BY <1>2, <2>1 DEF TypeOK, TakeFinAck
  <2>3. Ack(s) \in Segment
    <3>1. /\ in_port_[s] \in Ports
          /\ out_port_'[s] \in RemotePorts /\ ip_'[s] \in Hosts
          /\ out_seq_'[s] \in SeqNum /\ in_seq_'[s] \in SeqNum
      BY <1>2, <2>2 DEF TypeOK, TakeFinAck, address
    <3> QED BY <3>1, ReplyType
  <2>4. txq' \in Seq([by : Sockets \cup {Dispatcher}, seg : Segment])
    BY <1>2, <2>3, TransmitType DEF TakeFinAck
  <2> QED
    BY <1>2, <2>2, <2>4
    DEF TypeOK, TakeFinAck, Awaiting, DispatcherPcs, address, control
<1>3. CASE ~IsFinAck(s, pkt) /\ Return
           /\ UNCHANGED <<sockets_, address, control, numbers, cancel_closed_, own,
                          txq, failed>>
  BY <1>3 DEF TypeOK, Return, Idle, DispatcherPcs, address, control, numbers
<1> QED BY <1>2, <1>3 DEF LastBranch

LEMMA TypeLaterBranches ==
    ASSUME TypeOK, NEW s \in Sockets, NEW pkt \in Packets, LaterBranches(s, pkt),
           recv_queue_' \in [Sockets -> Seq(Seq(Bytes))]
    PROVE  TypeOK'
<1>1. /\ pkt.seq_num \in Nat /\ SeqNum \subseteq Nat
      /\ Len(pkt.payload) \in Nat
  BY PacketsAssumption, SeqSpaceAssumption DEF Segment, SeqNum
<1>2. CASE LastBranch(s, pkt)
  BY <1>2, TypeLastBranch
<1>3. CASE AssertAckFails
  BY <1>3 DEF TypeOK, AssertAckFails, address, control, numbers
<1>4. CASE TakeFin(s, pkt)
  <2>1. in_seq_' \in [Sockets -> SeqNum]
    BY <1>1, <1>4, PlusType DEF TypeOK, TakeFin
  <2>2. /\ in_port_[s] \in Ports
        /\ out_port_'[s] \in RemotePorts /\ ip_'[s] \in Hosts
        /\ out_seq_'[s] \in SeqNum /\ in_seq_'[s] \in SeqNum
    BY <1>4, <2>1 DEF TypeOK, TakeFin, address
  <2>3. FinAck(s) \in Segment
    BY <2>2, ReplyType
  <2>4. txq' \in Seq([by : Sockets \cup {Dispatcher}, seg : Segment])
    BY <1>4, <2>3, TransmitType DEF TakeFin
  <2> QED
    BY <1>4, <2>1, <2>4
    DEF TypeOK, TakeFin, AfterFinClosed, Awaiting, States, DispatcherPcs, address
<1>5. CASE TakeData(s, pkt)
  <2>1. in_seq_' \in [Sockets -> SeqNum]
    BY <1>1, <1>5, PlusType DEF TypeOK, TakeData
  <2>2. /\ in_port_[s] \in Ports
        /\ out_port_'[s] \in RemotePorts /\ ip_'[s] \in Hosts
        /\ out_seq_'[s] \in SeqNum /\ in_seq_'[s] \in SeqNum
    BY <1>5, <2>1 DEF TypeOK, TakeData, address
  <2>3. Ack(s) \in Segment
    BY <2>2, ReplyType
  <2>4. txq' \in Seq([by : Sockets \cup {Dispatcher}, seg : Segment])
    BY <1>5, <2>3, TransmitType DEF TakeData
  <2> QED
    BY <1>5, <2>1, <2>4
    DEF TypeOK, TakeData, Awaiting, DispatcherPcs, address, control
<1> QED BY <1>2, <1>3, <1>4, <1>5 DEF LaterBranches

LEMMA TypePushPacket ==
    ASSUME TypeOK, NEW pkt \in Packets, PushPacket(pkt)
    PROVE  TypeOK'
<1>1. CASE UNCHANGED vars
  BY <1>1 DEF TypeOK, vars, address, control, numbers
<1>2. ASSUME NEW i \in Candidates(pkt), ProcessPacket(sockets_[i], pkt),
             UNCHANGED recv_queue_
      PROVE  TypeOK'
  <2> DEFINE s == sockets_[i]
  <2>1. s \in Sockets
    BY <1>2 DEF TypeOK, Candidates
  <2> HIDE DEF s
  <2>2. recv_queue_' \in [Sockets -> Seq(Seq(Bytes))]
    BY <1>2 DEF TypeOK
  <2>3. ProcessPacket(s, pkt)
    BY <1>2 DEF s
  <2>4. CASE TakeAck(s)
    <3>1. own' \in [Sockets -> OwnerPcs]
      BY <2>1, <2>4, RaiseType DEF TypeOK, TakeAck, RaiseAfterAck, OwnerPcs
    <3> QED
      BY <2>1, <2>2, <2>4, <3>1
      DEF TypeOK, TakeAck, AdvanceOutSeq, Return, Idle, DispatcherPcs, States, address
  <2>5. CASE TakeSyn(s, pkt)
    <3>1. /\ pkt.seq_num \in Nat /\ SeqNum \subseteq Nat
          /\ pkt.ip \in Hosts /\ pkt.src_port \in RemotePorts
      BY PacketsAssumption, SeqSpaceAssumption DEF Segment, SeqNum
    <3>2. /\ in_seq_' \in [Sockets -> SeqNum]
          /\ next_out_seq_' \in [Sockets -> SeqNum]
      BY <2>1, <2>5, <3>1, PlusType DEF TypeOK, TakeSyn
    <3>3. /\ in_port_[s] \in Ports
          /\ out_port_'[s] \in RemotePorts /\ ip_'[s] \in Hosts
          /\ out_seq_'[s] \in SeqNum /\ in_seq_'[s] \in SeqNum
      BY <2>1, <2>5, <3>1, <3>2 DEF TypeOK, TakeSyn
    <3>4. SynAck(s) \in Segment
      BY <2>1, <3>3, ReplyType
    <3>5. txq' \in Seq([by : Sockets \cup {Dispatcher}, seg : Segment])
      BY <2>5, <3>4, TransmitType DEF TakeSyn
    <3> QED
      BY <2>1, <2>2, <2>5, <3>1, <3>2, <3>5
      DEF TypeOK, TakeSyn, Awaiting, States, DispatcherPcs
  <2>6. CASE LaterBranches(s, pkt)
    BY <2>1, <2>2, <2>6, TypeLaterBranches
  <2> QED BY <2>3, <2>4, <2>5, <2>6 DEF ProcessPacket
<1> QED BY <1>1, <1>2 DEF PushPacket

LEMMA TypeAfterReply == ASSUME TypeOK, AfterReply PROVE TypeOK'
<1>1. ASSUME disp.pc # "idle", disp.sock \in Sockets, disp.pkt \in Packets
      PROVE  TypeOK'
  <2>1. CASE AfterSynAck
    BY <1>1, <2>1, TypeLaterBranches DEF AfterSynAck, TypeOK
  <2>2. CASE AfterFinAck
    BY <1>1, <2>2, TypeLastBranch DEF AfterFinAck, TypeOK
  <2>3. CASE AfterDataAck
    <3>1. disp.pkt.payload \in Seq(Bytes)
      BY <1>1, PacketsAssumption DEF Segment
    <3>2. recv_queue_' \in [Sockets -> Seq(Seq(Bytes))]
      BY <1>1, <2>3, <3>1 DEF AfterDataAck, Emplaced, TypeOK
    <3> QED BY <1>1, <2>3, <3>2, TypeLastBranch DEF AfterDataAck
  <2>4. CASE AfterLastAck
    <3>1. own' \in [Sockets -> OwnerPcs]
      BY <1>1, <2>4, RaiseType DEF AfterLastAck, OwnerPcs
    <3> QED
      BY <1>1, <2>4, <3>1
      DEF TypeOK, AfterLastAck, Return, Idle, States, DispatcherPcs, address, numbers
  <2> QED BY <2>1, <2>2, <2>3, <2>4 DEF AfterReply
<1>2. disp # Idle
  BY DEF AfterReply, AfterSynAck, AfterFinAck, AfterDataAck, AfterLastAck, Resumed, Idle
<1> QED BY <1>1, <1>2 DEF TypeOK, DispatcherPcs

LEMMA TypeTxDone == ASSUME TypeOK, TxDone PROVE TypeOK'
<1>1. txq' \in Seq([by : Sockets \cup {Dispatcher}, seg : Segment])
  BY DEF TypeOK, TxDone
<1> QED BY <1>1 DEF TypeOK, TxDone, address, control, numbers

LEMMA TypeAllocate ==
    ASSUME TypeOK, NEW s \in Sockets, NEW p \in Ports, Allocate(s, p)
    PROVE  /\ sockets_' \in Seq(Sockets)
           /\ in_port_' \in [Sockets -> Ports]
           /\ state_' \in [Sockets -> States]
BY DEF TypeOK, Allocate, States

LEMMA TypeListen ==
    ASSUME TypeOK, NEW s \in Sockets, NEW p \in Ports, Listen(s, p)
    PROVE  TypeOK'
BY TypeAllocate DEF TypeOK, Listen, OwnerPcs, numbers

LEMMA TypeAccept ==
    ASSUME TypeOK, NEW s \in Sockets, Accept(s)
    PROVE  TypeOK'
<1>1. /\ sockets_' \in Seq(Sockets)
      /\ in_port_' \in [Sockets -> Ports]
      /\ state_' \in [Sockets -> States]
  <2>1. in_port_[s] \in Ports
    BY DEF TypeOK
  <2> QED BY <2>1, TypeAllocate DEF TypeOK, Accept
<1>2. own' \in [Sockets -> OwnerPcs]
  BY DEF TypeOK, Accept, OwnerPcs
<1> QED BY <1>1, <1>2 DEF TypeOK, Accept, numbers

LEMMA TypeSend ==
    ASSUME TypeOK, NEW s \in Sockets, NEW data \in Seq(Bytes), Send(s, data),
           recv_queue_' \in [Sockets -> Seq(Seq(Bytes))]
    PROVE  TypeOK'
<1>1. CASE out_seq_' = [out_seq_ EXCEPT ![s] = Plus(@, Len(data))]
           /\ state_[s] = "connected" /\ failed' = failed /\ ~cancel_closed_[s]
  <2>1. /\ out_seq_' \in [Sockets -> SeqNum]
        /\ next_out_seq_' \in [Sockets -> SeqNum]
    <3>1. SeqNum \subseteq Nat
      BY SeqSpaceAssumption DEF SeqNum
    <3>2. out_seq_[s] \in Nat /\ Len(data) \in Nat
      <4>1. out_seq_[s] \in SeqNum
        BY DEF TypeOK
      <4>2. out_seq_[s] \in Nat
        BY <3>1, <4>1
      <4>3. Len(data) \in Nat
        OBVIOUS
      <4> QED BY <4>2, <4>3
    <3>3. Plus(out_seq_[s], Len(data)) \in SeqNum
      BY <3>2, PlusType
    <3>4. next_out_seq_' = [next_out_seq_ EXCEPT ![s] = out_seq_'[s]]
      BY <1>1 DEF Send
    <3>5. out_seq_' \in [Sockets -> SeqNum]
      BY <1>1, <3>3 DEF TypeOK
    <3> QED BY <3>4, <3>5 DEF TypeOK
  <2>2. Frame(s, out_seq_[s], FALSE, FALSE, data) \in Segment
    BY <1>1 DEF TypeOK, Send, Frame, Segment, address
  <2>3. txq' \in Seq([by : Sockets \cup {Dispatcher}, seg : Segment])
    BY <1>1, <2>2, TransmitType DEF Send
  <2> QED BY <1>1, <2>1, <2>3 DEF TypeOK, Send, States, OwnerPcs, address
<1>2. CASE failed' = "assert_connected"
           /\ UNCHANGED <<sockets_, address, control, numbers, cancel_closed_, own,
                          disp, txq>>
  BY <1>2 DEF TypeOK, address, control, numbers
<1>3. CASE own' = [own EXCEPT ![s] = "loop"]
           /\ UNCHANGED <<sockets_, address, control, numbers, cancel_closed_, disp,
                          txq, failed>>
  BY <1>3 DEF TypeOK, address, control, numbers, OwnerPcs
<1> QED BY <1>1, <1>2, <1>3 DEF Send

LEMMA TypeDestroy ==
    ASSUME TypeOK, NEW s \in Sockets, Destroy(s),
           cancel_closed_' \in [Sockets -> BOOLEAN]
    PROVE  TypeOK'
<1>1. sockets_' \in Seq(Sockets)
  BY RemoveAtType DEF TypeOK, Destroy
<1> QED BY <1>1 DEF TypeOK, Destroy, OwnerPcs, address, control, numbers

LEMMA TypeClose ==
    ASSUME TypeOK, NEW s \in Sockets, Close(s)
    PROVE  TypeOK'
<1>1. cancel_closed_' \in [Sockets -> BOOLEAN]
  BY DEF TypeOK, Close
<1>2. CASE Transmit(s, FinAck(s))
           /\ state_' = [state_ EXCEPT ![s] = "want_fin_ack"]
           /\ own' = [own EXCEPT ![s] = "close_fin"]
           /\ UNCHANGED <<sockets_, address, next_state_, numbers, recv_queue_,
                          disp, failed>>
  <2>1. /\ in_port_[s] \in Ports
        /\ out_port_'[s] \in RemotePorts /\ ip_'[s] \in Hosts
        /\ out_seq_'[s] \in SeqNum /\ in_seq_'[s] \in SeqNum
    BY <1>2 DEF TypeOK, address, numbers
  <2>2. FinAck(s) \in Segment
    BY <2>1, ReplyType
  <2>3. txq' \in Seq([by : Sockets \cup {Dispatcher}, seg : Segment])
    BY <1>2, <2>2, TransmitType
  <2> QED BY <1>1, <1>2, <2>3 DEF TypeOK, States, OwnerPcs, address, numbers
<1>3. CASE own' = [own EXCEPT ![s] = "close_wait"]
           /\ UNCHANGED <<sockets_, address, control, numbers, recv_queue_, disp,
                          txq, failed>>
  BY <1>1, <1>3 DEF TypeOK, OwnerPcs, address, control, numbers
<1>4. CASE Destroy(s)
  BY <1>1, <1>4, TypeDestroy
<1> QED BY <1>2, <1>3, <1>4 DEF Close

LEMMA TypeWorker ==
    ASSUME TypeOK, NEW s \in Sockets, Worker(s)
    PROVE  TypeOK'
<1>1. CASE Accept(s)
  BY <1>1, TypeAccept
<1>2. CASE RecvWait(s) \/ Cancelled(s) \/ SendDone(s)
  BY <1>2 DEF TypeOK, RecvWait, Cancelled, SendDone, OwnerPcs, address, control, numbers
<1>3. ASSUME Take(s) PROVE recv_queue_' \in [Sockets -> Seq(Seq(Bytes))]
  BY <1>3 DEF TypeOK, Take
<1>4. CASE Ignore(s)
  BY <1>3, <1>4 DEF TypeOK, Ignore, OwnerPcs, address, control, numbers
<1>5. CASE Answer(s)
  BY <1>3, <1>5, TypeSend, ResponsesAssumption DEF Answer
<1>6. CASE Close(s)
  BY <1>6, TypeClose
<1>7. CASE FinSent(s)
  <2>1. CASE Destroy(s)
    BY <1>7, <2>1, TypeDestroy DEF FinSent, TypeOK
  <2>2. CASE ~Destroy(s)
    BY <1>7, <2>2 DEF TypeOK, FinSent, OwnerPcs, address, control, numbers
  <2> QED BY <2>1, <2>2
<1>8. CASE Closed(s)
  BY <1>8, TypeDestroy DEF Closed, TypeOK
<1> QED
  BY <1>1, <1>2, <1>4, <1>5, <1>6, <1>7, <1>8 DEF Worker

LEMMA TypeNext == TypeOK /\ [Next]_vars => TypeOK'
<1> SUFFICES ASSUME TypeOK, [Next]_vars PROVE TypeOK'
  OBVIOUS
<1>1. CASE UNCHANGED vars
  BY <1>1 DEF TypeOK, vars, address, control, numbers
<1>2. CASE Next
  BY <1>2, TypePushPacket, TypeAfterReply, TypeTxDone, TypeListen, TypeWorker DEF Next
<1> QED BY <1>1, <1>2

\* The endpoint's variables keep their types: every number is within its width,
\* every frame handed to the NIC is well formed.
THEOREM TypeCorrect == Spec => []TypeOK
<1> QED BY TypeInit, TypeNext, PTL DEF Spec

(***************************************************************************)
(* The actors agree: the inductive invariant.                              *)
(***************************************************************************)
LEMMA AgreeInit == Init => ActorsAgree
BY DEF Init, ActorsAgree, ListInv, OwnerInv, DispatcherInv, Working, Idle, Live

\* A step that changes nothing the invariant reads.
LEMMA AgreeStutter ==
    ASSUME ActorsAgree, UNCHANGED <<sockets_, control, cancel_closed_, own, disp>>
    PROVE  ActorsAgree'
BY DEF ActorsAgree, ListInv, OwnerInv, DispatcherInv, Working, Live, control

\* The branches that leave the owners alone and move the dispatcher.
LEMMA AgreeLastBranch ==
    ASSUME TypeOK, ActorsAgree, NEW s \in Sockets, NEW pkt \in Packets,
           own[s] \notin {"unborn", "deleted"}, LastBranch(s, pkt)
    PROVE  ActorsAgree'
<1>1. ListInv' /\ \A t \in Sockets : OwnerInv(t)'
  <2>1. UNCHANGED <<sockets_, control, cancel_closed_, own>>
    BY DEF LastBranch, TakeFinAck
  <2> QED BY <2>1 DEF ActorsAgree, ListInv, OwnerInv, Working, Live, control
<1>2. DispatcherInv'
  <2>1. CASE IsFinAck(s, pkt) /\ TakeFinAck(s, pkt)
    <3>1. /\ disp'.pc = "last_ack" /\ disp'.sock = s
          /\ state_'[s] = "want_fin_ack" /\ own' = own
      BY <2>1 DEF IsFinAck, TakeFinAck, Awaiting, control
    <3>2. own[s] \in {"close_fin", "close_wait"}
      BY <2>1 DEF IsFinAck, ActorsAgree, OwnerInv, TypeOK, OwnerPcs, Working
    <3> QED BY <3>1, <3>2 DEF DispatcherInv
  <2>2. CASE disp' = Idle
    BY <2>2 DEF DispatcherInv, Idle
  <2> QED BY <2>1, <2>2 DEF LastBranch, Return
<1> QED BY <1>1, <1>2 DEF ActorsAgree

LEMMA AgreeLaterBranches ==
    ASSUME TypeOK, ActorsAgree, NEW s \in Sockets, NEW pkt \in Packets,
           own[s] \notin {"unborn", "deleted"}, LaterBranches(s, pkt)
    PROVE  ActorsAgree'
<1>1. CASE LastBranch(s, pkt)
  BY <1>1, AgreeLastBranch
<1>2. CASE AssertAckFails
  BY <1>2, AgreeStutter DEF AssertAckFails
<1>3. (own[s] \in Working /\ state_[s] = "connected") \/ LastBranch(s, pkt)
  BY DEF LaterBranches, ActorsAgree, OwnerInv, TypeOK, OwnerPcs, Working
<1>4. CASE own[s] \in Working /\ state_[s] = "connected" /\ TakeFin(s, pkt)
  <2>1. /\ own' = own /\ sockets_' = sockets_ /\ cancel_closed_' = cancel_closed_
        /\ state_' = [state_ EXCEPT ![s] = "want_ack"]
        /\ next_state_' = [next_state_ EXCEPT ![s] = "closed"]
        /\ disp'.pc = "fin_ack" /\ disp'.sock = s
    BY <1>4 DEF TakeFin, AfterFinClosed, Awaiting
  <2>2. ListInv'
    BY <2>1 DEF ActorsAgree, ListInv, Live
  <2>3. \A t \in Sockets : OwnerInv(t)'
    BY <1>4, <2>1 DEF ActorsAgree, OwnerInv, Working, TypeOK
  <2>4. DispatcherInv'
    BY <1>4, <2>1 DEF DispatcherInv, TypeOK
  <2> QED BY <2>2, <2>3, <2>4 DEF ActorsAgree
<1>5. CASE own[s] \in Working /\ state_[s] = "connected" /\ ~pkt.fin /\ TakeData(s, pkt)
  <2>1. /\ UNCHANGED <<sockets_, control, cancel_closed_, own>>
        /\ disp'.pc = "data_ack" /\ disp'.sock = s /\ disp'.pkt = pkt
    BY <1>5 DEF TakeData, Awaiting
  <2>2. ListInv' /\ \A t \in Sockets : OwnerInv(t)'
    BY <2>1 DEF ActorsAgree, ListInv, OwnerInv, Working, Live, control
  <2>3. DispatcherInv'
    BY <1>5, <2>1 DEF DispatcherInv, control
  <2> QED BY <2>2, <2>3 DEF ActorsAgree
<1> QED BY <1>1, <1>2, <1>3, <1>4, <1>5 DEF LaterBranches

LEMMA AgreePushPacket ==
    ASSUME TypeOK, ActorsAgree, NEW pkt \in Packets, PushPacket(pkt)
    PROVE  ActorsAgree'
<1>1. CASE UNCHANGED vars
  BY <1>1, AgreeStutter DEF vars
<1>2. ASSUME NEW i \in Candidates(pkt), ProcessPacket(sockets_[i], pkt),
             disp.pc = "idle"
      PROVE  ActorsAgree'
  <2> DEFINE s == sockets_[i]
  <2>1. s \in Sockets /\ own[s] \notin {"unborn", "deleted"}
    BY <1>2 DEF TypeOK, Candidates, ActorsAgree, ListInv, Live
  <2> HIDE DEF s
  <2>2. ProcessPacket(s, pkt)
    BY <1>2 DEF s
  <2>3. CASE IsAwaitedAck(s, pkt) /\ TakeAck(s)
    <3>1. /\ sockets_' = sockets_ /\ disp' = Idle
          /\ state_' = [state_ EXCEPT ![s] = next_state_[s]]
          /\ next_state_' = [next_state_ EXCEPT ![s] = "none"]
          /\ cancel_closed_' =
                 [cancel_closed_ EXCEPT ![s] = @ \/ next_state_[s] = "closed"]
      BY <2>3 DEF TakeAck, Return
    <3>2. state_[s] = "want_ack" /\ next_state_[s] \in {"connected", "closed"}
      BY <2>1, <2>3
      DEF IsAwaitedAck, ActorsAgree, OwnerInv, Working, TypeOK, OwnerPcs
    <3>3. CASE next_state_[s] = "connected"
      <4>1. own' = [own EXCEPT ![s] = IF @ = "listen" THEN "notified" ELSE @]
        BY <2>3, <3>3 DEF TakeAck, RaiseAfterAck, Raise
      <4>2. ListInv'
        BY <2>1, <3>1, <4>1 DEF ActorsAgree, ListInv, Live, TypeOK
      <4>3. \A t \in Sockets : OwnerInv(t)'
        BY <2>1, <3>1, <3>2, <3>3, <4>1 DEF ActorsAgree, OwnerInv, Working, TypeOK
      <4> QED BY <3>1, <4>2, <4>3 DEF ActorsAgree, DispatcherInv, Idle
    <3>4. CASE next_state_[s] = "closed"
      <4>1. own' = [own EXCEPT ![s] = IF @ = "close_wait" THEN "close_woken" ELSE @]
        BY <2>3, <3>4 DEF TakeAck, RaiseAfterAck, Raise
      <4>2. ListInv'
        BY <2>1, <3>1, <4>1 DEF ActorsAgree, ListInv, Live, TypeOK
      <4>3. \A t \in Sockets : OwnerInv(t)'
        BY <2>1, <3>1, <3>2, <3>4, <4>1 DEF ActorsAgree, OwnerInv, Working, TypeOK
      <4> QED BY <3>1, <4>2, <4>3 DEF ActorsAgree, DispatcherInv, Idle
    <3> QED BY <3>2, <3>3, <3>4
  <2>4. CASE IsSyn(s, pkt) /\ TakeSyn(s, pkt)
    <3>1. /\ own' = own /\ sockets_' = sockets_ /\ cancel_closed_' = cancel_closed_
          /\ state_' = [state_ EXCEPT ![s] = "want_ack"]
          /\ next_state_' = [next_state_ EXCEPT ![s] = "connected"]
          /\ disp'.pc = "syn_ack" /\ disp'.sock = s
      BY <2>4 DEF TakeSyn, Awaiting
    <3>2. own[s] = "listen"
      BY <2>1, <2>4 DEF IsSyn, ActorsAgree, OwnerInv, Working, TypeOK, OwnerPcs
    <3>3. ListInv'
      BY <3>1 DEF ActorsAgree, ListInv, Live
    <3>4. \A t \in Sockets : OwnerInv(t)'
      BY <2>1, <3>1, <3>2 DEF ActorsAgree, OwnerInv, Working, TypeOK
    <3> QED BY <2>1, <3>1, <3>2, <3>3, <3>4 DEF ActorsAgree, DispatcherInv, TypeOK
  <2>5. CASE LaterBranches(s, pkt)
    BY <2>1, <2>5, AgreeLaterBranches
  <2> QED BY <2>2, <2>3, <2>4, <2>5 DEF ProcessPacket
<1> QED BY <1>1, <1>2 DEF PushPacket

LEMMA AgreeAfterReply == ASSUME TypeOK, ActorsAgree, AfterReply PROVE ActorsAgree'
<1> DEFINE s == disp.sock
<1>1. /\ disp.pc # "idle"
      /\ s \in Sockets /\ disp.pkt \in Packets
      /\ own[s] \notin {"unborn", "deleted"}
  BY DEF AfterReply, AfterSynAck, AfterFinAck, AfterDataAck, AfterLastAck, Resumed,
         ActorsAgree, DispatcherInv, TypeOK, Idle, DispatcherPcs, Working
<1> HIDE DEF s
<1>2. CASE AfterSynAck
  BY <1>1, <1>2, AgreeLaterBranches DEF AfterSynAck, s
<1>3. CASE AfterFinAck \/ AfterDataAck
  BY <1>1, <1>3, AgreeLastBranch DEF AfterFinAck, AfterDataAck, s
<1>4. CASE AfterLastAck
  <2>1. /\ sockets_' = sockets_ /\ disp' = Idle /\ next_state_' = next_state_
        /\ cancel_closed_' = cancel_closed_
        /\ state_' = [state_ EXCEPT ![s] = "closed"]
        /\ own' = [own EXCEPT ![s] = IF @ = "close_wait" THEN "close_woken" ELSE @]
    BY <1>4 DEF AfterLastAck, Return, Raise, s
  <2>2. own[s] \in {"close_fin", "close_wait"}
    BY <1>4 DEF AfterLastAck, Resumed, ActorsAgree, DispatcherInv, s
  <2>3. ListInv'
    BY <1>1, <2>1, <2>2 DEF ActorsAgree, ListInv, Live, TypeOK
  <2>4. \A t \in Sockets : OwnerInv(t)'
    BY <1>1, <2>1, <2>2 DEF ActorsAgree, OwnerInv, Working, TypeOK
  <2> QED BY <2>1, <2>3, <2>4 DEF ActorsAgree, DispatcherInv, Idle
<1> QED BY <1>2, <1>3, <1>4 DEF AfterReply

\* A new socket joins the list.
LEMMA AgreeAllocate ==
    ASSUME TypeOK, ActorsAgree, NEW s \in Sockets, NEW p \in Ports, Allocate(s, p),
           own[s] = "unborn",
           own' \in [Sockets -> OwnerPcs], own'[s] = "listen",
           \A t \in Sockets : own'[t] = own[t] \/ t = s
                              \/ (own[t] = "notified" /\ own'[t] = "loop"),
           UNCHANGED <<next_state_, cancel_closed_, disp>>
    PROVE  ActorsAgree'
<1>1. /\ sockets_' = Append(sockets_, s)
      /\ state_' = [state_ EXCEPT ![s] = "want_syn"]
  BY DEF Allocate
<1>2. ListInv'
  <2>1. /\ DOMAIN sockets_' = 1 .. Len(sockets_) + 1
        /\ DOMAIN sockets_ = 1 .. Len(sockets_)
        /\ Len(sockets_) \in Nat
        /\ sockets_'[Len(sockets_) + 1] = s
        /\ \A i \in DOMAIN sockets_ : sockets_'[i] = sockets_[i] /\ sockets_[i] \in Sockets
    BY <1>1 DEF TypeOK
  <2>2. \A i \in DOMAIN sockets_ : sockets_[i] # s /\ Live(sockets_[i])
    BY DEF ActorsAgree, ListInv, Live
  <2>3. \A i \in DOMAIN sockets_' : i \in DOMAIN sockets_ \/ i = Len(sockets_) + 1
    BY <2>1
  <2>4. \A i \in DOMAIN sockets_' : own'[sockets_'[i]] \notin {"unborn", "deleted"}
    <3>1. \A i \in DOMAIN sockets_ :
              own'[sockets_'[i]] \notin {"unborn", "deleted"}
      BY <2>1, <2>2 DEF Live
    <3>2. own'[sockets_'[Len(sockets_) + 1]] \notin {"unborn", "deleted"}
      BY <2>1
    <3> QED BY <2>3, <3>1, <3>2
  <2>5. \A i, j \in DOMAIN sockets_' : sockets_'[i] = sockets_'[j] => i = j
    BY <2>1, <2>2, <2>3 DEF ActorsAgree, ListInv
  <2> QED BY <2>4, <2>5 DEF ListInv, Live
<1>3. \A t \in Sockets : OwnerInv(t)'
  BY <1>1 DEF ActorsAgree, OwnerInv, Working, TypeOK
<1>4. DispatcherInv'
  <2>1. CASE disp.pc = "idle"
    BY <2>1 DEF DispatcherInv
  <2>2. CASE disp.pc # "idle"
    <3>1. disp.sock \in Sockets /\ own[disp.sock] # "unborn"
      BY <2>2 DEF TypeOK, Idle, ActorsAgree, DispatcherInv, Working, DispatcherPcs
    <3>2. state_'[disp.sock] = state_[disp.sock]
      BY <1>1, <3>1 DEF TypeOK
    <3> QED
      BY <3>1, <3>2 DEF ActorsAgree, DispatcherInv, Working
  <2> QED BY <2>1, <2>2
<1> QED BY <1>2, <1>3, <1>4 DEF ActorsAgree

\* The owner of s moves on between two points of its work.
LEMMA AgreeOwnerMoves ==
    ASSUME TypeOK, ActorsAgree, NEW s \in Sockets, NEW pc \in Working,
           own[s] \in Working, own' = [own EXCEPT ![s] = pc],
           UNCHANGED <<sockets_, control, cancel_closed_, disp>>
    PROVE  ActorsAgree'
<1>1. ListInv'
  BY DEF ActorsAgree, ListInv, Live, Working, TypeOK
<1>2. \A t \in Sockets : OwnerInv(t)'
  BY DEF ActorsAgree, OwnerInv, Working, TypeOK, control
<1>3. DispatcherInv'
  BY DEF ActorsAgree, DispatcherInv, Working, TypeOK, Idle, control
<1> QED BY <1>1, <1>2, <1>3 DEF ActorsAgree

LEMMA AgreeAccept ==
    ASSUME TypeOK, ActorsAgree, NEW s \in Sockets, Accept(s)
    PROVE  ActorsAgree'
<1>1. own[s] = "notified" /\ in_port_[s] \in Ports
  BY DEF Accept, TypeOK
<1>2. ASSUME NEW t \in Sockets, own[t] = "unborn", Allocate(t, in_port_[s]),
             own' = [own EXCEPT ![s] = "loop", ![t] = "listen"],
             UNCHANGED <<next_state_, cancel_closed_, disp>>
      PROVE  ActorsAgree'
  <2>1. own' \in [Sockets -> OwnerPcs] /\ own'[t] = "listen"
    BY <1>1, <1>2 DEF TypeOK, OwnerPcs
  <2>2. \A u \in Sockets : own'[u] = own[u] \/ u = t
                           \/ (own[u] = "notified" /\ own'[u] = "loop")
    BY <1>1, <1>2 DEF TypeOK
  <2> QED BY <1>1, <1>2, <2>1, <2>2, AgreeAllocate
<1>3. CASE own' = [own EXCEPT ![s] = "loop"]
           /\ UNCHANGED <<sockets_, control, cancel_closed_, disp>>
  BY <1>1, <1>3, AgreeOwnerMoves DEF Working
<1> QED BY <1>2, <1>3 DEF Accept, control

\* `delete this` of a socket that is closed: no other coroutine is at it.
LEMMA AgreeDestroy ==
    ASSUME TypeOK, ActorsAgree, NEW s \in Sockets, Destroy(s),
           state_[s] = "closed",
           \A t \in Sockets : t # s => cancel_closed_'[t] = cancel_closed_[t]
    PROVE  ActorsAgree'
<1>1. /\ own' = [own EXCEPT ![s] = "deleted"] /\ disp' = disp
      /\ state_' = state_ /\ next_state_' = next_state_
  BY DEF Destroy, control
<1>2. PICK i \in DOMAIN sockets_ : sockets_[i] = s /\ sockets_' = RemoveAt(sockets_, i)
  BY DEF Destroy
<1>3. ListInv'
  <2>1. /\ DOMAIN sockets_' = 1 .. Len(sockets_) - 1
        /\ \A j \in 1 .. Len(sockets_) - 1 :
               sockets_'[j] = IF j < i THEN sockets_[j] ELSE sockets_[j + 1]
    <3>1. sockets_ \in Seq(Sockets)
      BY DEF TypeOK
    <3>2. /\ DOMAIN RemoveAt(sockets_, i) = 1 .. Len(sockets_) - 1
          /\ \A j \in 1 .. Len(sockets_) - 1 :
                 RemoveAt(sockets_, i)[j] =
                     IF j < i THEN sockets_[j] ELSE sockets_[j + 1]
      BY <3>1, RemoveAtType
    <3> QED BY <1>2, <3>2
  <2>2. DOMAIN sockets_ = 1 .. Len(sockets_) /\ Len(sockets_) \in Nat
    BY DEF TypeOK
  <2>3. \A j, k \in DOMAIN sockets_ : sockets_[j] = sockets_[k] => j = k
    BY DEF ActorsAgree, ListInv
  <2>4. \A j \in DOMAIN sockets_' :
            \E k \in DOMAIN sockets_ : k # i /\ sockets_'[j] = sockets_[k]
    BY <2>1, <2>2
  <2>5. \A j \in DOMAIN sockets_' :
            sockets_'[j] # s /\ own[sockets_'[j]] \notin {"unborn", "deleted"}
    BY <1>2, <2>3, <2>4 DEF ActorsAgree, ListInv, Live
  <2>6. \A j, k \in DOMAIN sockets_' : sockets_'[j] = sockets_'[k] => j = k
    <3> SUFFICES ASSUME NEW j \in DOMAIN sockets_', NEW k \in DOMAIN sockets_',
                        sockets_'[j] = sockets_'[k]
                 PROVE  j = k
      OBVIOUS
    <3> DEFINE from(n) == IF n < i THEN n ELSE n + 1
    <3>1. /\ j \in Nat /\ k \in Nat /\ i \in Nat
          /\ from(j) \in DOMAIN sockets_ /\ from(k) \in DOMAIN sockets_
      BY <2>1, <2>2
    <3>2. sockets_[from(j)] = sockets_[from(k)]
      BY <2>1
    <3>3. from(j) = from(k)
      BY <2>3, <3>1, <3>2
    <3> QED BY <3>1, <3>3
  <2>7. \A j \in DOMAIN sockets_' : own'[sockets_'[j]] \notin {"unborn", "deleted"}
    BY <1>1, <2>5 DEF TypeOK
  <2> QED BY <2>6, <2>7 DEF ListInv, Live
<1>4. \A t \in Sockets : OwnerInv(t)'
  BY <1>1 DEF ActorsAgree, OwnerInv, Working, TypeOK
<1>5. DispatcherInv'
  <2>1. CASE disp.pc = "idle"
    BY <1>1, <2>1 DEF DispatcherInv
  <2>2. CASE disp.pc # "idle"
    <3>1. disp.sock \in Sockets /\ disp.sock # s
      BY <2>2 DEF TypeOK, Idle, ActorsAgree, DispatcherInv, DispatcherPcs
    <3> QED BY <1>1, <3>1 DEF ActorsAgree, DispatcherInv, TypeOK
  <2> QED BY <2>1, <2>2
<1> QED BY <1>3, <1>4, <1>5 DEF ActorsAgree

LEMMA AgreeSend ==
    ASSUME TypeOK, ActorsAgree, NEW s \in Sockets, NEW data \in Seq(Bytes),
           own[s] \in Working, Send(s, data)
    PROVE  ActorsAgree'
<1>1. CASE own' = [own EXCEPT ![s] = "loop"]
           /\ UNCHANGED <<sockets_, control, cancel_closed_, disp>>
  BY <1>1, AgreeOwnerMoves DEF Working
<1>2. CASE UNCHANGED <<sockets_, control, cancel_closed_, own, disp>>
  BY <1>2, AgreeStutter
<1>3. CASE /\ state_[s] = "connected"
           /\ next_state_' = [next_state_ EXCEPT ![s] = "connected"]
           /\ state_' = [state_ EXCEPT ![s] = "want_ack"]
           /\ own' = [own EXCEPT ![s] = "send"]
           /\ UNCHANGED <<sockets_, cancel_closed_, disp>>
  <2>1. ListInv'
    BY <1>3 DEF ActorsAgree, ListInv, Live, Working, TypeOK
  <2>2. \A t \in Sockets : OwnerInv(t)'
    BY <1>3 DEF ActorsAgree, OwnerInv, Working, TypeOK
  <2>3. DispatcherInv'
    BY <1>3 DEF ActorsAgree, DispatcherInv, Working, TypeOK, Idle
  <2> QED BY <2>1, <2>2, <2>3 DEF ActorsAgree
<1> QED BY <1>1, <1>2, <1>3 DEF Send

\* close() up to its first suspension.
LEMMA AgreeClose ==
    ASSUME TypeOK, ActorsAgree, NEW s \in Sockets, Close(s)
    PROVE  ActorsAgree'
<1>1. /\ own[s] = "loop"
      /\ cancel_closed_' = [cancel_closed_ EXCEPT ![s] = TRUE]
  BY DEF Close
<1>2. CASE /\ ClosesActively(s)
           /\ state_' = [state_ EXCEPT ![s] = "want_fin_ack"]
           /\ own' = [own EXCEPT ![s] = "close_fin"]
           /\ UNCHANGED <<sockets_, next_state_, disp>>
  <2>1. ListInv'
    BY <1>1, <1>2 DEF ActorsAgree, ListInv, Live, TypeOK
  <2>2. \A t \in Sockets : OwnerInv(t)'
    BY <1>1, <1>2 DEF ActorsAgree, OwnerInv, Working, TypeOK
  <2>3. DispatcherInv'
    BY <1>1, <1>2
    DEF ActorsAgree, DispatcherInv, Working, TypeOK, Idle, ClosesActively
  <2> QED BY <2>1, <2>2, <2>3 DEF ActorsAgree
<1>3. CASE /\ state_[s] = "want_ack" /\ next_state_[s] = "closed"
           /\ own' = [own EXCEPT ![s] = "close_wait"]
           /\ UNCHANGED <<sockets_, control, disp>>
  <2>1. ListInv'
    BY <1>1, <1>3 DEF ActorsAgree, ListInv, Live, TypeOK
  <2>2. \A t \in Sockets : OwnerInv(t)'
    BY <1>1, <1>3 DEF ActorsAgree, OwnerInv, Working, TypeOK, control
  <2>3. DispatcherInv'
    BY <1>1, <1>3 DEF ActorsAgree, DispatcherInv, Working, TypeOK, Idle, control
  <2> QED BY <2>1, <2>2, <2>3 DEF ActorsAgree
<1>4. CASE state_[s] = "closed" /\ Destroy(s)
  <2>1. \A t \in Sockets : t # s => cancel_closed_'[t] = cancel_closed_[t]
    BY <1>1 DEF TypeOK
  <2> QED BY <1>4, <2>1, AgreeDestroy
<1> QED BY <1>2, <1>3, <1>4 DEF Close

LEMMA AgreeWorker ==
    ASSUME TypeOK, ActorsAgree, NEW s \in Sockets, Worker(s)
    PROVE  ActorsAgree'
<1>1. CASE Accept(s)
  BY <1>1, AgreeAccept
<1>2. CASE RecvWait(s)
  BY <1>2, AgreeOwnerMoves DEF RecvWait, Working
<1>3. CASE Cancelled(s) \/ SendDone(s)
  BY <1>3, AgreeOwnerMoves DEF Cancelled, SendDone, Working
<1>4. CASE Ignore(s)
  BY <1>4, AgreeOwnerMoves DEF Ignore, Take, Working
<1>5. CASE Answer(s)
  BY <1>5, AgreeSend, ResponsesAssumption DEF Answer, Take, Working
<1>6. CASE Close(s)
  BY <1>6, AgreeClose
<1>7. CASE FinSent(s)
  <2>1. own[s] = "close_fin" /\ cancel_closed_' = cancel_closed_
    BY <1>7 DEF FinSent
  <2>2. CASE state_[s] = "closed" /\ Destroy(s)
    BY <2>1, <2>2, AgreeDestroy
  <2>3. CASE /\ state_[s] # "closed"
             /\ own' = [own EXCEPT ![s] = "close_wait"]
             /\ UNCHANGED <<sockets_, control, disp>>
    <3>1. ListInv'
      BY <2>1, <2>3 DEF ActorsAgree, ListInv, Live, TypeOK
    <3>2. \A t \in Sockets : OwnerInv(t)'
      BY <2>1, <2>3 DEF ActorsAgree, OwnerInv, Working, TypeOK, control
    <3>3. DispatcherInv'
      BY <2>1, <2>3 DEF ActorsAgree, DispatcherInv, Working, TypeOK, Idle, control
    <3> QED BY <3>1, <3>2, <3>3 DEF ActorsAgree
  <2> QED BY <1>7, <2>2, <2>3 DEF FinSent, StillOpen
<1>8. CASE Closed(s)
  <2>1. state_[s] = "closed"
    BY <1>8 DEF Closed, ActorsAgree, OwnerInv
  <2> QED BY <1>8, <2>1, AgreeDestroy DEF Closed
<1> QED BY <1>1, <1>2, <1>3, <1>4, <1>5, <1>6, <1>7, <1>8 DEF Worker

LEMMA AgreeNext == TypeOK /\ ActorsAgree /\ [Next]_vars => ActorsAgree'
<1> SUFFICES ASSUME TypeOK, ActorsAgree, [Next]_vars PROVE ActorsAgree'
  OBVIOUS
<1>1. CASE UNCHANGED vars
  BY <1>1, AgreeStutter DEF vars
<1>2. ASSUME NEW pkt \in Packets, PushPacket(pkt) PROVE ActorsAgree'
  BY <1>2, AgreePushPacket
<1>3. CASE AfterReply
  BY <1>3, AgreeAfterReply
<1>4. CASE TxDone
  BY <1>4, AgreeStutter DEF TxDone
<1>5. ASSUME NEW s \in Sockets, NEW p \in Ports, Listen(s, p) PROVE ActorsAgree'
  <2>1. /\ own[s] = "unborn" /\ Allocate(s, p)
        /\ own' = [own EXCEPT ![s] = "listen"]
        /\ UNCHANGED <<next_state_, cancel_closed_, disp>>
    BY <1>5 DEF Listen
  <2>2. /\ own' \in [Sockets -> OwnerPcs] /\ own'[s] = "listen"
        /\ \A t \in Sockets : own'[t] = own[t] \/ t = s
    BY <2>1 DEF TypeOK, OwnerPcs
  <2> QED BY <2>1, <2>2, AgreeAllocate
<1>6. ASSUME NEW s \in Sockets, Worker(s) PROVE ActorsAgree'
  BY <1>6, AgreeWorker
<1> QED BY <1>1, <1>2, <1>3, <1>4, <1>5, <1>6 DEF Next

\* The owner of a socket, its state and the dispatcher agree at every step.
THEOREM ActorsAlwaysAgree == Spec => []ActorsAgree
<1> QED BY TypeInit, TypeNext, AgreeInit, AgreeNext, PTL DEF Spec

\* No coroutine touches a socket after `delete this`: whatever arrives and in
\* whatever order the owner and the dispatcher run, process_packet resumes on a
\* live socket and push_packet walks a list of live sockets.
THEOREM MemorySafety == Spec => []NoUseAfterFree
<1>1. TypeOK /\ ActorsAgree => NoUseAfterFree
  BY DEF TypeOK, ActorsAgree, ListInv, DispatcherInv, NoUseAfterFree, Live, Working,
         Idle, DispatcherPcs
<1> QED BY <1>1, TypeCorrect, ActorsAlwaysAgree, PTL

\* A segment is handled by one branch of process_packet only.
THEOREM SingleBranch == Spec => []OneBranchPerPacket
<1>1. TypeOK /\ ActorsAgree => OneBranchPerPacket
  BY DEF ActorsAgree, DispatcherInv, OneBranchPerPacket, IsFinAck
<1> QED BY <1>1, TypeCorrect, ActorsAlwaysAgree, PTL

\* A coroutine suspended on closed_, notify_ or recv_queue_ has not missed the
\* wakeup it waits for.
THEOREM WakeupsArrive == Spec => []NoLostWakeup
<1>1. TypeOK /\ ActorsAgree => NoLostWakeup
  BY DEF TypeOK, ActorsAgree, OwnerInv, NoLostWakeup, Working
<1> QED BY <1>1, TypeCorrect, ActorsAlwaysAgree, PTL

\* A worker never reaches the branch of close() that waits for a connection.
THEOREM CloseBranches == Spec => []CloseStates
<1>1. TypeOK /\ ActorsAgree => CloseStates
  BY DEF TypeOK, ActorsAgree, OwnerInv, CloseStates, ClosesActively, Working
<1> QED BY <1>1, TypeCorrect, ActorsAlwaysAgree, PTL
=============================================================================
