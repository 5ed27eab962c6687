------------------------------ MODULE ArpProofs ------------------------------
(***************************************************************************)
(* Theorems about Arp, for any calls, hosts and hardware addresses and any *)
(* number of queries, losses and repetitions.                              *)
(***************************************************************************)
EXTENDS Arp, Lemmas

(***************************************************************************)
(* The inductive invariant.                                                *)
(***************************************************************************)

\* The address of a resolved route is one that its host has given
\* (push_packet).
ResolvedIsAnAnswer ==
    \A i \in DOMAIN routes_ : routes_[i].resolved_ =>
        \E f \in answers : f.sender_ip = routes_[i].ip_ /\ f.sender_mac = routes_[i].mac_

\* The queries of a host for our address that have not been dispatched.
Queries(h) == {i \in DOMAIN inbox : ForUs(inbox[i]) /\ inbox[i].sender_ip = h}

\* Every query for our address is still to be dispatched, being replied to or
\* has its reply (push_packet, submit_reply_for).
QueriesCounted ==
    \A h \in Hosts :
        asked[h] = replied[h] + Cardinality(Queries(h)) + (IF disp = h THEN 1 ELSE 0)

IInv ==
    /\ TypeOK
    /\ OneRoutePerHost /\ ResolvedIsAnAnswer /\ ResultIsAnAnswer
    /\ QueriesCounted

LEMMA InitIInv == Init => IInv
<1> SUFFICES ASSUME Init PROVE IInv
  OBVIOUS
<1>1. TypeOK
  BY ArpAssumption DEF Init, TypeOK
<1>2. OneRoutePerHost /\ ResolvedIsAnAnswer /\ ResultIsAnAnswer
  BY DEF Init, OneRoutePerHost, ResolvedIsAnAnswer, ResultIsAnAnswer
<1>3. \A h \in Hosts : Queries(h) = {} /\ disp # h
  BY ArpAssumption DEF Init, Queries
<1>4. QueriesCounted
  BY <1>3, FS_EmptySet DEF QueriesCounted, Init
<1> QED BY <1>1, <1>2, <1>4 DEF IInv

-----------------------------------------------------------------------------
(***************************************************************************)
(* Counting queries.                                                       *)
(***************************************************************************)

\* There are finitely many, at most as many as were sent.
LEMMA QueriesFinite ==
    ASSUME IInv, NEW h \in Hosts
    PROVE  /\ IsFiniteSet(Queries(h)) /\ Cardinality(Queries(h)) \in Nat
           /\ replied[h] \in Nat /\ asked[h] \in Nat /\ asked[h] <= MaxQueries
<1>1. inbox \in Seq(Reply \cup Request)
  BY DEF IInv, TypeOK
<1>2. IsFiniteSet(1 .. Len(inbox)) /\ DOMAIN inbox = 1 .. Len(inbox)
  BY <1>1, FS_Interval
<1>3. Queries(h) \in SUBSET (1 .. Len(inbox))
  BY <1>2 DEF Queries
<1>4. IsFiniteSet(Queries(h))
  BY <1>2, <1>3, FS_Subset
<1>5. Cardinality(Queries(h)) \in Nat
  BY <1>4, FS_CardinalityType
<1>6. replied[h] \in 0 .. MaxQueries /\ asked[h] \in 0 .. MaxQueries /\ MaxQueries \in Nat
  BY ArpAssumption DEF IInv, TypeOK
<1> QED BY <1>4, <1>5, <1>6

\* A frame that arrives adds itself to the queries of its sender, if it is one.
LEMMA ReceiveCounts ==
    ASSUME IInv, NEW f \in Reply \cup Request, Receive(f), NEW h \in Hosts
    PROVE  /\ inbox' \in Seq(Reply \cup Request)
           /\ Cardinality(Queries(h)') = Cardinality(Queries(h))
                  + (IF ForUs(f) /\ f.sender_ip = h THEN 1 ELSE 0)
<1>1. inbox \in Seq(Reply \cup Request)
  BY DEF IInv, TypeOK
<1> DEFINE n == Len(inbox) + 1
<1>2. /\ inbox' \in Seq(Reply \cup Request)
      /\ DOMAIN inbox' = 1 .. n /\ inbox'[n] = f
      /\ \A i \in 1 .. n - 1 : inbox'[i] = inbox[i]
      /\ DOMAIN inbox = 1 .. n - 1 /\ n \in Nat \ {0}
  BY <1>1 DEF Receive
<1> HIDE DEF n
<1>3. IsFiniteSet(Queries(h)) /\ Cardinality(Queries(h)) \in Nat
  BY QueriesFinite
<1>4. n \notin Queries(h)
  BY <1>2 DEF Queries
<1>5. CASE ForUs(f) /\ f.sender_ip = h
  <2>1. Queries(h)' = Queries(h) \cup {n}
    BY <1>2, <1>5 DEF Queries
  <2>2. Cardinality(Queries(h) \cup {n}) = Cardinality(Queries(h)) + 1
    BY <1>3, <1>4, FS_AddElement
  <2> QED BY <1>2, <1>5, <2>1, <2>2
<1>6. CASE ~(ForUs(f) /\ f.sender_ip = h)
  <2>1. Queries(h)' = Queries(h)
    BY <1>2, <1>6 DEF Queries
  <2> QED BY <1>2, <1>3, <1>6, <2>1
<1> QED BY <1>5, <1>6

\* The dispatcher takes the first frame from the queries of its sender.
LEMMA DispatchCounts ==
    ASSUME IInv, inbox # <<>>, inbox' = Tail(inbox), NEW h \in Hosts
    PROVE  /\ inbox' \in Seq(Reply \cup Request) /\ Head(inbox) \in Reply \cup Request
           /\ Cardinality(Queries(h)) = Cardinality(Queries(h)')
                  + (IF ForUs(Head(inbox)) /\ Head(inbox).sender_ip = h THEN 1 ELSE 0)
<1>1. inbox \in Seq(Reply \cup Request)
  BY DEF IInv, TypeOK
<1>2. /\ inbox' \in Seq(Reply \cup Request) /\ Head(inbox) \in Reply \cup Request
      /\ Head(inbox) = inbox[1] /\ 1 \in DOMAIN inbox
      /\ DOMAIN inbox = 1 .. Len(inbox) /\ Len(inbox) \in Nat
      /\ \A i \in Nat : i \in DOMAIN inbox' <=> i # 0 /\ i + 1 \in DOMAIN inbox
      /\ \A i \in DOMAIN inbox' : inbox'[i] = inbox[i + 1] /\ i \in Nat \ {0}
  BY <1>1
<1>3. IsFiniteSet(Queries(h)) /\ Cardinality(Queries(h)) \in Nat
  BY QueriesFinite
<1> DEFINE rest == Queries(h) \ {1}
<1>4. /\ IsFiniteSet(rest)
      /\ Cardinality(rest) = IF 1 \in Queries(h) THEN Cardinality(Queries(h)) - 1
                                                 ELSE Cardinality(Queries(h))
  BY <1>3, FS_RemoveElement
<1>5. 1 \in Queries(h) <=> ForUs(Head(inbox)) /\ Head(inbox).sender_ip = h
  BY <1>2 DEF Queries
<1>6. \A i \in Nat : i \in Queries(h)' <=> i + 1 \in rest
  BY <1>2 DEF Queries
<1>7. rest \subseteq Nat \ {0} /\ Queries(h)' \subseteq Nat
  BY <1>2 DEF Queries
<1> HIDE DEF rest
<1>8. Cardinality(Queries(h)') = Cardinality(rest)
  BY <1>4, <1>6, <1>7, ShiftCard
<1> QED BY <1>2, <1>3, <1>4, <1>5, <1>8

-----------------------------------------------------------------------------
(***************************************************************************)
(* mac_of.                                                                 *)
(***************************************************************************)
LEMMA MacOfIInv ==
    ASSUME IInv, NEW c \in Callers, Proceeds(c)
    PROVE  IInv'
<1>1. UNCHANGED <<disp, inbox, asked, replied, answers, losses, extras>>
  BY DEF Proceeds, MacOf, QueryOut, QuerySent, Returns
<1>2. QueriesCounted'
  <2>1. \A h \in Hosts : Queries(h)' = Queries(h)
    BY <1>1 DEF Queries
  <2> QED BY <1>1, <2>1 DEF IInv, QueriesCounted
<1>3. Wants[c] \in Hosts
  BY ArpAssumption
<1>4. CASE MacOf(c)
  <2>1. CASE ~HasRoute(Wants[c]) /\ caller' = [caller EXCEPT ![c] = "querying"]
             /\ routes_' = Append(routes_,
                    [ip_ |-> Wants[c], mac_ |-> NoMac, resolved_ |-> FALSE])
    <3> DEFINE r == [ip_ |-> Wants[c], mac_ |-> NoMac, resolved_ |-> FALSE]
               n == Len(routes_) + 1
    <3>1. r \in [ip_ : Hosts, mac_ : Macs \cup {NoMac}, resolved_ : BOOLEAN]
      BY <1>3
    <3>2. /\ routes_' \in Seq([ip_ : Hosts, mac_ : Macs \cup {NoMac}, resolved_ : BOOLEAN])
          /\ DOMAIN routes_' = 1 .. n /\ routes_'[n] = r
          /\ \A i \in DOMAIN routes_ : routes_'[i] = routes_[i]
          /\ DOMAIN routes_ = 1 .. n - 1 /\ n \in Nat \ {0}
      <4> DEFINE T == [ip_ : Hosts, mac_ : Macs \cup {NoMac}, resolved_ : BOOLEAN]
                 q == routes_
      <4>1. q \in Seq(T) /\ r \in T /\ routes_' = Append(q, r)
        BY <2>1, <3>1 DEF IInv, TypeOK
      <4> HIDE DEF T, q, r
      <4>2. /\ Append(q, r) \in Seq(T) /\ Len(q) \in Nat
            /\ DOMAIN Append(q, r) = 1 .. Len(q) + 1
            /\ Append(q, r)[Len(q) + 1] = r
            /\ \A i \in 1 .. Len(q) : Append(q, r)[i] = q[i]
        BY <4>1, AppendLast
      <4>3. DOMAIN q = 1 .. Len(q) /\ (Len(q) + 1) - 1 = Len(q)
        BY <4>1, <4>2
      <4>4. Len(q) + 1 \in Nat \ {0}
        BY <4>2
      <4> QED BY <4>1, <4>2, <4>3, <4>4 DEF T, q
    <3>3. r.ip_ = Wants[c] /\ r.resolved_ = FALSE
      OBVIOUS
    <3> HIDE DEF r, n
    <3>4. TypeOK'
      BY <1>1, <1>4, <2>1, <3>2 DEF IInv, TypeOK, MacOf
    <3>5. \A i \in DOMAIN routes_ : routes_[i].ip_ # Wants[c]
      BY <2>1 DEF HasRoute, RoutesTo
    <3>6. OneRoutePerHost'
      BY <3>2, <3>3, <3>5 DEF IInv, OneRoutePerHost
    <3>7. ResolvedIsAnAnswer'
      BY <1>1, <3>2, <3>3 DEF IInv, ResolvedIsAnAnswer
    <3>8. ResultIsAnAnswer'
      BY <1>1, <1>4, <2>1 DEF IInv, TypeOK, ResultIsAnAnswer, MacOf
    <3> QED BY <1>2, <3>4, <3>6, <3>7, <3>8 DEF IInv
  <2>2. CASE caller' = [caller EXCEPT ![c] = "waiting"] /\ UNCHANGED routes_
    BY <1>1, <1>2, <1>4, <2>2
    DEF IInv, TypeOK, OneRoutePerHost, ResolvedIsAnAnswer, ResultIsAnAnswer, MacOf
  <2> QED BY <1>4, <2>1, <2>2 DEF MacOf
<1>5. CASE QueryOut(c) \/ QuerySent(c)
  <2>1. /\ UNCHANGED <<routes_, result>>
        /\ onWire' \subseteq Hosts
        /\ caller' \in [Callers -> {"none", "querying", "queried", "waiting", "done"}]
        /\ \A d \in Callers : caller'[d] = "done" => caller[d] = "done"
    BY <1>3, <1>5 DEF QueryOut, QuerySent, IInv, TypeOK
  <2>2. TypeOK'
    BY <1>1, <2>1 DEF IInv, TypeOK
  <2>3. OneRoutePerHost' /\ ResolvedIsAnAnswer' /\ ResultIsAnAnswer'
    BY <1>1, <2>1 DEF IInv, OneRoutePerHost, ResolvedIsAnAnswer, ResultIsAnAnswer
  <2> QED BY <1>2, <2>2, <2>3 DEF IInv
<1>6. CASE Returns(c)
  <2>1. PICK i \in RoutesTo(Wants[c]) :
            routes_[i].resolved_ /\ result' = [result EXCEPT ![c] = routes_[i].mac_]
    BY <1>6 DEF Returns
  <2>2. i \in DOMAIN routes_ /\ routes_[i].ip_ = Wants[c]
    BY DEF RoutesTo
  <2>3. routes_[i].mac_ \in Macs \cup {NoMac}
    <3> DEFINE Route == [ip_ : Hosts, mac_ : Macs \cup {NoMac}, resolved_ : BOOLEAN]
    <3>1. routes_ \in Seq(Route)
      BY DEF IInv, TypeOK
    <3> HIDE DEF Route
    <3>2. routes_[i] \in Route
      BY <2>2, <3>1
    <3> QED BY <3>2 DEF Route
  <2>4. PICK f \in answers : f.sender_ip = Wants[c] /\ f.sender_mac = routes_[i].mac_
    BY <2>1, <2>2 DEF IInv, ResolvedIsAnAnswer
  <2>5. /\ caller' = [caller EXCEPT ![c] = "done"] /\ UNCHANGED <<routes_, onWire>>
    BY <1>6 DEF Returns
  <2>6. TypeOK'
    BY <1>1, <2>1, <2>3, <2>5 DEF IInv, TypeOK
  <2>7. ResultIsAnAnswer'
    BY <1>1, <2>1, <2>4, <2>5 DEF IInv, TypeOK, ResultIsAnAnswer
  <2>8. OneRoutePerHost' /\ ResolvedIsAnAnswer'
    BY <1>1, <2>5 DEF IInv, OneRoutePerHost, ResolvedIsAnAnswer
  <2> QED BY <1>2, <2>6, <2>7, <2>8 DEF IInv
<1> QED BY <1>4, <1>5, <1>6 DEF Proceeds

-----------------------------------------------------------------------------
(***************************************************************************)
(* push_packet and submit_reply_for.                                       *)
(***************************************************************************)
LEMMA PushPacketIInv ==
    ASSUME IInv, PushPacket
    PROVE  IInv'
<1> DEFINE f == Head(inbox)
<1>1. /\ disp = Our /\ inbox # <<>> /\ inbox' = Tail(inbox)
      /\ UNCHANGED <<caller, result, onWire, asked, replied, losses, extras>>
  BY DEF PushPacket
<1>2. f \in Reply \cup Request /\ inbox' \in Seq(Reply \cup Request)
  <2>1. inbox \in Seq(Reply \cup Request)
    BY DEF IInv, TypeOK
  <2> QED BY <1>1, <2>1
<1>3. \A h \in Hosts :
          Cardinality(Queries(h)) = Cardinality(Queries(h)')
              + (IF ForUs(f) /\ f.sender_ip = h THEN 1 ELSE 0)
  BY <1>1, DispatchCounts
<1>4. \A h \in Hosts : disp # h
  BY <1>1, ArpAssumption
<1>5. \A h \in Hosts : Cardinality(Queries(h)) \in Nat /\ Cardinality(Queries(h)') \in Nat
  <2> TAKE h \in Hosts
  <2>1. Cardinality(Queries(h)) \in Nat
    BY QueriesFinite
  <2>2. IsFiniteSet(1 .. Len(inbox')) /\ Queries(h)' \in SUBSET (1 .. Len(inbox'))
    BY <1>2, FS_Interval DEF Queries
  <2>3. IsFiniteSet(Queries(h)')
    BY <2>2, FS_Subset
  <2> QED BY <2>1, <2>3, FS_CardinalityType
<1> HIDE DEF f
<1>6. CASE ForUs(f) /\ disp' = f.sender_ip /\ UNCHANGED <<routes_, answers>>
  <2>1. f.sender_ip \in Hosts
    BY <1>2 DEF Reply, Request
  <2>2. TypeOK'
    BY <1>1, <1>2, <1>6, <2>1 DEF IInv, TypeOK
  <2>3. OneRoutePerHost' /\ ResolvedIsAnAnswer' /\ ResultIsAnAnswer'
    BY <1>1, <1>6 DEF IInv, OneRoutePerHost, ResolvedIsAnAnswer, ResultIsAnAnswer
  <2>4. QueriesCounted'
    <3> SUFFICES ASSUME NEW h \in Hosts
                 PROVE  asked'[h] = replied'[h] + Cardinality(Queries(h)')
                                        + (IF disp' = h THEN 1 ELSE 0)
      BY DEF QueriesCounted
    <3>1. asked[h] = replied[h] + Cardinality(Queries(h)) + 0
      BY <1>4 DEF IInv, QueriesCounted
    <3>2. replied[h] \in Nat /\ asked[h] \in Nat
      BY QueriesFinite
    <3> QED BY <1>1, <1>3, <1>5, <1>6, <3>1, <3>2
  <2> QED BY <2>2, <2>3, <2>4 DEF IInv
<1>7. ~ForUs(f) /\ disp' = disp => QueriesCounted'
  <2> SUFFICES ASSUME ~ForUs(f), disp' = disp, NEW h \in Hosts
               PROVE  asked'[h] = replied'[h] + Cardinality(Queries(h)')
                                      + (IF disp' = h THEN 1 ELSE 0)
    BY DEF QueriesCounted
  <2>1. asked[h] = replied[h] + Cardinality(Queries(h)) + 0
    BY <1>4 DEF IInv, QueriesCounted
  <2>2. replied[h] \in Nat /\ asked[h] \in Nat
    BY QueriesFinite
  <2> QED BY <1>1, <1>3, <1>4, <1>5, <2>1, <2>2
<1>8. CASE /\ f.operation = 2
           /\ routes_' = [i \in DOMAIN routes_ |-> Resolve(routes_[i], f)]
           /\ answers' = IF HasRoute(f.sender_ip) THEN answers \cup {f} ELSE answers
           /\ UNCHANGED disp
  <2>1. f \in Reply /\ ~ForUs(f)
    BY <1>2, <1>8 DEF Request, ForUs
  <2>2. f.sender_ip \in Hosts /\ f.sender_mac \in Macs
    BY <2>1 DEF Reply
  <2> DEFINE Route == [ip_ : Hosts, mac_ : Macs \cup {NoMac}, resolved_ : BOOLEAN]
  <2>3. /\ routes_ \in Seq(Route)
        /\ \A i \in DOMAIN routes_ : routes_[i] \in Route
    <3>1. routes_ \in Seq(Route)
      BY DEF IInv, TypeOK
    <3> HIDE DEF Route
    <3> QED BY <3>1
  <2>4. ASSUME NEW r \in Route
        PROVE  /\ Resolve(r, f) \in Route /\ Resolve(r, f).ip_ = r.ip_
               /\ IF r.ip_ = f.sender_ip
                  THEN Resolve(r, f).mac_ = f.sender_mac
                  ELSE Resolve(r, f) = r
    BY <2>2 DEF Resolve
  <2> HIDE DEF Route
  <2>5. /\ DOMAIN routes_' = DOMAIN routes_
        /\ \A i \in DOMAIN routes_ : routes_'[i] = Resolve(routes_[i], f)
    BY <1>8
  <2>6. routes_' \in Seq(Route)
    <3>1. DOMAIN routes_ = 1 .. Len(routes_) /\ Len(routes_) \in Nat
      BY <2>3
    <3>2. routes_' \in [1 .. Len(routes_) -> Route]
      BY <1>8, <2>3, <2>4, <3>1
    <3> QED BY <3>1, <3>2
  <2>7. answers' \subseteq Reply /\ answers \subseteq answers'
    BY <1>8, <2>1 DEF IInv, TypeOK
  <2>8. TypeOK'
    BY <1>1, <1>2, <1>8, <2>6, <2>7 DEF IInv, TypeOK, Route
  <2>9. OneRoutePerHost'
    BY <2>3, <2>4, <2>5 DEF IInv, OneRoutePerHost
  <2>10. ResolvedIsAnAnswer'
    <3> SUFFICES ASSUME NEW i \in DOMAIN routes_, routes_'[i].resolved_
                 PROVE  \E g \in answers' : g.sender_ip = routes_'[i].ip_
                                            /\ g.sender_mac = routes_'[i].mac_
      BY <2>5 DEF ResolvedIsAnAnswer
    <3>1. CASE routes_[i].ip_ = f.sender_ip
      <4>1. f \in answers'
        BY <1>8, <3>1 DEF HasRoute, RoutesTo
      <4> QED BY <2>3, <2>4, <2>5, <3>1, <4>1
    <3>2. CASE routes_[i].ip_ # f.sender_ip
      <4>1. routes_'[i] = routes_[i]
        BY <2>3, <2>4, <2>5, <3>2
      <4> QED BY <2>7, <4>1 DEF IInv, ResolvedIsAnAnswer
    <3> QED BY <3>1, <3>2
  <2>11. ResultIsAnAnswer'
    BY <1>1, <2>7 DEF IInv, ResultIsAnAnswer
  <2> QED BY <1>7, <1>8, <2>1, <2>8, <2>9, <2>10, <2>11 DEF IInv
<1>9. CASE f.operation = 1 /\ ~ForUs(f) /\ UNCHANGED <<routes_, disp, answers>>
  <2>1. TypeOK'
    BY <1>1, <1>2, <1>9 DEF IInv, TypeOK
  <2>2. OneRoutePerHost' /\ ResolvedIsAnAnswer' /\ ResultIsAnAnswer'
    BY <1>1, <1>9 DEF IInv, OneRoutePerHost, ResolvedIsAnAnswer, ResultIsAnAnswer
  <2> QED BY <1>7, <1>9, <2>1, <2>2 DEF IInv
<1> QED BY <1>6, <1>8, <1>9 DEF PushPacket, f

LEMMA ReplySentIInv ==
    ASSUME IInv, ReplySent
    PROVE  IInv'
<1>1. /\ disp \in Hosts /\ disp' = Our
      /\ replied' = [replied EXCEPT ![disp] = @ + 1]
      /\ UNCHANGED <<routes_, caller, result, inbox, onWire, asked, answers, losses, extras>>
  BY DEF ReplySent, IInv, TypeOK
<1>2. \A h \in Hosts : Queries(h)' = Queries(h)
  BY <1>1 DEF Queries
<1>3. \A h \in Hosts : Our # h
  BY ArpAssumption
<1>4. \A h \in Hosts : replied'[h] = IF h = disp THEN replied[h] + 1 ELSE replied[h]
  BY <1>1 DEF IInv, TypeOK
<1>5. QueriesCounted'
  <2> SUFFICES ASSUME NEW h \in Hosts
               PROVE  asked[h] = replied'[h] + Cardinality(Queries(h)) + 0
    BY <1>1, <1>2, <1>3 DEF QueriesCounted
  <2>1. /\ Cardinality(Queries(h)) \in Nat /\ replied[h] \in Nat
        /\ asked[h] = replied[h] + Cardinality(Queries(h)) + (IF disp = h THEN 1 ELSE 0)
    BY QueriesFinite DEF IInv, QueriesCounted
  <2> QED BY <1>4, <2>1
<1>6. replied' \in [Hosts -> 0 .. MaxQueries]
  <2>1. \A h \in Hosts : replied'[h] \in 0 .. MaxQueries
    <3> TAKE h \in Hosts
    <3>1. /\ Cardinality(Queries(h)) \in Nat /\ replied[h] \in Nat /\ asked[h] \in Nat
          /\ asked[h] <= MaxQueries /\ MaxQueries \in Nat
          /\ asked[h] = replied[h] + Cardinality(Queries(h)) + (IF disp = h THEN 1 ELSE 0)
      BY QueriesFinite, ArpAssumption DEF IInv, QueriesCounted
    <3> QED BY <1>4, <3>1
  <2>2. replied' = [h \in Hosts |-> replied'[h]]
    BY <1>1 DEF IInv, TypeOK
  <2> QED BY <2>1, <2>2
<1>7. TypeOK'
  BY <1>1, <1>6 DEF IInv, TypeOK
<1>8. OneRoutePerHost' /\ ResolvedIsAnAnswer' /\ ResultIsAnAnswer'
  BY <1>1 DEF IInv, OneRoutePerHost, ResolvedIsAnAnswer, ResultIsAnAnswer
<1> QED BY <1>5, <1>7, <1>8 DEF IInv

-----------------------------------------------------------------------------
(***************************************************************************)
(* The other hosts and the network.                                        *)
(***************************************************************************)
LEMMA HostAnswersIInv ==
    ASSUME IInv, NEW h \in Hosts, HostAnswers(h)
    PROVE  IInv'
<1>1. PICK m \in MacsOf[h] : Receive([operation |-> 2, sender_ip |-> h, sender_mac |-> m])
  BY DEF HostAnswers
<1> DEFINE f == [operation |-> 2, sender_ip |-> h, sender_mac |-> m]
<1>2. f \in Reply /\ f.operation = 2
  BY ArpAssumption DEF Reply
<1>3. ~ForUs(f)
  BY <1>2 DEF ForUs
<1> HIDE DEF f
<1>4. /\ onWire' \subseteq Hosts /\ extras' \in 0 .. MaxExtras
      /\ UNCHANGED <<routes_, caller, result, disp, asked, replied, answers, losses>>
  BY ArpAssumption DEF HostAnswers, IInv, TypeOK
<1>5. /\ inbox' \in Seq(Reply \cup Request)
      /\ \A g \in Hosts : Cardinality(Queries(g)') = Cardinality(Queries(g)) + 0
  BY <1>1, <1>2, <1>3, ReceiveCounts DEF f
<1>6. QueriesCounted'
  <2> SUFFICES ASSUME NEW g \in Hosts
               PROVE  asked[g] = replied[g] + Cardinality(Queries(g)')
                                     + (IF disp = g THEN 1 ELSE 0)
    BY <1>4 DEF QueriesCounted
  <2>1. Cardinality(Queries(g)) \in Nat
    BY QueriesFinite
  <2> QED BY <1>5, <2>1 DEF IInv, QueriesCounted
<1>7. TypeOK'
  BY <1>4, <1>5 DEF IInv, TypeOK
<1>8. OneRoutePerHost' /\ ResolvedIsAnAnswer' /\ ResultIsAnAnswer'
  BY <1>4 DEF IInv, OneRoutePerHost, ResolvedIsAnAnswer, ResultIsAnAnswer
<1> QED BY <1>6, <1>7, <1>8 DEF IInv

LEMMA HostAsksIInv ==
    ASSUME IInv, NEW h \in Hosts, NEW target \in Hosts \cup {Our}, HostAsks(h, target)
    PROVE  IInv'
<1> DEFINE f == [operation |-> 1, sender_ip |-> h, target_ip |-> target]
<1>1. Receive(f)
  BY DEF HostAsks
<1>2. f \in Request /\ f.sender_ip = h /\ (ForUs(f) <=> target = Our)
  BY DEF Request, ForUs
<1> HIDE DEF f
<1>3. /\ inbox' \in Seq(Reply \cup Request)
      /\ \A g \in Hosts : Cardinality(Queries(g)') = Cardinality(Queries(g))
             + (IF target = Our /\ g = h THEN 1 ELSE 0)
  BY <1>1, <1>2, ReceiveCounts
<1>4. /\ extras' \in 0 .. MaxExtras
      /\ UNCHANGED <<routes_, caller, result, disp, onWire, replied, answers, losses>>
  BY ArpAssumption DEF HostAsks, IInv, TypeOK
<1>5. /\ asked' \in [Hosts -> 0 .. MaxQueries]
      /\ \A g \in Hosts : asked'[g] = asked[g] + (IF target = Our /\ g = h THEN 1 ELSE 0)
  <2>1. asked \in [Hosts -> 0 .. MaxQueries] /\ MaxQueries \in Nat
    BY ArpAssumption DEF IInv, TypeOK
  <2>2. CASE /\ target = Our /\ asked[h] < MaxQueries
             /\ asked' = [asked EXCEPT ![h] = @ + 1]
    BY <2>1, <2>2
  <2>3. CASE target # Our /\ asked' = asked
    <3>1. \A g \in Hosts : asked[g] \in Nat
      BY <2>1
    <3> QED BY <2>1, <2>3, <3>1
  <2> QED BY <2>2, <2>3 DEF HostAsks
<1>6. QueriesCounted'
  <2> SUFFICES ASSUME NEW g \in Hosts
               PROVE  asked'[g] = replied[g] + Cardinality(Queries(g)')
                                      + (IF disp = g THEN 1 ELSE 0)
    BY <1>4 DEF QueriesCounted
  <2>1. /\ Cardinality(Queries(g)) \in Nat /\ replied[g] \in Nat
        /\ asked[g] = replied[g] + Cardinality(Queries(g)) + (IF disp = g THEN 1 ELSE 0)
    BY QueriesFinite DEF IInv, QueriesCounted
  <2> QED BY <1>3, <1>5, <2>1
<1>7. TypeOK'
  BY <1>3, <1>4, <1>5 DEF IInv, TypeOK
<1>8. OneRoutePerHost' /\ ResolvedIsAnAnswer' /\ ResultIsAnAnswer'
  BY <1>4 DEF IInv, OneRoutePerHost, ResolvedIsAnAnswer, ResultIsAnAnswer
<1> QED BY <1>6, <1>7, <1>8 DEF IInv

LEMMA LoseIInv ==
    ASSUME IInv, NEW h \in Hosts, Lose(h)
    PROVE  IInv'
<1>1. /\ onWire' \subseteq Hosts /\ losses' \in 0 .. MaxLosses
      /\ UNCHANGED <<routes_, caller, result, disp, inbox, asked, replied, answers, extras>>
  BY ArpAssumption DEF Lose, IInv, TypeOK
<1>2. \A g \in Hosts : Queries(g)' = Queries(g)
  BY <1>1 DEF Queries
<1>3. QueriesCounted'
  BY <1>1, <1>2 DEF IInv, QueriesCounted
<1>4. TypeOK'
  BY <1>1 DEF IInv, TypeOK
<1>5. OneRoutePerHost' /\ ResolvedIsAnAnswer' /\ ResultIsAnAnswer'
  BY <1>1 DEF IInv, OneRoutePerHost, ResolvedIsAnAnswer, ResultIsAnAnswer
<1> QED BY <1>3, <1>4, <1>5 DEF IInv

-----------------------------------------------------------------------------
(***************************************************************************)
(* The theorems.                                                           *)
(***************************************************************************)
LEMMA NextIInv == IInv /\ [Next]_vars => IInv'
<1> SUFFICES ASSUME IInv, [Next]_vars PROVE IInv'
  OBVIOUS
<1>1. ASSUME NEW c \in Callers, Proceeds(c) PROVE IInv'
  BY <1>1, MacOfIInv
<1>2. CASE PushPacket
  BY <1>2, PushPacketIInv
<1>3. CASE ReplySent
  BY <1>3, ReplySentIInv
<1>4. ASSUME NEW h \in Hosts, HostAnswers(h) PROVE IInv'
  BY <1>4, HostAnswersIInv
<1>5. ASSUME NEW h \in Hosts, Lose(h) PROVE IInv'
  BY <1>5, LoseIInv
<1>6. ASSUME NEW h \in Hosts, NEW target \in Hosts \cup {Our}, HostAsks(h, target)
      PROVE  IInv'
  BY <1>6, HostAsksIInv
<1>7. CASE UNCHANGED vars
  <2>1. \A g \in Hosts : Queries(g)' = Queries(g)
    BY <1>7 DEF Queries, vars
  <2>2. QueriesCounted'
    BY <1>7, <2>1 DEF IInv, QueriesCounted, vars
  <2>3. TypeOK'
    BY <1>7 DEF IInv, TypeOK, vars
  <2>4. OneRoutePerHost' /\ ResolvedIsAnAnswer' /\ ResultIsAnAnswer'
    BY <1>7 DEF IInv, OneRoutePerHost, ResolvedIsAnAnswer, ResultIsAnAnswer, vars
  <2> QED BY <2>2, <2>3, <2>4 DEF IInv
<1> QED BY <1>1, <1>2, <1>3, <1>4, <1>5, <1>6, <1>7 DEF Next

\* The inductive invariant: resolved routes hold answers, and no query of another
\* host is forgotten or counted twice (mac_of, push_packet, submit_reply_for).
THEOREM ArpInvariant == Spec => []IInv
BY InitIInv, NextIInv, PTL DEF Spec

\* However many calls of mac_of run at once, an address has one route and one
\* query (mac_of).
THEOREM RoutesAreUnique == Spec => []OneRoutePerHost
<1>1. IInv => OneRoutePerHost
  BY DEF IInv
<1> QED BY <1>1, ArpInvariant, PTL

\* Every call of mac_of returns an address that the host asked for has given
\* (mac_of, push_packet).
THEOREM ResultsAreAnswers == Spec => []ResultIsAnAnswer
<1>1. IInv => ResultIsAnAnswer
  BY DEF IInv
<1> QED BY <1>1, ArpInvariant, PTL

\* No host gets more replies than it sent queries for our address, for any
\* number of queries (push_packet, submit_reply_for).
THEOREM RepliesAreAsked == Spec => []NoReplyUnasked
<1>1. ASSUME IInv PROVE NoReplyUnasked
  <2> SUFFICES ASSUME NEW h \in Hosts PROVE replied[h] <= asked[h]
    BY DEF NoReplyUnasked
  <2>1. /\ Cardinality(Queries(h)) \in Nat /\ replied[h] \in Nat
        /\ asked[h] = replied[h] + Cardinality(Queries(h)) + (IF disp = h THEN 1 ELSE 0)
    BY <1>1, QueriesFinite DEF IInv, QueriesCounted
  <2> QED BY <2>1
<1> QED BY <1>1, ArpInvariant, PTL
===============================================================================
