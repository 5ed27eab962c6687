---------------------------- MODULE TcpLinkProofs ----------------------------
(***************************************************************************)
(* The endpoint with its peers and the network behaves as the endpoint of  *)
(* Tcp against an arbitrary network: every step of the composition is a    *)
(* step of Tcp or leaves the endpoint alone.  What TcpProofs shows of Tcp  *)
(* therefore holds of the composition, whatever the peers and the network  *)
(* do.                                                                     *)
(*                                                                         *)
(* With polite peers, what each socket hands to its worker is its peer's   *)
(* stream (StreamDelivered) and neither assertion of the endpoint fails    *)
(* (AssertsNeverFail): on a network that keeps what it is given, and on    *)
(* one that loses segments while the peers repeat them, as long as the     *)
(* endpoint can tell a repetition from new data (Distinguishable).  What   *)
(* such a peer sees acknowledged is delivered (AcknowledgedDelivered), and *)
(* when nothing is lost what it is sent is numbered so that it can take it *)
(* (EverythingTaken).                                                      *)
(*                                                                         *)
(* The proofs rest on LinkInv: for each connection it says how many        *)
(* segments of the peer's script the worker, the receive queue and the     *)
(* endpoint have (Facts), and, while the socket still receives, what is on *)
(* its way in either direction (Flow; KeptFlow if nothing is lost,         *)
(* LossyFlow otherwise).  There is a lemma for each action of TcpLink.     *)
(* EverythingTaken adds SequenceInv, for the numbers towards the peer.     *)
(***************************************************************************)
EXTENDS TcpLink, TcpProofs, SequenceTheorems

\* A step of the composition is a step of the endpoint or leaves it alone.
LEMMA LinkStep == LinkNext => [Next]_vars
<1> SUFFICES ASSUME LinkNext PROVE [Next]_vars
  OBVIOUS
<1>1. ASSUME NEW p \in Peers, PeerStep(p) \/ Lose(p) PROVE UNCHANGED vars
  BY <1>1 DEF PeerStep, Lose
<1>2. ASSUME NEW p \in Peers, Deliver(p) PROVE Next
  BY <1>2 DEF Deliver, Next
<1>3. ASSUME ServerTx PROVE Next
  BY <1>3 DEF ServerTx, Next
<1>4. ASSUME Reply PROVE Next
  BY <1>4 DEF Reply, Next
<1>5. ASSUME LinkListen PROVE Next
  BY <1>5, PeersAssumption DEF LinkListen, Next
<1>6. ASSUME NEW s \in Sockets, LinkWorker(s) PROVE Next
  BY <1>6 DEF LinkWorker, Worker, Next
<1> QED BY <1>1, <1>2, <1>3, <1>4, <1>5, <1>6 DEF LinkNext

\* The composition implements the open endpoint.
THEOREM LinkImplementsTcp == LinkSpec => Spec
<1>1. LinkInit => Init
  BY DEF LinkInit
<1>2. [LinkNext]_linkVars => [Next]_vars
  BY LinkStep DEF linkVars
<1> QED BY <1>1, <1>2, PTL DEF LinkSpec, Spec

\* No coroutine of the composed system touches a deleted socket.
THEOREM LinkMemorySafety == LinkSpec => []NoUseAfterFree
<1> QED BY LinkImplementsTcp, MemorySafety, PTL
(***************************************************************************)
(* The peers' streams and scripts.                                         *)
(***************************************************************************)
Places(p, k) == UNION {{i} \X (1 .. Script[p][i].len) : i \in 1 .. k}

\* The payload of a peer's k-th segment.
Piece(p, k) == Stream(p, StreamLength(p, k - 1), StreamLength(p, k))

\* The sequence number of the byte after the first n of a stream.
Num(p, n) == Plus(Isn[p], 1 + n)

\* Scripts are sequences of segments of at least a byte.
LEMMA ScriptType ==
    ASSUME NEW p \in Peers
    PROVE  /\ Script[p] \in Seq([len : Nat \ {0}, last : BOOLEAN])
           /\ Len(Script[p]) \in Nat
           /\ \A k \in 1 .. Len(Script[p]) :
                  Script[p][k].len \in Nat \ {0} /\ Script[p][k].last \in BOOLEAN
<1> DEFINE S == [len : Nat \ {0}, last : BOOLEAN]
<1>1. Script[p] \in Seq(S)
  BY ScriptAssumption
<1>2. \A x \in S : x.len \in Nat \ {0} /\ x.last \in BOOLEAN
  OBVIOUS
<1> HIDE DEF S
<1>3. /\ Len(Script[p]) \in Nat
      /\ \A k \in 1 .. Len(Script[p]) : Script[p][k] \in S
  BY <1>1
<1> QED BY <1>1, <1>2, <1>3 DEF S

\* A segment adds its places to those of the ones before it.
LEMMA PlacesStep ==
    ASSUME NEW p \in Peers, NEW k \in Nat
    PROVE  /\ Places(p, k + 1) =
                  Places(p, k) \cup ({k + 1} \X (1 .. Script[p][k + 1].len))
           /\ Places(p, k) \cap ({k + 1} \X (1 .. Script[p][k + 1].len)) = {}
<1>1. 1 .. k + 1 = (1 .. k) \cup {k + 1} /\ k + 1 \notin 1 .. k
  OBVIOUS
<1>2. \A i \in 1 .. k : \A x : x \in {i} \X (1 .. Script[p][i].len)
                                   => x \notin {k + 1} \X (1 .. Script[p][k + 1].len)
  BY <1>1
<1> QED BY <1>1, <1>2 DEF Places

\* A script has finitely many bytes.
LEMMA PlacesFinite ==
    ASSUME NEW p \in Peers, NEW k \in 0 .. Len(Script[p])
    PROVE  IsFiniteSet(Places(p, k))
<1> DEFINE I == {n \in Nat : n <= Len(Script[p]) => IsFiniteSet(Places(p, n))}
<1>1. 0 \in I
  <2>1. Places(p, 0) = {}
    BY DEF Places
  <2> QED BY <2>1, FS_EmptySet
<1>2. ASSUME NEW n \in Nat, n \in I PROVE n + 1 \in I
  <2> SUFFICES ASSUME n + 1 <= Len(Script[p]) PROVE IsFiniteSet(Places(p, n + 1))
    OBVIOUS
  <2>1. IsFiniteSet(Places(p, n))
    BY <1>2, ScriptType
  <2> DEFINE m == Script[p][n + 1].len
  <2>2. m \in Nat
    BY ScriptType
  <2> HIDE DEF m
  <2>3. IsFiniteSet({n + 1})
    BY FS_Singleton
  <2>6. IsFiniteSet(1 .. m)
    BY <2>2, FS_Interval
  <2>4. IsFiniteSet({n + 1} \X (1 .. m))
    BY <2>3, <2>6, FS_Product
  <2>5. IsFiniteSet(Places(p, n) \cup ({n + 1} \X (1 .. m)))
    BY <2>1, <2>4, FS_Union
  <2> QED BY <2>5, PlacesStep DEF m
<1> HIDE DEF I
<1>3. Nat \subseteq I
  BY <1>1, <1>2, Induct
<1>4. k \in I
  BY <1>3, ScriptType
<1> QED BY <1>4 DEF I

\* Each segment of a script adds its bytes to the stream.
LEMMA StreamStep ==
    ASSUME NEW p \in Peers
    PROVE  /\ StreamLength(p, 0) = 0
           /\ \A k \in 0 .. Len(Script[p]) : StreamLength(p, k) \in Nat
           /\ \A k \in 1 .. Len(Script[p]) :
                  StreamLength(p, k) = StreamLength(p, k - 1) + Script[p][k].len
<1>1. \A k : StreamLength(p, k) = Cardinality(Places(p, k))
  BY DEF StreamLength, Places
<1>2. Places(p, 0) = {}
  BY DEF Places
<1>3. StreamLength(p, 0) = 0
  BY <1>1, <1>2, FS_EmptySet
<1>4. ASSUME NEW k \in 0 .. Len(Script[p]) PROVE StreamLength(p, k) \in Nat
  BY <1>1, PlacesFinite, FS_CardinalityType
<1>5. ASSUME NEW k \in 1 .. Len(Script[p])
      PROVE  StreamLength(p, k) = StreamLength(p, k - 1) + Script[p][k].len
  <2> DEFINE n == k - 1
             A == Places(p, n)
             m == Script[p][k].len
             B == {k} \X (1 .. m)
  <2>1. n \in Nat /\ n + 1 = k /\ n \in 0 .. Len(Script[p])
    BY ScriptType
  <2>2. m \in Nat
    BY ScriptType
  <2>3. IsFiniteSet({k}) /\ Cardinality({k}) = 1
    BY FS_Singleton
  <2> HIDE DEF m
  <2>4. IsFiniteSet(1 .. m) /\ Cardinality(1 .. m) = m
    <3>1. /\ IsFiniteSet(1 .. m)
          /\ Cardinality(1 .. m) = IF 1 > m THEN 0 ELSE m - 1 + 1
      BY <2>2, FS_Interval
    <3>2. m = IF 1 > m THEN 0 ELSE m - 1 + 1
      BY <2>2
    <3> QED BY <3>1, <3>2
  <2>5. IsFiniteSet(B) /\ Cardinality(B) = 1 * m
    <3> DEFINE K == {k}
               I == 1 .. m
    <3>1. /\ IsFiniteSet(K) /\ Cardinality(K) = 1
          /\ IsFiniteSet(I) /\ Cardinality(I) = m
      BY <2>3, <2>4
    <3> HIDE DEF K, I
    <3>2. IsFiniteSet(K \X I) /\ Cardinality(K \X I) = Cardinality(K) * Cardinality(I)
      BY <3>1, FS_Product
    <3> QED BY <3>1, <3>2 DEF K, I
  <2>6. IsFiniteSet(A)
    BY <2>1, PlacesFinite
  <2>7. Places(p, k) = A \cup B /\ A \cap B = {}
    BY <2>1, PlacesStep DEF m
  <2> HIDE DEF A, B
  <2>8. Cardinality(A \cup B) = Cardinality(A) + Cardinality(B) - Cardinality(A \cap B)
    BY <2>5, <2>6, FS_Union
  <2>9. Cardinality(A \cap B) = 0
    BY <2>7, FS_EmptySet
  <2>10. Cardinality(A) \in Nat
    BY <2>6, FS_CardinalityType
  <2>11. Cardinality(Places(p, k)) = Cardinality(A) + m
    BY <2>2, <2>5, <2>7, <2>8, <2>9, <2>10
  <2> QED BY <1>1, <2>11 DEF A, m
<1> QED BY <1>3, <1>4, <1>5

\* Longer parts of a script make longer streams.
LEMMA StreamMonotonic ==
    ASSUME NEW p \in Peers, NEW j \in 0 .. Len(Script[p]), NEW k \in 0 .. Len(Script[p]),
           j < k
    PROVE  StreamLength(p, j) < StreamLength(p, k)
<1>1. Places(p, j) \subseteq Places(p, k)
  <2>1. 1 .. j \subseteq 1 .. k
    BY ScriptType
  <2> QED BY <2>1 DEF Places
<1>2. <<k, 1>> \in Places(p, k)
  <2>1. k \in 1 .. k /\ k \in 1 .. Len(Script[p])
    BY ScriptType
  <2>2. 1 \in 1 .. Script[p][k].len
    BY <2>1, ScriptType
  <2> QED BY <2>1, <2>2 DEF Places
<1>3. <<k, 1>> \notin Places(p, j)
  <2>1. k \notin 1 .. j
    BY ScriptType
  <2> QED BY <2>1 DEF Places
<1>4. IsFiniteSet(Places(p, k)) /\ IsFiniteSet(Places(p, j))
  BY PlacesFinite
<1>5. /\ Cardinality(Places(p, j)) <= Cardinality(Places(p, k))
      /\ Cardinality(Places(p, j)) # Cardinality(Places(p, k))
  BY <1>1, <1>2, <1>3, <1>4, FS_Subset
<1>6. Cardinality(Places(p, j)) \in Nat /\ Cardinality(Places(p, k)) \in Nat
  BY <1>4, FS_CardinalityType
<1> QED BY <1>5, <1>6 DEF StreamLength, Places

\* Each segment that ends a request adds one.
LEMMA RequestsStep ==
    ASSUME NEW p \in Peers
    PROVE  /\ Requests(p, 0) = 0 /\ Requests(p, 0 - 1) = 0
           /\ \A k \in 0 .. Len(Script[p]) : Requests(p, k) \in Nat
           /\ \A k \in 1 .. Len(Script[p]) :
                  Requests(p, k) = Requests(p, k - 1)
                                       + (IF Script[p][k].last THEN 1 ELSE 0)
<1> DEFINE R(k) == {i \in 1 .. k : Script[p][i].last}
<1>1. \A k : Requests(p, k) = Cardinality(R(k))
  BY DEF Requests
<1>2. R(0) = {} /\ R(0 - 1) = {}
  OBVIOUS
<1>3. ASSUME NEW k \in 0 .. Len(Script[p]) PROVE IsFiniteSet(R(k))
  <2>1. IsFiniteSet(1 .. k)
    BY ScriptType, FS_Interval
  <2> QED BY <2>1, FS_Subset
<1>4. ASSUME NEW k \in 1 .. Len(Script[p])
      PROVE  R(k) = (IF Script[p][k].last THEN R(k - 1) \cup {k} ELSE R(k - 1))
             /\ k \notin R(k - 1)
  <2>1. 1 .. k = (1 .. k - 1) \cup {k} /\ k \notin 1 .. k - 1
    BY ScriptType
  <2> QED BY <2>1
<1> HIDE DEF R
<1>5. ASSUME NEW k \in 0 .. Len(Script[p]) PROVE Requests(p, k) \in Nat
  BY <1>1, <1>3, FS_CardinalityType
<1>6. ASSUME NEW k \in 1 .. Len(Script[p])
      PROVE  Requests(p, k) = Requests(p, k - 1)
                                  + (IF Script[p][k].last THEN 1 ELSE 0)
  <2>1. k - 1 \in 0 .. Len(Script[p])
    BY ScriptType
  <2>2. Cardinality(R(k - 1) \cup {k}) = Cardinality(R(k - 1)) + 1
    BY <1>3, <1>4, <2>1, FS_AddElement
  <2>3. Cardinality(R(k - 1)) \in Nat
    BY <1>3, <2>1, FS_CardinalityType
  <2>4. CASE Script[p][k].last
    BY <1>1, <1>4, <2>2, <2>3, <2>4
  <2>5. CASE ~Script[p][k].last
    BY <1>1, <1>4, <2>2, <2>3, <2>5
  <2> QED BY <2>4, <2>5
<1> QED BY <1>1, <1>2, <1>5, <1>6, FS_EmptySet

\* Longer parts of a script have no fewer requests, and when they have no more,
\* no segment between them ends one.
LEMMA RequestsMonotonic ==
    ASSUME NEW p \in Peers, NEW j \in 0 .. Len(Script[p]), NEW k \in 0 .. Len(Script[p]),
           j <= k
    PROVE  /\ Requests(p, j) <= Requests(p, k)
           /\ Requests(p, j) = Requests(p, k) =>
                  \A i \in j + 1 .. k : ~Script[p][i].last
<1> DEFINE A == {i \in 1 .. j : Script[p][i].last}
           B == {i \in 1 .. k : Script[p][i].last}
<1>1. A \in SUBSET B
  BY ScriptType
<1>2. IsFiniteSet(B)
  <2>1. IsFiniteSet(1 .. k)
    BY ScriptType, FS_Interval
  <2> QED BY <2>1, FS_Subset
<1>3. /\ Requests(p, j) = Cardinality(A) /\ Requests(p, k) = Cardinality(B)
  BY DEF Requests
<1>4. ASSUME A = B, NEW i \in j + 1 .. k PROVE ~Script[p][i].last
  <2>1. i \in 1 .. k /\ i \notin 1 .. j
    BY ScriptType
  <2> QED BY <1>4, <2>1
<1> HIDE DEF A, B
<1>5. Cardinality(A) <= Cardinality(B) /\ (Cardinality(B) = Cardinality(A) => A = B)
  BY <1>1, <1>2, FS_Subset
<1> QED BY <1>3, <1>4, <1>5

\* Sequence numbers advance with the stream.
LEMMA NumStep ==
    ASSUME NEW p \in Peers, NEW n \in Nat, NEW k \in Nat
    PROVE  /\ Num(p, n) \in SeqNum
           /\ Plus(Num(p, n), k) = Num(p, n + k)
           /\ Plus(Isn[p], 1) = Num(p, 0)
<1>1. Isn[p] \in Nat
  BY PeersAssumption DEF SeqNum
<1>2. Num(p, n) \in SeqNum
  BY <1>1, PlusType DEF Num
<1> DEFINE a == Isn[p] + (1 + n)
<1>3. a \in Nat /\ a + k = Isn[p] + (1 + (n + k))
  BY <1>1
<1>4. ((a % SeqSpace) + k) % SeqSpace = (a + k) % SeqSpace
  BY <1>3, SeqSpaceAssumption, ModPlus
<1>5. Plus(Num(p, n), k) = Num(p, n + k)
  BY <1>3, <1>4 DEF Plus, Num
<1>6. Plus(Isn[p], 1) = Num(p, 0)
  BY DEF Num
<1> QED BY <1>2, <1>5, <1>6

\* A part of a stream, and its last byte.
LEMMA StreamType ==
    ASSUME NEW p \in Peers, NEW a \in Nat, NEW b \in Nat, a <= b
    PROVE  /\ Stream(p, a, b) \in Seq(Peers \X Nat)
           /\ Len(Stream(p, a, b)) = b - a
           /\ \A i \in 1 .. b - a : Stream(p, a, b)[i] = <<p, a + i>>
           /\ Stream(p, a, a) = <<>>
           /\ a < b => Stream(p, a, b) # <<>> /\ Last(Stream(p, a, b)) = <<p, b>>
<1> DEFINE n == b - a
           t == [i \in 1 .. n |-> <<p, a + i>>]
<1>1. Stream(p, a, b) = t
  BY DEF Stream
<1>2. n \in Nat /\ a + n = b
  OBVIOUS
<1> HIDE DEF n
<1>3. t \in Seq(Peers \X Nat) /\ Len(t) = n /\ \A i \in 1 .. n : t[i] = <<p, a + i>>
  BY <1>2
<1>4. Stream(p, a, a) = <<>>
  BY DEF Stream
<1>5. ASSUME a < b PROVE t # <<>> /\ Last(t) = <<p, b>>
  <2>1. n \in 1 .. n /\ Len(t) # 0
    BY <1>2, <1>3, <1>5
  <2>2. Last(t) = t[n]
    BY <1>3 DEF Last
  <2> QED BY <1>2, <1>3, <2>1, <2>2
<1> QED BY <1>1, <1>3, <1>4, <1>5 DEF n

\* A stream continues where its first part ends.
LEMMA StreamJoin ==
    ASSUME NEW p \in Peers, NEW a \in Nat, NEW b \in Nat, NEW c \in Nat, a <= b, b <= c
    PROVE  Stream(p, a, b) \o Stream(p, b, c) = Stream(p, a, c)
<1> DEFINE s == Stream(p, a, b)
           t == Stream(p, b, c)
           u == Stream(p, a, c)
           v == s \o t
<1>1. /\ s \in Seq(Peers \X Nat) /\ Len(s) = b - a
      /\ \A i \in 1 .. b - a : s[i] = <<p, a + i>>
  BY StreamType
<1>2. /\ t \in Seq(Peers \X Nat) /\ Len(t) = c - b
      /\ \A i \in 1 .. c - b : t[i] = <<p, b + i>>
  BY StreamType
<1>0. a <= c
  OBVIOUS
<1>3. /\ u \in Seq(Peers \X Nat) /\ Len(u) = c - a
      /\ \A i \in 1 .. c - a : u[i] = <<p, a + i>>
  BY <1>0, StreamType
<1> HIDE DEF s, t, u
<1>4. v \in Seq(Peers \X Nat)
  BY <1>1, <1>2
<1>5. /\ Len(v) = Len(s) + Len(t)
      /\ \A i \in 1 .. Len(s) + Len(t) :
             v[i] = IF i <= Len(s) THEN s[i] ELSE t[i - Len(s)]
  BY <1>1, <1>2, ConcatProperties
<1>8. Len(s) + Len(t) = c - a /\ Len(s) = b - a
  BY <1>1, <1>2
<1> HIDE DEF v
<1>9. /\ Len(v) = c - a
      /\ \A i \in 1 .. c - a : v[i] = IF i <= b - a THEN s[i] ELSE t[i - (b - a)]
  BY <1>5, <1>8
<1>6. ASSUME NEW i \in 1 .. c - a PROVE v[i] = u[i]
  <2>1. CASE i <= b - a
    <3>1. i \in 1 .. b - a
      BY <2>1
    <3> QED BY <1>1, <1>3, <1>9, <2>1, <3>1
  <2>2. CASE ~(i <= b - a)
    <3>1. i - (b - a) \in 1 .. c - b /\ b + (i - (b - a)) = a + i
      BY <2>2
    <3> QED BY <1>2, <1>3, <1>9, <2>2, <3>1
  <2> QED BY <2>1, <2>2
<1>7. v = u
  <2>1. v \in Seq(Peers \X Nat) /\ u \in Seq(Peers \X Nat) /\ Len(v) = Len(u)
    BY <1>3, <1>4, <1>9
  <2>2. \A i \in 1 .. Len(u) : v[i] = u[i]
    BY <1>3, <1>6
  <2> QED BY <2>1, <2>2, SeqEqual
<1> QED BY <1>7 DEF u, v, s, t

\* The payload of a segment is a part of the stream, not empty.
LEMMA PieceType ==
    ASSUME NEW p \in Peers, NEW k \in 1 .. Len(Script[p])
    PROVE  /\ Piece(p, k) \in Seq(Peers \X Nat) /\ Piece(p, k) # <<>>
           /\ Len(Piece(p, k)) = Script[p][k].len
           /\ StreamLength(p, k - 1) + Len(Piece(p, k)) = StreamLength(p, k)
           /\ Stream(p, 0, StreamLength(p, k - 1)) \o Piece(p, k)
                  = Stream(p, 0, StreamLength(p, k))
           /\ EndsRequest(Piece(p, k)) <=> Script[p][k].last
<1> DEFINE a == StreamLength(p, k - 1)
           b == StreamLength(p, k)
<1>1. k - 1 \in 0 .. Len(Script[p]) /\ k \in 0 .. Len(Script[p]) /\ k - 1 < k
  BY ScriptType
<1>2. a \in Nat /\ b \in Nat /\ b = a + Script[p][k].len /\ a < b
  BY <1>1, StreamStep, StreamMonotonic
<1>3. Script[p][k].len \in Nat
  BY ScriptType
<1>11. a <= b /\ 0 <= a
  BY <1>2
<1>4. Piece(p, k) = Stream(p, a, b)
  BY DEF Piece
<1> HIDE DEF a, b
<1>5. /\ Piece(p, k) \in Seq(Peers \X Nat) /\ Piece(p, k) # <<>>
      /\ Len(Piece(p, k)) = b - a /\ Last(Piece(p, k)) = <<p, b>>
  <2> DEFINE t == Stream(p, a, b)
  <2>1. /\ t \in Seq(Peers \X Nat) /\ Len(t) = b - a
        /\ t # <<>> /\ Last(t) = <<p, b>>
    BY <1>2, <1>11, StreamType
  <2> QED BY <1>4, <2>1
<1>6. Stream(p, 0, a) \o Stream(p, a, b) = Stream(p, 0, b)
  BY <1>2, <1>11, StreamJoin
<1>7. EndsRequest(Piece(p, k)) <=>
          \E j \in DOMAIN Script[p] : Script[p][j].last /\ b = StreamLength(p, j)
  BY <1>5 DEF EndsRequest
<1>8. DOMAIN Script[p] = 1 .. Len(Script[p])
  BY ScriptType
<1>9. ASSUME NEW j \in DOMAIN Script[p], b = StreamLength(p, j) PROVE j = k
  <2>1. j \in 0 .. Len(Script[p]) /\ j \in Nat /\ k \in Nat
    BY <1>8, ScriptType
  <2>2. j < k => StreamLength(p, j) < b
    BY <1>1, <2>1, StreamMonotonic DEF b
  <2>3. k < j => b < StreamLength(p, j)
    BY <1>1, <2>1, StreamMonotonic DEF b
  <2> QED BY <1>2, <1>9, <2>1, <2>2, <2>3
<1>10. EndsRequest(Piece(p, k)) <=> Script[p][k].last
  BY <1>7, <1>8, <1>9 DEF b
<1>12. Len(Piece(p, k)) = Script[p][k].len /\ a + Len(Piece(p, k)) = b
  <2> DEFINE n == Script[p][k].len
  <2>1. n \in Nat /\ b = a + n
    BY <1>2, <1>3
  <2> HIDE DEF n
  <2>2. b - a = n /\ a + (b - a) = b
    BY <1>2, <2>1
  <2> QED BY <1>5, <2>2 DEF n
<1> QED BY <1>4, <1>5, <1>6, <1>10, <1>12 DEF a, b
(***************************************************************************)
(* Polite peers: on a network that keeps what it is given, or one that     *)
(* loses some of it.                                                       *)
(***************************************************************************)
NothingLost == LossBudget = 0 /\ RetryBudget = 0

(***************************************************************************)
(* A network that loses segments, with peers that send one at a time and   *)
(* repeat it.  The endpoint compares sequence numbers as unsigned numbers  *)
(* and lets the byte before the next one in, so that repetitions are told  *)
(* from new data only as long as the numbers do not wrap and no segment is *)
(* a single byte (InOrder).                                                *)
(***************************************************************************)
Lossy == LossBudget > 0

Distinguishable ==
    \A p \in Peers :
        /\ Isn[p] + 1 + StreamLength(p, Len(Script[p])) < SeqSpace
        /\ \A k \in DOMAIN Script[p] : Script[p][k].len >= 2

PolitePeers ==
    /\ Polite
    /\ \A p, q \in Peers : PeerAddress[p].port = PeerAddress[q].port => p = q
    /\ NothingLost \/ (Lossy /\ Distinguishable)

(***************************************************************************)
(* The inductive invariant.  First what does not concern a connection: the *)
(* types, the sockets that listen, and the addresses of those that do not. *)
(***************************************************************************)
PeerSegment == [src_port : RemotePorts, dest_port : Ports, ip : Hosts,
                seq_num : SeqNum, ack_num : SeqNum,
                syn : BOOLEAN, fin : BOOLEAN, ack : BOOLEAN,
                payload : Seq(Peers \X Nat)]

PeerFields == {"st", "snd_nxt", "rcv_nxt", "at", "answers", "unacked", "acked"}

PeerOK(p) ==
    /\ DOMAIN peer[p] = PeerFields
    /\ peer[p].st \in PeerStates
    /\ peer[p].snd_nxt \in SeqNum /\ peer[p].rcv_nxt \in SeqNum
    /\ peer[p].at \in 0 .. Len(Script[p])
    /\ peer[p].answers \in Nat

LinkTypeOK ==
    /\ DOMAIN peer = Peers /\ \A p \in Peers : PeerOK(p)
    /\ c2s \in [Peers -> Seq(PeerSegment)]
    /\ s2c \in [Peers -> Seq(Segment)]
    /\ \A i \in DOMAIN txq : txq[i].seg.syn => txq[i].seg.payload = <<>>
    /\ \A p \in Peers : \A i \in DOMAIN s2c[p] :
           s2c[p][i].syn => s2c[p][i].payload = <<>>

\* A socket has the port of the accept loop and is in the list while it lives;
\* at most one is about to be connected, and it is the last of the list.
SocketInv(s) ==
    /\ Live(s) => \E i \in DOMAIN sockets_ : sockets_[i] = s
    /\ own[s] # "unborn" => in_port_[s] = ServerPort
    /\ own[s] = "unborn" <=> state_[s] = "none"
    /\ own[s] = "deleted" => state_[s] = "closed"
    /\ state_[s] = "want_syn" =>
           /\ Len(sockets_) > 0 /\ sockets_[Len(sockets_)] = s
    /\ state_[s] \in {"none", "want_syn"} => got[s] = <<>> /\ recv_queue_[s] = <<>>

OneListens ==
    \A s, t \in Sockets :
        own[s] \in {"listen", "notified"} /\ own[t] \in {"listen", "notified"} => s = t

\* The socket that has, or had, the connection of a peer.
Conn(s, p) ==
    /\ state_[s] \notin {"none", "want_syn"}
    /\ out_port_[s] = PeerAddress[p].port

NoConn(p) == \A s \in Sockets : ~Conn(s, p)

ConnAddress ==
    /\ \A s, t \in Sockets, p \in Peers : Conn(s, p) /\ Conn(t, p) => s = t
    /\ \A s \in Sockets, p \in Peers : Conn(s, p) => ip_[s] = PeerAddress[p].ip
    /\ \A s \in Sockets : state_[s] \notin {"none", "want_syn"} =>
           \E p \in Peers : Conn(s, p)

(***************************************************************************)
(* Segments on their way to a peer: none, none that takes a sequence       *)
(* number, or one that does.                                               *)
(***************************************************************************)
Bound(i, p) == txq[i].seg.dest_port = PeerAddress[p].port

Nothing(p) == s2c[p] = <<>> /\ \A i \in DOMAIN txq : ~Bound(i, p)

Leaving(i, p) == Bound(i, p) /\ Span(txq[i].seg) # 0
Arriving(i, p) == Span(s2c[p][i]) # 0

Quiet(p) ==
    /\ \A i \in DOMAIN txq : ~Leaving(i, p)
    /\ \A i \in DOMAIN s2c[p] : ~Arriving(i, p)

NoFin(p) ==
    /\ \A i \in DOMAIN txq : Bound(i, p) => ~txq[i].seg.fin
    /\ \A i \in DOMAIN s2c[p] : ~s2c[p][i].fin

Single(p) ==
    /\ \A i, j \in DOMAIN txq : Leaving(i, p) /\ Leaving(j, p) => i = j
    /\ \A i, j \in DOMAIN s2c[p] : Arriving(i, p) /\ Arriving(j, p) => i = j
    /\ \A i \in DOMAIN txq, j \in DOMAIN s2c[p] : ~(Leaving(i, p) /\ Arriving(j, p))
    /\ NoFin(p)

(***************************************************************************)
(* A peer before, during and after the handshake.                          *)
(***************************************************************************)
SynOf(p) == PeerSeg(p, Isn[p], 0, TRUE, FALSE, FALSE, <<>>)

From(m, p) ==
    /\ m.src_port = PeerAddress[p].port
    /\ m.dest_port = ServerPort
    /\ m.ip = PeerAddress[p].ip

PeerInv(p) ==
    /\ \A i \in DOMAIN c2s[p] :
           /\ From(c2s[p][i], p)
           /\ c2s[p][i].syn => peer[p].st = "syn_sent"
    /\ peer[p].st = "closed" =>
           /\ NoConn(p) /\ c2s[p] = <<>>
           /\ peer[p].snd_nxt = Isn[p] /\ peer[p].unacked = <<>>
    /\ peer[p].st = "syn_sent" =>
           /\ peer[p].unacked = <<SynOf(p)>>
           /\ c2s[p] = <<>> \/ (c2s[p] = <<SynOf(p)>> /\ NoConn(p))
           /\ \A s \in Sockets : Conn(s, p) => own[s] = "listen"
    /\ peer[p].st \in {"closed", "syn_sent"} =>
           peer[p].at = 0 /\ peer[p].answers = 0 /\ peer[p].acked = 0
    /\ Lossy =>
           /\ peer[p].unacked \in Seq(PeerSegment)
           /\ \A i \in DOMAIN peer[p].unacked :
                  /\ From(peer[p].unacked[i], p)
                  /\ peer[p].unacked[i].syn => peer[p].st = "syn_sent"
    /\ peer[p].st \in {"syn_sent", "established"} =>
           peer[p].snd_nxt = Num(p, StreamLength(p, peer[p].at))
    /\ NoConn(p) => Nothing(p) /\ peer[p].st \in {"closed", "syn_sent"}

(***************************************************************************)
(* A connection.  Of the peer's segments the worker has taken the first r, *)
(* the receive queue has got the first e, and the endpoint has the first   *)
(* d: the dispatcher may hold one whose acknowledgement is being sent.     *)
(***************************************************************************)
Holding(s) ==
    disp.pc = "data_ack" /\ disp.sock = s /\ disp.pkt.payload # <<>>

Facts(s, p, r, e, d) ==
    /\ r <= e /\ e <= d /\ d <= peer[p].at
    /\ got[s] = Stream(p, 0, StreamLength(p, e))
    /\ Len(recv_queue_[s]) = e - r
    /\ \A i \in 1 .. e - r : recv_queue_[s][i] = Piece(p, r + i)
    /\ Holding(s) => d = e + 1 /\ disp.pkt.payload = Piece(p, d)
    /\ ~Holding(s) => d = e

\* The socket still takes what its peer sends.
Receiving(s) ==
    \/ state_[s] = "connected"
    \/ state_[s] = "want_ack" /\ next_state_[s] = "connected"

\* The peer has closed.
Passive(s) == state_[s] = "want_ack" /\ next_state_[s] = "closed"

IsAck(m, n) == ~m.syn /\ ~m.fin /\ m.ack /\ m.seq_num = n

IsPiece(m, p, k) ==
    /\ IsAck(m, Num(p, StreamLength(p, k - 1)))
    /\ m.payload = Piece(p, k)

\* On the way from the peer, after the first a segments: the pieces of its
\* stream the endpoint does not have yet, and the FIN if it was sent.
Rest(p, a, d) ==
    LET n == a + (peer[p].at - d)
    IN  /\ peer[p].st \in {"established", "fin_sent"}
        /\ \A k \in 1 .. peer[p].at - d : IsPiece(c2s[p][a + k], p, d + k)
        /\ peer[p].st = "established" => Len(c2s[p]) = n
        /\ peer[p].st = "fin_sent" =>
               /\ Len(c2s[p]) = n + 1 /\ c2s[p][n + 1].fin /\ c2s[p][n + 1].ack
               /\ peer[p].answers = Requests(p, peer[p].at)

\* The endpoint has sent a SYN-ACK or an answer, which the peer has not got yet.
Outstanding(p, r, d) ==
    /\ Single(p)
    /\ r = d /\ d = peer[p].at
    /\ \/ peer[p].st = "syn_sent"
       \/ peer[p].st = "established" /\ peer[p].answers < Requests(p, peer[p].at)

Waiting(p, r, d) == c2s[p] = <<>> /\ Outstanding(p, r, d)

\* The peer has got it, and its acknowledgement is on the way.
Acked(p, r, d) ==
    /\ r = d /\ Quiet(p)
    /\ Len(c2s[p]) > 0 /\ IsAck(c2s[p][1], Num(p, StreamLength(p, d)))
    /\ Rest(p, 1, d)

Opened(p, d) == Quiet(p) /\ Rest(p, 0, d)

\* What is on its way when nothing is lost.
KeptFlow(s, p, r, d) ==
    /\ state_[s] = "want_ack" => Waiting(p, r, d) \/ Acked(p, r, d)
    /\ state_[s] = "connected" => Opened(p, d)

(***************************************************************************)
(* And when segments are lost and repeated.  From the peer: what it sent,  *)
(* in any number of copies, but no acknowledgement of what the endpoint    *)
(* does not have; to the peer: no acknowledgement of more than the         *)
(* endpoint has.  The peer is at most one segment ahead.                   *)
(***************************************************************************)
IsFin(m) == ~m.syn /\ m.fin /\ m.ack /\ m.payload = <<>>

Known(m, p, d) ==
    \/ /\ m.payload = <<>>
       /\ \E k \in 0 .. d : IsAck(m, Num(p, StreamLength(p, k)))
    \/ \E k \in 1 .. peer[p].at : IsPiece(m, p, k)
    \/ peer[p].st = "fin_sent" /\ IsFin(m)

OnTheWay(p, d) == \A i \in DOMAIN c2s[p] : Known(c2s[p][i], p, d)

Covers(m, p, d) == \E k \in 0 .. d : m.ack_num = Num(p, StreamLength(p, k))

Numbered(p, d) ==
    /\ \A i \in DOMAIN txq : Bound(i, p) => Covers(txq[i].seg, p, d)
    /\ \A i \in DOMAIN s2c[p] : Covers(s2c[p][i], p, d)

\* What the peer has had acknowledged and what it would send again: nothing or
\* its FIN; nothing; its last piece.
FinLeft(p) ==
    /\ peer[p].acked = StreamLength(p, peer[p].at)
    /\ \/ peer[p].unacked = <<>>
       \/ Len(peer[p].unacked) = 1 /\ IsFin(peer[p].unacked[1])

AllLeft(p, d) ==
    /\ peer[p].unacked = <<>> /\ peer[p].at = d
    /\ peer[p].acked = StreamLength(p, peer[p].at)

PieceLeft(p) ==
    /\ peer[p].at > 0
    /\ Len(peer[p].unacked) = 1 /\ IsPiece(peer[p].unacked[1], p, peer[p].at)
    /\ peer[p].acked = StreamLength(p, peer[p].at - 1)

Window(p, d) ==
    /\ peer[p].at <= d + 1
    /\ peer[p].st \in {"syn_sent", "established", "fin_sent"}
    /\ peer[p].st = "established" => AllLeft(p, d) \/ PieceLeft(p)
    /\ peer[p].st = "fin_sent" =>
           /\ peer[p].at = d /\ peer[p].answers = Requests(p, peer[p].at)
           /\ FinLeft(p)

LossyFlow(s, p, r, d) ==
    /\ state_[s] = "want_ack" => r = d
    /\ Quiet(p) \/ Outstanding(p, r, d)
    /\ OnTheWay(p, d) /\ Numbered(p, d) /\ Window(p, d)

Flow(s, p, r, d) ==
    /\ in_seq_[s] = Num(p, StreamLength(p, d))
    /\ Requests(p, peer[p].at - 1) <= peer[p].answers
    /\ peer[p].answers <= Requests(p, r)
    /\ Lossy => LossyFlow(s, p, r, d)
    /\ ~Lossy => KeptFlow(s, p, r, d)

\* The endpoint has all of the stream, and the peer knows.
Closing(p) == peer[p].st \in {"fin_sent", "done"} /\ FinLeft(p)

Finished(p, d) == d = peer[p].at /\ Closing(p)

Ended(p, r, e, d) ==
    /\ \A k \in r + 1 .. e : ~Script[p][k].last
    /\ Lossy => Finished(p, d)

ConnInv(s, p) ==
    \E r, e, d \in 0 .. Len(Script[p]) :
        /\ Facts(s, p, r, e, d)
        /\ Receiving(s) => Flow(s, p, r, d)
        /\ Passive(s) => Ended(p, r, e, d)

ConnectionsInv ==
    /\ LinkTypeOK
    /\ (\A s \in Sockets : SocketInv(s)) /\ OneListens
    /\ ConnAddress
    /\ \A p \in Peers : PeerInv(p)
    /\ \A s \in Sockets, p \in Peers : Conn(s, p) => ConnInv(s, p)

LinkInv == TypeOK /\ ActorsAgree /\ failed = "no" /\ ConnectionsInv

-----------------------------------------------------------------------------
(***************************************************************************)
(* What leaves the invariant of a connection as it is.                     *)
(***************************************************************************)
Keeps(s, p) ==
    /\ got'[s] = got[s] /\ recv_queue_'[s] = recv_queue_[s]
    /\ peer'[p].at = peer[p].at
    /\ Lossy /\ Closing(p) => Closing(p)'
    /\ Holding(s)' <=> Holding(s)
    /\ Holding(s) => disp' = disp

NoMore(p) == \A i \in DOMAIN c2s'[p] : \E j \in DOMAIN c2s[p] : c2s'[p][i] = c2s[p][j]

KeepsFlow(s, p) ==
    /\ in_seq_'[s] = in_seq_[s] /\ state_'[s] = state_[s]
    /\ peer'[p] = peer[p]
    /\ c2s'[p] = c2s[p] \/ (Lossy /\ NoMore(p))
    /\ Quiet(p) => Quiet(p)'
    /\ Single(p) => Single(p)'
    /\ \A d : Numbered(p, d) => Numbered(p, d)'

\* What is on its way stays what it was.
LEMMA LossyKept ==
    ASSUME NEW s \in Sockets, NEW p \in Peers, KeepsFlow(s, p), NEW r, NEW d,
           LossyFlow(s, p, r, d)
    PROVE  LossyFlow(s, p, r, d)'
<1>1. peer'[p] = peer[p] /\ state_'[s] = state_[s]
  BY DEF KeepsFlow
<1>2. \A m : Known(m, p, d) => Known(m, p, d)'
  BY <1>1 DEF Known
<1>3. OnTheWay(p, d)'
  BY <1>2 DEF OnTheWay, LossyFlow, KeepsFlow, NoMore
<1>4. Quiet(p)' \/ Outstanding(p, r, d)'
  BY <1>1 DEF LossyFlow, KeepsFlow, Outstanding
<1>5. Numbered(p, d)'
  BY DEF LossyFlow, KeepsFlow
<1>6. Window(p, d)'
  BY <1>1 DEF LossyFlow, Window, AllLeft, PieceLeft, FinLeft
<1> QED BY <1>1, <1>3, <1>4, <1>5, <1>6 DEF LossyFlow

LEMMA KeptKept ==
    ASSUME NEW s \in Sockets, NEW p \in Peers, KeepsFlow(s, p), ~Lossy, NEW r, NEW d,
           KeptFlow(s, p, r, d)
    PROVE  KeptFlow(s, p, r, d)'
<1>1. peer'[p] = peer[p] /\ state_'[s] = state_[s] /\ c2s'[p] = c2s[p]
  BY DEF KeepsFlow
<1>2. Waiting(p, r, d) => Waiting(p, r, d)'
  BY <1>1 DEF KeepsFlow, Waiting, Outstanding
<1>3. \A a : Rest(p, a, d) => Rest(p, a, d)'
  BY <1>1 DEF Rest
<1>4. Acked(p, r, d) => Acked(p, r, d)'
  BY <1>1, <1>3 DEF KeepsFlow, Acked
<1>5. Opened(p, d) => Opened(p, d)'
  BY <1>3 DEF KeepsFlow, Opened
<1> QED BY <1>1, <1>2, <1>4, <1>5 DEF KeptFlow

LEMMA FlowKept ==
    ASSUME NEW s \in Sockets, NEW p \in Peers, KeepsFlow(s, p), NEW r, NEW d,
           Flow(s, p, r, d)
    PROVE  Flow(s, p, r, d)'
<1>1. peer'[p] = peer[p] /\ in_seq_'[s] = in_seq_[s]
  BY DEF KeepsFlow
<1>2. Lossy => LossyFlow(s, p, r, d)'
  BY LossyKept DEF Flow
<1>3. ~Lossy => KeptFlow(s, p, r, d)'
  BY KeptKept DEF Flow
<1> QED BY <1>1, <1>2, <1>3 DEF Flow, Lossy

\* A connection whose socket, peer and segments keep what matters.
LEMMA ConnFrame ==
    ASSUME NEW s \in Sockets, NEW p \in Peers, ConnInv(s, p), Keeps(s, p),
           Receiving(s)' => Receiving(s) /\ KeepsFlow(s, p),
           Passive(s)' => Passive(s)
    PROVE  ConnInv(s, p)'
<1>1. PICK r \in 0 .. Len(Script[p]), e \in 0 .. Len(Script[p]), d \in 0 .. Len(Script[p]) :
          /\ Facts(s, p, r, e, d)
          /\ Receiving(s) => Flow(s, p, r, d)
          /\ Passive(s) => Ended(p, r, e, d)
  BY DEF ConnInv
<1>2. Facts(s, p, r, e, d)'
  BY <1>1 DEF Facts, Keeps
<1>3. Receiving(s)' => Flow(s, p, r, d)'
  BY <1>1, FlowKept
<1>4. Passive(s)' => Ended(p, r, e, d)'
  BY <1>1 DEF Ended, Finished, Keeps, Lossy
<1> QED BY <1>1, <1>2, <1>3, <1>4 DEF ConnInv

(***************************************************************************)
(* Segments on their way to a peer.                                        *)
(***************************************************************************)
LEMMA TransitStill ==
    ASSUME NEW p \in Peers, txq' = txq, s2c'[p] = s2c[p]
    PROVE  /\ Quiet(p) <=> Quiet(p)'
           /\ Single(p) <=> Single(p)'
           /\ Nothing(p) <=> Nothing(p)'
           /\ \A d : Numbered(p, d) <=> Numbered(p, d)'
<1>1. \A d : Numbered(p, d) <=> Numbered(p, d)'
  BY DEF Numbered, Covers, Bound
<1> QED BY <1>1 DEF Quiet, Single, NoFin, Nothing, Bound, Leaving, Arriving

\* What takes a sequence number: SYN, FIN and data.
LEMMA SpanType ==
    ASSUME NEW m, m.payload \in Seq(Bytes)
    PROVE  /\ Span(m) \in Nat
           /\ m.syn \/ m.fin => Span(m) # 0
           /\ m.payload # <<>> => Span(m) # 0
<1>1. Len(m.payload) \in Nat /\ (m.payload # <<>> => Len(m.payload) # 0)
  OBVIOUS
<1>2. CASE m.syn \/ m.fin
  <2>1. Span(m) = Len(m.payload) + 1
    BY <1>2 DEF Span
  <2> QED BY <1>1, <2>1
<1>3. CASE ~(m.syn \/ m.fin)
  <2>1. Span(m) = Len(m.payload) + 0
    BY <1>3 DEF Span
  <2> QED BY <1>1, <1>3, <2>1
<1> QED BY <1>2, <1>3

\* A path on which nothing takes a sequence number carries no FIN.
LEMMA QuietNoFin ==
    ASSUME TypeOK, LinkTypeOK, NEW p \in Peers, Quiet(p)
    PROVE  NoFin(p) /\ Single(p)
<1>1. \A m \in Segment : Span(m) = 0 => ~m.fin
  BY SpanType DEF Segment
<1>2. \A i \in DOMAIN txq : txq[i].seg \in Segment
  <2> DEFINE T == [by : Sockets \cup {Dispatcher}, seg : Segment]
  <2>1. txq \in Seq(T) /\ \A x \in T : x.seg \in Segment
    BY DEF TypeOK
  <2> HIDE DEF T
  <2> QED BY <2>1
<1>3. \A i \in DOMAIN s2c[p] : s2c[p][i] \in Segment
  BY DEF LinkTypeOK
<1>4. NoFin(p)
  BY <1>1, <1>2, <1>3 DEF Quiet, NoFin, Leaving, Arriving
<1> QED BY <1>4 DEF Quiet, Single

\* The NIC is given a frame.
LEMMA TransitSent ==
    ASSUME TypeOK, LinkTypeOK, NEW p \in Peers, NEW task \in Sockets \cup {Dispatcher},
           NEW seg \in Segment, Transmit(task, seg), s2c'[p] = s2c[p]
    PROVE  /\ seg.dest_port # PeerAddress[p].port =>
                  /\ Quiet(p) => Quiet(p)'
                  /\ Single(p) => Single(p)'
                  /\ Nothing(p) => Nothing(p)'
                  /\ \A d : Numbered(p, d) => Numbered(p, d)'
           /\ \A d : Numbered(p, d) /\ Covers(seg, p, d) => Numbered(p, d)'
           /\ Span(seg) = 0 =>
                  /\ Quiet(p) => Quiet(p)'
                  /\ Single(p) => Single(p)'
           /\ ~seg.fin /\ Quiet(p) => Single(p)'
<1>1. PICK n \in Nat :
      /\ DOMAIN txq = 1 .. n /\ DOMAIN txq' = 1 .. n + 1
      /\ \A i \in 1 .. n : txq'[i] = txq[i]
      /\ txq'[n + 1].seg = seg
      /\ \A i \in 1 .. n + 1 : i \in 1 .. n \/ i = n + 1
  <2> DEFINE n == Len(txq)
             T == [by : Sockets \cup {Dispatcher}, seg : Segment]
             x == [by |-> task, seg |-> seg]
  <2>1. txq' = Append(txq, x) /\ x \in T /\ x.seg = seg
    BY DEF Transmit
  <2>2. txq \in Seq(T)
    BY DEF TypeOK
  <2> HIDE DEF T, x
  <2>3. /\ n \in Nat /\ DOMAIN txq = 1 .. n /\ DOMAIN txq' = 1 .. n + 1
        /\ \A i \in 1 .. n : txq'[i] = txq[i]
        /\ txq'[n + 1].seg = seg
    BY <2>1, <2>2
  <2>4. \A i \in 1 .. n + 1 : i \in 1 .. n \/ i = n + 1
    BY <2>3
  <2> QED BY <2>3, <2>4
<1> DEFINE k == n + 1
<1> HIDE DEF k
<1>2. seg.fin => Span(seg) # 0
  BY SpanType DEF Segment
<1>3. /\ \A i \in 1 .. n : /\ Bound(i, p)' <=> Bound(i, p)
                           /\ Leaving(i, p)' <=> Leaving(i, p)
      /\ Bound(k, p)' <=> seg.dest_port = PeerAddress[p].port
      /\ Leaving(k, p)' <=> seg.dest_port = PeerAddress[p].port /\ Span(seg) # 0
  BY <1>1 DEF Bound, Leaving, k
<1>4. \A i : Arriving(i, p)' <=> Arriving(i, p)
  BY DEF Arriving
<1>5. \A i \in DOMAIN txq' : i \in DOMAIN txq \/ i = k
  BY <1>1 DEF k
<1>6. /\ \A i \in DOMAIN txq : txq'[i] = txq[i]
      /\ txq'[k].seg = seg /\ DOMAIN txq = 1 .. n
  BY <1>1 DEF k
<1>7. Quiet(p) /\ ~Leaving(k, p)' => Quiet(p)'
  BY <1>3, <1>4, <1>5, <1>6 DEF Quiet
<1>8. Nothing(p) /\ ~Bound(k, p)' => Nothing(p)'
  BY <1>3, <1>4, <1>5, <1>6 DEF Nothing
<1>9. NoFin(p) /\ (Bound(k, p)' => ~seg.fin) => NoFin(p)'
  BY <1>3, <1>5, <1>6 DEF NoFin
<1>10. Single(p) /\ ~Leaving(k, p)' /\ (Bound(k, p)' => ~seg.fin) => Single(p)'
  BY <1>3, <1>4, <1>5, <1>6, <1>9 DEF Single
<1>11. Quiet(p) /\ ~seg.fin => Single(p)'
  <2> SUFFICES ASSUME Quiet(p), ~seg.fin PROVE Single(p)'
    OBVIOUS
  <2>1. NoFin(p)'
    BY <1>9, QuietNoFin
  <2> QED BY <1>3, <1>4, <1>5, <1>6, <2>1 DEF Quiet, Single
<1>12. \A d : Numbered(p, d) /\ (Bound(k, p)' => Covers(seg, p, d)) => Numbered(p, d)'
  <2> SUFFICES ASSUME NEW d, Numbered(p, d), Bound(k, p)' => Covers(seg, p, d)
               PROVE  Numbered(p, d)'
    OBVIOUS
  <2>1. \A m : Covers(m, p, d)' <=> Covers(m, p, d)
    BY DEF Covers
  <2>2. ASSUME NEW i \in DOMAIN txq', Bound(i, p)' PROVE Covers(txq'[i].seg, p, d)
    <3>1. CASE i \in DOMAIN txq
      BY <1>3, <1>6, <2>2, <3>1 DEF Numbered
    <3>2. CASE i = k
      BY <1>6, <2>2, <3>2
    <3> QED BY <1>5, <3>1, <3>2
  <2>3. ASSUME NEW i \in DOMAIN s2c'[p] PROVE Covers(s2c'[p][i], p, d)
    BY DEF Numbered
  <2> QED BY <2>2, <2>3 DEF Numbered, Covers
<1> QED BY <1>2, <1>3, <1>7, <1>8, <1>10, <1>11, <1>12

\* A frame leaves the NIC.
LEMMA TransitMoved ==
    ASSUME TypeOK, LinkTypeOK, NEW p \in Peers, ServerTx
    PROVE  /\ Quiet(p) => Quiet(p)'
           /\ Single(p) => Single(p)'
           /\ Nothing(p) => Nothing(p)'
           /\ \A d : Numbered(p, d) => Numbered(p, d)'
<1> DEFINE T == [by : Sockets \cup {Dispatcher}, seg : Segment]
<1>1. PICK n \in Nat :
      /\ DOMAIN txq = 1 .. n + 1 /\ DOMAIN txq' = 1 .. n
      /\ \A i \in 1 .. n : txq'[i] = txq[i + 1]
      /\ Head(txq) = txq[1] /\ txq[1] \in T
  <2>1. txq \in Seq(T) /\ txq # <<>> /\ txq' = Tail(txq)
    BY DEF TypeOK, ServerTx, TxDone
  <2> HIDE DEF T
  <2> DEFINE n == Len(txq) - 1
  <2>2. n \in Nat /\ DOMAIN txq = 1 .. n + 1
    BY <2>1, HeadTail
  <2>3. DOMAIN txq' = 1 .. n /\ \A i \in 1 .. n : txq'[i] = txq[i + 1]
    BY <2>1, HeadTail
  <2>4. Head(txq) = txq[1] /\ txq[1] \in T
    BY <2>1, HeadTail
  <2> QED BY <2>2, <2>3, <2>4
<1> DEFINE h == txq[1].seg
           up(i) == i + 1
<1>2. /\ 1 \in DOMAIN txq
      /\ \A i \in DOMAIN txq' :
             up(i) \in DOMAIN txq /\ up(i) # 1 /\ txq'[i] = txq[up(i)]
      /\ \A i, j \in DOMAIN txq' : up(i) = up(j) => i = j
  BY <1>1
<1>3. \/ s2c'[p] = s2c[p]
      \/ Bound(1, p) /\ s2c'[p] = Append(s2c[p], h)
  <2>1. s2c'[p] = IF PeerAddress[p] = [ip |-> h.ip, port |-> h.dest_port]
                  THEN Append(s2c[p], h) ELSE s2c[p]
    BY <1>1 DEF ServerTx
  <2>2. PeerAddress[p] = [ip |-> h.ip, port |-> h.dest_port] => Bound(1, p)
    BY DEF Bound
  <2> QED BY <2>1, <2>2
<1>4. h \in Segment
  BY <1>1
<1> HIDE DEF up, h, T
<1>5. \A i \in DOMAIN txq' : /\ Bound(i, p)' <=> Bound(up(i), p)
                             /\ Leaving(i, p)' <=> Leaving(up(i), p)
  BY <1>2 DEF Bound, Leaving
<1>6. ASSUME s2c'[p] = s2c[p]
      PROVE  /\ Quiet(p) => Quiet(p)'
             /\ Single(p) => Single(p)'
             /\ Nothing(p) => Nothing(p)'
             /\ \A d : Numbered(p, d) => Numbered(p, d)'
  <2>1. \A i : Arriving(i, p)' <=> Arriving(i, p)
    BY <1>6 DEF Arriving
  <2>2. Quiet(p) => Quiet(p)'
    BY <1>2, <1>5, <1>6, <2>1 DEF Quiet
  <2>3. Nothing(p) => Nothing(p)'
    BY <1>2, <1>5, <1>6 DEF Nothing
  <2>4. NoFin(p) => NoFin(p)'
    BY <1>2, <1>5, <1>6 DEF NoFin
  <2>5. Single(p) => Single(p)'
    BY <1>2, <1>5, <1>6, <2>1, <2>4 DEF Single
  <2>6. \A d : Numbered(p, d) => Numbered(p, d)'
    BY <1>2, <1>5, <1>6 DEF Numbered, Covers
  <2> QED BY <2>2, <2>3, <2>5, <2>6
<1>7. ASSUME Bound(1, p), s2c'[p] = Append(s2c[p], h)
      PROVE  /\ Quiet(p) => Quiet(p)'
             /\ Single(p) => Single(p)'
             /\ Nothing(p) => Nothing(p)'
             /\ \A d : Numbered(p, d) => Numbered(p, d)'
  <2>1. PICK k : /\ \A i \in DOMAIN s2c'[p] : i \in DOMAIN s2c[p] \/ i = k
                 /\ \A i \in DOMAIN s2c[p] : s2c'[p][i] = s2c[p][i]
                 /\ s2c'[p][k] = h
    <3>1. s2c[p] \in Seq(Segment)
      BY DEF LinkTypeOK
    <3> DEFINE m == Len(s2c[p])
    <3>2. /\ DOMAIN s2c'[p] = 1 .. m + 1 /\ m \in Nat /\ DOMAIN s2c[p] = 1 .. m
          /\ \A i \in 1 .. m : s2c'[p][i] = s2c[p][i]
          /\ s2c'[p][m + 1] = h
      BY <1>4, <1>7, <3>1, AppendLast
    <3>3. \A i \in 1 .. m + 1 : i \in 1 .. m \/ i = m + 1
      BY <3>2
    <3> QED BY <3>2, <3>3
  <2>2. /\ \A i \in DOMAIN s2c[p] : Arriving(i, p)' <=> Arriving(i, p)
        /\ Arriving(k, p)' <=> Leaving(1, p)
    BY <1>7, <2>1 DEF Arriving, Leaving, h
  <2>3. Quiet(p) => Quiet(p)'
    BY <1>2, <1>5, <2>1, <2>2 DEF Quiet
  <2>4. Nothing(p) => Nothing(p)'
    BY <1>2, <1>7 DEF Nothing
  <2>5. NoFin(p) => NoFin(p)'
    BY <1>2, <1>5, <1>7, <2>1 DEF NoFin, h
  <2>6. Single(p) => Single(p)'
    BY <1>2, <1>5, <2>1, <2>2, <2>5 DEF Single
  <2>7. \A d : Numbered(p, d) => Numbered(p, d)'
    BY <1>2, <1>5, <1>7, <2>1 DEF Numbered, Covers, h
  <2> QED BY <2>3, <2>4, <2>6, <2>7
<1> QED BY <1>3, <1>6, <1>7

\* The peer takes the first of the segments that have arrived.
LEMMA TransitTaken ==
    ASSUME LinkTypeOK, NEW p \in Peers, s2c[p] # <<>>, s2c'[p] = Tail(s2c[p]),
           txq' = txq
    PROVE  /\ Quiet(p) => Quiet(p)' /\ Span(Head(s2c[p])) = 0
           /\ Single(p) => Single(p)' /\ ~Head(s2c[p]).fin
           /\ Single(p) /\ Span(Head(s2c[p])) # 0 => Quiet(p)'
           /\ \A d : Numbered(p, d) => Numbered(p, d)' /\ Covers(Head(s2c[p]), p, d)
<1> DEFINE up(i) == i + 1
<1>1. /\ 1 \in DOMAIN s2c[p] /\ Head(s2c[p]) = s2c[p][1]
      /\ \A i \in DOMAIN s2c'[p] :
             up(i) \in DOMAIN s2c[p] /\ up(i) # 1 /\ s2c'[p][i] = s2c[p][up(i)]
      /\ \A i, j \in DOMAIN s2c'[p] : up(i) = up(j) => i = j
  <2>1. s2c[p] \in Seq(Segment)
    BY DEF LinkTypeOK
  <2> DEFINE q == s2c[p]
  <2>2. Len(q) \in Nat \ {0} /\ DOMAIN q = 1 .. Len(q) /\ Head(q) = q[1]
    BY <2>1, HeadTail
  <2>3. DOMAIN s2c'[p] = 1 .. Len(q) - 1 /\ \A i \in 1 .. Len(q) - 1 : s2c'[p][i] = q[i + 1]
    BY <2>1, HeadTail
  <2> QED BY <2>2, <2>3
<1> HIDE DEF up
<1>2. \A i : /\ Bound(i, p)' <=> Bound(i, p)
             /\ Leaving(i, p)' <=> Leaving(i, p)
  BY DEF Bound, Leaving
<1>3. /\ \A i \in DOMAIN s2c'[p] : Arriving(i, p)' <=> Arriving(up(i), p)
      /\ Arriving(1, p) <=> Span(Head(s2c[p])) # 0
  BY <1>1 DEF Arriving
<1>4. Quiet(p) => Quiet(p)' /\ Span(Head(s2c[p])) = 0
  BY <1>1, <1>2, <1>3 DEF Quiet
<1>5. NoFin(p) => NoFin(p)' /\ ~Head(s2c[p]).fin
  BY <1>1, <1>2 DEF NoFin
<1>6. Single(p) => Single(p)' /\ ~Head(s2c[p]).fin
  BY <1>1, <1>2, <1>3, <1>5 DEF Single
<1>7. Single(p) /\ Span(Head(s2c[p])) # 0 => Quiet(p)'
  BY <1>1, <1>2, <1>3 DEF Single, Quiet
<1>8. \A d : Numbered(p, d) => Numbered(p, d)' /\ Covers(Head(s2c[p]), p, d)
  BY <1>1, <1>2 DEF Numbered, Covers
<1> QED BY <1>4, <1>6, <1>7, <1>8
(***************************************************************************)
(* A step of one connected socket: of its worker, or of the dispatcher     *)
(* with a segment of its peer or after a reply.                            *)
(***************************************************************************)
Elsewhere(s) ==
    \A t \in Sockets \ {s} :
        /\ state_'[t] = state_[t] /\ next_state_'[t] = next_state_[t]
        /\ in_seq_'[t] = in_seq_[t] /\ own'[t] = own[t]
        /\ recv_queue_'[t] = recv_queue_[t] /\ got'[t] = got[t]
        /\ Holding(t)' <=> Holding(t)
        /\ Holding(t) => disp' = disp

Sends(s) ==
    \/ txq' = txq
    \/ \E task \in Sockets \cup {Dispatcher}, seg \in Segment :
           Transmit(task, seg) /\ seg.dest_port = out_port_[s] /\ ~seg.syn

ListKept(s) ==
    \/ sockets_' = sockets_
    \/ /\ own'[s] = "deleted" /\ state_'[s] = "closed"
       /\ \E i \in DOMAIN sockets_ :
              sockets_[i] = s /\ sockets_' = RemoveAt(sockets_, i)

OwnerKept(s, p) ==
    /\ own'[s] # "unborn" /\ Live(s)
    /\ own'[s] = "deleted" => state_'[s] = "closed"
    /\ own'[s] \in {"listen", "notified"} => own[s] \in {"listen", "notified"}
    /\ own'[s] = own[s] \/ peer[p].st # "syn_sent"

FromPeer(p) ==
    \/ c2s' = c2s
    \/ c2s[p] # <<>> /\ c2s' = [c2s EXCEPT ![p] = Tail(@)]

\* While a worker has not taken all that the endpoint has, the endpoint's last
\* answer has been received.
LEMMA FlowSays ==
    ASSUME NEW s \in Sockets, NEW p \in Peers, NEW r, NEW d,
           Flow(s, p, r, d), Receiving(s)
    PROVE  /\ state_[s] = "want_ack" => r = d
           /\ Quiet(p) \/ Outstanding(p, r, d)
<1>1. CASE Lossy
  BY <1>1 DEF Flow, LossyFlow
<1>2. CASE ~Lossy
  <2>1. Waiting(p, r, d) \/ Acked(p, r, d) \/ Opened(p, d)
    BY <1>2 DEF Flow, KeptFlow, Receiving
  <2>2. state_[s] = "want_ack" => Waiting(p, r, d) \/ Acked(p, r, d)
    BY <1>2 DEF Flow, KeptFlow
  <2> QED BY <2>1, <2>2 DEF Waiting, Outstanding, Acked, Opened
<1> QED BY <1>1, <1>2

\* A frame of one socket changes nothing for the peers of others.
LEMMA TransmitKeepsType ==
    ASSUME TypeOK, LinkTypeOK, NEW s \in Sockets, Sends(s), s2c' = s2c
    PROVE  /\ \A i \in DOMAIN txq' : txq'[i].seg.syn => txq'[i].seg.payload = <<>>
           /\ \A q \in Peers :
                  out_port_[s] # PeerAddress[q].port =>
                      /\ Quiet(q) => Quiet(q)'
                      /\ Single(q) => Single(q)'
                      /\ Nothing(q) => Nothing(q)'
                      /\ \A d : Numbered(q, d) => Numbered(q, d)'
<1>1. CASE txq' = txq
  BY <1>1, TransitStill DEF LinkTypeOK
<1>2. ASSUME NEW task \in Sockets \cup {Dispatcher}, NEW seg \in Segment,
             Transmit(task, seg), seg.dest_port = out_port_[s], ~seg.syn
      PROVE  /\ \A i \in DOMAIN txq' : txq'[i].seg.syn => txq'[i].seg.payload = <<>>
             /\ \A q \in Peers :
                    out_port_[s] # PeerAddress[q].port =>
                        /\ Quiet(q) => Quiet(q)'
                        /\ Single(q) => Single(q)'
                        /\ Nothing(q) => Nothing(q)'
                        /\ \A d : Numbered(q, d) => Numbered(q, d)'
  <2>1. \A i \in DOMAIN txq' : \/ txq'[i] = [by |-> task, seg |-> seg]
                               \/ i \in DOMAIN txq /\ txq'[i] = txq[i]
    <3> DEFINE T == [by : Sockets \cup {Dispatcher}, seg : Segment]
               x == [by |-> task, seg |-> seg]
    <3>1. txq \in Seq(T) /\ x \in T /\ txq' = Append(txq, x)
      BY <1>2 DEF TypeOK, Transmit
    <3> HIDE DEF T, x
    <3>2. \A i \in DOMAIN txq' : \/ txq'[i] = x
                                 \/ i \in DOMAIN txq /\ txq'[i] = txq[i]
      BY <3>1
    <3> QED BY <3>2 DEF x
  <2>2. \A i \in DOMAIN txq' : txq'[i].seg.syn => txq'[i].seg.payload = <<>>
    BY <1>2, <2>1 DEF LinkTypeOK
  <2> QED BY <1>2, <2>2, TransitSent
<1> QED BY <1>1, <1>2 DEF Sends

\* Taking a segment leaves the others on their way.
LEMMA ArrivalsType ==
    ASSUME LinkTypeOK, NEW p \in Peers, FromPeer(p)
    PROVE  /\ c2s' \in [Peers -> Seq(PeerSegment)]
           /\ \A q \in Peers : q # p => c2s'[q] = c2s[q]
           /\ \A i \in DOMAIN c2s'[p] :
                  \E j \in DOMAIN c2s[p] : c2s'[p][i] = c2s[p][j]
<1>1. CASE c2s' = c2s
  BY <1>1 DEF LinkTypeOK
<1>2. CASE c2s[p] # <<>> /\ c2s' = [c2s EXCEPT ![p] = Tail(@)]
  <2>1. c2s[p] \in Seq(PeerSegment) /\ DOMAIN c2s = Peers
    BY DEF LinkTypeOK
  <2>2. c2s'[p] = Tail(c2s[p]) /\ \A q \in Peers : q # p => c2s'[q] = c2s[q]
    BY <1>2, <2>1
  <2>3. Tail(c2s[p]) \in Seq(PeerSegment)
    BY <1>2, <2>1, HeadTail
  <2>4. \A i \in DOMAIN Tail(c2s[p]) :
            i + 1 \in DOMAIN c2s[p] /\ Tail(c2s[p])[i] = c2s[p][i + 1]
    BY <1>2, <2>1, HeadTail
  <2>5. c2s' \in [Peers -> Seq(PeerSegment)]
    BY <1>2, <2>3 DEF LinkTypeOK
  <2> QED BY <2>2, <2>4, <2>5
<1> QED BY <1>1, <1>2 DEF FromPeer

\* A step of a connected socket, its deletion included, keeps the list.
LEMMA ListKeepsSockets ==
    ASSUME LinkInv, NEW s \in Sockets, Elsewhere(s), ListKept(s), in_port_' = in_port_,
           state_[s] \notin {"none", "want_syn"}, state_'[s] \notin {"none", "want_syn"},
           own'[s] # "unborn", Live(s),
           own'[s] = "deleted" => state_'[s] = "closed"
    PROVE  \A t \in Sockets : SocketInv(t)'
<1>0. \A t \in Sockets : SocketInv(t)
  BY DEF LinkInv, ConnectionsInv
<1>1. ASSUME NEW t \in Sockets, Live(t)' PROVE \E i \in DOMAIN sockets_' : sockets_'[i] = t
  <2>1. CASE sockets_' = sockets_
    <3>1. Live(t)
      BY <1>1 DEF Live, Elsewhere
    <3> QED BY <1>0, <2>1, <3>1 DEF SocketInv
  <2>2. ASSUME own'[s] = "deleted", NEW i \in DOMAIN sockets_, sockets_[i] = s,
               sockets_' = RemoveAt(sockets_, i)
        PROVE  \E j \in DOMAIN sockets_' : sockets_'[j] = t
    <3>1. t # s /\ Live(t)
      BY <1>1, <2>2 DEF Live, Elsewhere
    <3>2. PICK j \in DOMAIN sockets_ : sockets_[j] = t
      BY <1>0, <3>1 DEF SocketInv
    <3>3. /\ sockets_ \in Seq(Sockets)
          /\ DOMAIN sockets_ = 1 .. Len(sockets_) /\ Len(sockets_) \in Nat
      BY DEF LinkInv, TypeOK
    <3>4. /\ DOMAIN sockets_' = 1 .. Len(sockets_) - 1
          /\ \A k \in 1 .. Len(sockets_) - 1 :
                 sockets_'[k] = IF k < i THEN sockets_[k] ELSE sockets_[k + 1]
      BY <2>2, <3>3, RemoveAtType
    <3>5. CASE j < i
      BY <2>2, <3>2, <3>3, <3>4, <3>5
    <3>6. CASE j > i
      <4>1. j - 1 \in 1 .. Len(sockets_) - 1 /\ ~(j - 1 < i) /\ (j - 1) + 1 = j
        BY <2>2, <3>2, <3>3, <3>6
      <4> QED BY <3>2, <3>4, <4>1
    <3>7. j # i
      BY <2>2, <3>1, <3>2
    <3> QED BY <2>2, <3>2, <3>3, <3>5, <3>6, <3>7
  <2> QED BY <2>1, <2>2 DEF ListKept
<1>2. ASSUME NEW t \in Sockets, state_'[t] = "want_syn"
      PROVE  Len(sockets_') > 0 /\ sockets_'[Len(sockets_')] = t
  <2>1. /\ t # s /\ state_[t] = "want_syn"
        /\ Len(sockets_) > 0 /\ sockets_[Len(sockets_)] = t
    BY <1>0, <1>2 DEF Elsewhere, SocketInv
  <2>2. CASE sockets_' = sockets_
    BY <2>1, <2>2
  <2>3. ASSUME NEW i \in DOMAIN sockets_, sockets_[i] = s,
               sockets_' = RemoveAt(sockets_, i)
        PROVE  Len(sockets_') > 0 /\ sockets_'[Len(sockets_')] = t
    <3>1. /\ sockets_ \in Seq(Sockets)
          /\ DOMAIN sockets_ = 1 .. Len(sockets_) /\ Len(sockets_) \in Nat
      BY DEF LinkInv, TypeOK
    <3>2. /\ sockets_' \in Seq(Sockets)
          /\ Len(sockets_') = Len(sockets_) - 1
          /\ \A k \in 1 .. Len(sockets_) - 1 :
                 sockets_'[k] = IF k < i THEN sockets_[k] ELSE sockets_[k + 1]
      BY <2>3, <3>1, RemoveAtType
    <3>3. i \in 1 .. Len(sockets_) - 1
      BY <2>1, <2>3, <3>1
    <3> QED BY <2>1, <3>1, <3>2, <3>3
  <2> QED BY <2>2, <2>3 DEF ListKept
<1> SUFFICES ASSUME NEW t \in Sockets PROVE SocketInv(t)'
  OBVIOUS
<1>3. CASE t = s
  <2>1. in_port_[s] = ServerPort
    BY <1>0 DEF SocketInv
  <2> QED BY <1>1, <1>2, <1>3, <2>1 DEF SocketInv
<1>4. CASE t # s
  <2>1. /\ SocketInv(t) /\ own'[t] = own[t] /\ state_'[t] = state_[t]
        /\ got'[t] = got[t] /\ recv_queue_'[t] = recv_queue_[t]
    BY <1>0, <1>4 DEF Elsewhere
  <2> QED BY <1>1, <1>2, <2>1 DEF SocketInv
<1> QED BY <1>3, <1>4

\* A socket has one peer.
LEMMA OneConnection ==
    ASSUME PolitePeers, ConnAddress, NEW s \in Sockets, NEW p \in Peers, Conn(s, p)
    PROVE  \A t \in Sockets, q \in Peers :
               /\ Conn(t, q) => (t = s <=> q = p)
               /\ q # p => out_port_[s] # PeerAddress[q].port
BY DEF PolitePeers, ConnAddress, Conn

\* A step of one socket keeps the invariant if it keeps its connection.
LEMMA SocketStep ==
    ASSUME LinkInv, PolitePeers, NEW s \in Sockets, NEW p \in Peers, Conn(s, p),
           state_'[s] \notin {"none", "want_syn"}, UNCHANGED <<address, peer, s2c>>,
           Elsewhere(s), Sends(s), ListKept(s), OwnerKept(s, p), FromPeer(p),
           ConnInv(s, p)'
    PROVE  ConnectionsInv'
<1>0. /\ LinkTypeOK /\ TypeOK /\ OneListens /\ ConnAddress
      /\ \A q \in Peers : PeerInv(q)
      /\ \A t \in Sockets, q \in Peers : Conn(t, q) => ConnInv(t, q)
  BY DEF LinkInv, ConnectionsInv
<1>1. /\ in_port_' = in_port_ /\ out_port_' = out_port_ /\ ip_' = ip_
      /\ peer' = peer /\ s2c' = s2c
  BY DEF address
<1>2. \A t \in Sockets, q \in Peers : Conn(t, q)' <=> Conn(t, q)
  <2> SUFFICES ASSUME NEW t \in Sockets, NEW q \in Peers PROVE Conn(t, q)' <=> Conn(t, q)
    OBVIOUS
  <2>1. CASE t = s
    BY <1>1, <2>1 DEF Conn
  <2>2. CASE t # s
    BY <1>1, <2>2 DEF Conn, Elsewhere
  <2> QED BY <2>1, <2>2
<1>3. \A t \in Sockets, q \in Peers :
          /\ Conn(t, q) => (t = s <=> q = p)
          /\ q # p => out_port_[s] # PeerAddress[q].port
  BY <1>0, OneConnection
<1>4. /\ c2s' \in [Peers -> Seq(PeerSegment)]
      /\ \A q \in Peers : q # p => c2s'[q] = c2s[q]
      /\ \A i \in DOMAIN c2s'[p] :
             \E j \in DOMAIN c2s[p] : c2s'[p][i] = c2s[p][j]
  BY <1>0, ArrivalsType
<1>5. /\ \A i \in DOMAIN txq' : txq'[i].seg.syn => txq'[i].seg.payload = <<>>
      /\ \A q \in Peers \ {p} :
             /\ Quiet(q) => Quiet(q)'
             /\ Single(q) => Single(q)'
             /\ Nothing(q) => Nothing(q)'
             /\ \A d : Numbered(q, d) => Numbered(q, d)'
  BY <1>0, <1>1, <1>3, TransmitKeepsType
<1>6. LinkTypeOK'
  BY <1>0, <1>1, <1>4, <1>5 DEF LinkTypeOK, PeerOK
<1>7. \A t \in Sockets : SocketInv(t)'
  BY <1>1, ListKeepsSockets DEF OwnerKept, Conn
<1>8. OneListens'
  <2>1. \A t \in Sockets : own'[t] \in {"listen", "notified"} => own[t] \in {"listen", "notified"}
    BY DEF OwnerKept, Elsewhere
  <2> QED BY <1>0, <2>1 DEF OneListens
<1>9. ConnAddress'
  <2>1. \A t \in Sockets : state_'[t] \notin {"none", "want_syn"} =>
                               state_[t] \notin {"none", "want_syn"}
    BY DEF Elsewhere, Conn
  <2> QED BY <1>0, <1>1, <1>2, <2>1 DEF ConnAddress
<1>10. ASSUME NEW q \in Peers PROVE PeerInv(q)'
  <2>1. NoConn(q)' <=> NoConn(q)
    BY <1>2 DEF NoConn
  <2>2. CASE q # p
    <3>1. /\ PeerInv(q) /\ peer'[q] = peer[q] /\ c2s'[q] = c2s[q]
          /\ Nothing(q) => Nothing(q)'
      BY <1>0, <1>1, <1>4, <1>5, <2>2
    <3>2. peer[q].st = "syn_sent" => \A t \in Sockets : Conn(t, q)' => own'[t] = "listen"
      BY <1>2, <1>3, <2>2, <3>1 DEF PeerInv, Elsewhere
    <3> QED BY <2>1, <3>1, <3>2 DEF PeerInv, From
  <2>3. CASE q = p
    <3>1. PeerInv(p) /\ peer'[p] = peer[p] /\ ~NoConn(p)
      BY <1>0, <1>1 DEF NoConn
    <3>2. peer[p].st = "syn_sent" => c2s'[p] = <<>>
      <4>1. peer[p].st = "syn_sent" => c2s[p] = <<>>
        BY <3>1 DEF PeerInv
      <4> QED BY <4>1 DEF FromPeer
    <3>3. peer[p].st = "syn_sent" => \A t \in Sockets : Conn(t, p)' => own'[t] = "listen"
      <4>1. peer[p].st = "syn_sent" => own'[s] = "listen"
        BY <3>1 DEF PeerInv, OwnerKept
      <4> QED BY <1>2, <1>3, <4>1
    <3>4. \A i \in DOMAIN c2s'[p] :
              From(c2s'[p][i], p) /\ (c2s'[p][i].syn => peer[p].st = "syn_sent")
      BY <1>4, <3>1 DEF PeerInv
    <3> QED BY <2>1, <2>3, <3>1, <3>2, <3>3, <3>4 DEF PeerInv, From
  <2> QED BY <2>2, <2>3
<1>11. ASSUME NEW t \in Sockets, NEW q \in Peers, Conn(t, q)'
       PROVE  ConnInv(t, q)'
  <2>1. CASE t = s
    <3>1. q = p
      BY <1>2, <1>3, <1>11, <2>1
    <3> QED BY <2>1, <3>1
  <2>2. CASE t # s
    <3>1. Conn(t, q) /\ q # p /\ ConnInv(t, q)
      BY <1>0, <1>2, <1>3, <1>11, <2>2
    <3>2. Keeps(t, q)
      BY <1>1, <2>2 DEF Keeps, Closing, FinLeft, Elsewhere
    <3>3. KeepsFlow(t, q)
      BY <1>1, <1>4, <1>5, <2>2, <3>1 DEF KeepsFlow, Elsewhere
    <3>4. (Receiving(t)' <=> Receiving(t)) /\ (Passive(t)' <=> Passive(t))
      BY <2>2 DEF Receiving, Passive, Elsewhere
    <3> QED BY <3>1, <3>2, <3>3, <3>4, ConnFrame
  <2> QED BY <2>1, <2>2
<1> QED BY <1>6, <1>7, <1>8, <1>9, <1>10, <1>11 DEF ConnectionsInv
(***************************************************************************)
(* The steps of a worker.                                                  *)
(***************************************************************************)
LEMMA WorkerConnected ==
    ASSUME LinkInv, NEW s \in Sockets, own[s] \notin {"unborn", "listen", "deleted"}
    PROVE  \E p \in Peers : Conn(s, p) /\ peer[p].st # "syn_sent"
<1>1. own[s] \in OwnerPcs /\ OwnerInv(s)
  BY DEF LinkInv, TypeOK, ActorsAgree
<1>2. state_[s] \notin {"none", "want_syn"}
  BY <1>1 DEF OwnerInv, OwnerPcs, Working
<1>3. ConnAddress /\ \A p \in Peers : PeerInv(p)
  BY DEF LinkInv, ConnectionsInv
<1>4. PICK p \in Peers : Conn(s, p)
  BY <1>2, <1>3 DEF ConnAddress
<1>5. peer[p].st # "syn_sent"
  BY <1>3, <1>4 DEF PeerInv
<1> QED BY <1>4, <1>5

\* Only the place of the worker changes.
LEMMA OwnerMoves ==
    ASSUME LinkInv, PolitePeers, NEW s \in Sockets, NEW p \in Peers, Conn(s, p),
           peer[p].st # "syn_sent", Live(s),
           NEW x \in {"loop", "recv", "close_wait"},
           own' = [own EXCEPT ![s] = x],
           UNCHANGED <<sockets_, address, control, numbers, recv_queue_, disp, txq,
                       net, got>>
    PROVE  ConnectionsInv'
<1>1. /\ sockets_' = sockets_ /\ state_' = state_ /\ next_state_' = next_state_
      /\ in_seq_' = in_seq_ /\ recv_queue_' = recv_queue_ /\ disp' = disp
      /\ txq' = txq /\ peer' = peer /\ c2s' = c2s /\ s2c' = s2c /\ got' = got
      /\ UNCHANGED address
  BY DEF control, numbers, net
<1>2. \A t \in Sockets \ {s} : own'[t] = own[t]
  BY DEF LinkInv, TypeOK
<1>3. own'[s] = x
  BY DEF LinkInv, TypeOK
<1>4. \A t : Holding(t)' <=> Holding(t)
  BY <1>1 DEF Holding
<1>5. Elsewhere(s)
  BY <1>1, <1>2, <1>4 DEF Elsewhere
<1>6. Keeps(s, p)
  BY <1>1, <1>4 DEF Keeps, Closing, FinLeft
<1>7. KeepsFlow(s, p)
  BY <1>1, TransitStill DEF KeepsFlow
<1>8. (Receiving(s)' <=> Receiving(s)) /\ (Passive(s)' <=> Passive(s))
  BY <1>1 DEF Receiving, Passive
<1>9. ConnInv(s, p)
  BY DEF LinkInv, ConnectionsInv
<1>10. ConnInv(s, p)'
  BY <1>6, <1>7, <1>8, <1>9, ConnFrame
<1>11. Sends(s) /\ ListKept(s) /\ FromPeer(p)
  BY <1>1 DEF Sends, ListKept, FromPeer
<1>12. OwnerKept(s, p)
  BY <1>3 DEF OwnerKept
<1>13. state_'[s] \notin {"none", "want_syn"}
  BY <1>1 DEF Conn
<1> QED BY <1>1, <1>5, <1>10, <1>11, <1>12, <1>13, SocketStep

\* The socket is no longer open: it does not take what its peer sends.
LEMMA SocketEnds ==
    ASSUME LinkInv, PolitePeers, NEW s \in Sockets, NEW p \in Peers, Conn(s, p),
           UNCHANGED <<address, recv_queue_, disp, net, got>>,
           state_'[s] \notin {"none", "want_syn"}, ~Receiving(s)', ~Passive(s)',
           Elsewhere(s), Sends(s), ListKept(s), OwnerKept(s, p)
    PROVE  ConnectionsInv'
<1>1. /\ recv_queue_' = recv_queue_ /\ disp' = disp
      /\ peer' = peer /\ c2s' = c2s /\ s2c' = s2c /\ got' = got
      /\ UNCHANGED address
  BY DEF net
<1>2. Keeps(s, p)
  BY <1>1 DEF Keeps, Closing, FinLeft, Holding
<1>3. ConnInv(s, p)
  BY DEF LinkInv, ConnectionsInv
<1>4. ConnInv(s, p)'
  BY <1>2, <1>3, ConnFrame
<1>5. FromPeer(p)
  BY <1>1 DEF FromPeer
<1> QED BY <1>1, <1>4, <1>5, SocketStep

\* `delete this`, on a closed socket.
LEMMA LinkDestroy ==
    ASSUME LinkInv, PolitePeers, NEW s \in Sockets, Destroy(s),
           own[s] \notin {"unborn", "listen", "deleted"}, state_[s] = "closed",
           UNCHANGED <<net, got>>
    PROVE  ConnectionsInv'
<1>1. PICK p \in Peers : Conn(s, p) /\ peer[p].st # "syn_sent"
  BY WorkerConnected
<1>2. /\ state_' = state_ /\ next_state_' = next_state_ /\ in_seq_' = in_seq_
      /\ recv_queue_' = recv_queue_ /\ disp' = disp /\ txq' = txq
      /\ got' = got /\ UNCHANGED address
  BY DEF Destroy, control, numbers
<1>3. own'[s] = "deleted" /\ \A t \in Sockets \ {s} : own'[t] = own[t]
  BY DEF Destroy, LinkInv, TypeOK
<1>4. Elsewhere(s)
  BY <1>2, <1>3 DEF Elsewhere, Holding
<1>5. Sends(s)
  BY <1>2 DEF Sends
<1>6. ListKept(s)
  BY <1>2, <1>3 DEF ListKept, Destroy
<1>7. OwnerKept(s, p)
  BY <1>1, <1>2, <1>3 DEF OwnerKept, Live
<1>8. /\ state_'[s] \notin {"none", "want_syn"}
      /\ ~Receiving(s)' /\ ~Passive(s)'
  BY <1>2 DEF Receiving, Passive
<1> QED BY <1>1, <1>2, <1>4, <1>5, <1>6, <1>7, <1>8, SocketEnds

\* The worker calls close().
LEMMA LinkClose ==
    ASSUME LinkInv, PolitePeers, NEW s \in Sockets, Close(s), UNCHANGED <<net, got>>
    PROVE  ConnectionsInv'
<1>1. own[s] = "loop"
  BY DEF Close
<1>2. PICK p \in Peers : Conn(s, p) /\ peer[p].st # "syn_sent"
  BY <1>1, WorkerConnected
<1>3. CASE /\ state_' = [state_ EXCEPT ![s] = "want_fin_ack"]
           /\ own' = [own EXCEPT ![s] = "close_fin"]
           /\ UNCHANGED <<sockets_, address, next_state_, numbers, recv_queue_,
                          disp, failed>>
           /\ Transmit(s, FinAck(s))
  <2>1. /\ next_state_' = next_state_ /\ in_seq_' = in_seq_ /\ out_seq_' = out_seq_
        /\ recv_queue_' = recv_queue_ /\ disp' = disp /\ got' = got
        /\ sockets_' = sockets_
        /\ UNCHANGED address /\ out_port_' = out_port_ /\ ip_' = ip_
    BY <1>3 DEF numbers, address
  <2>2. TypeOK
    BY DEF LinkInv
  <2>3. /\ own'[s] = "close_fin" /\ state_'[s] = "want_fin_ack"
        /\ \A t \in Sockets \ {s} : own'[t] = own[t] /\ state_'[t] = state_[t]
    BY <1>3, <2>2 DEF TypeOK
  <2>4. Elsewhere(s)
    BY <2>1, <2>3 DEF Elsewhere, Holding
  <2>5. FinAck(s) \in Segment
    BY <2>1, <2>2, ReplyType DEF TypeOK
  <2>6. FinAck(s).dest_port = out_port_[s] /\ ~FinAck(s).syn
    BY <2>1 DEF FinAck, Frame
  <2>7. Sends(s)
    BY <1>3, <2>5, <2>6 DEF Sends
  <2>8. ListKept(s) /\ OwnerKept(s, p)
    BY <1>1, <1>2, <2>1, <2>3 DEF ListKept, OwnerKept, Live
  <2>9. /\ state_'[s] \notin {"none", "want_syn"}
        /\ ~Receiving(s)' /\ ~Passive(s)'
    BY <2>3 DEF Receiving, Passive
  <2> QED BY <1>2, <2>1, <2>4, <2>7, <2>8, <2>9, SocketEnds
<1>4. CASE /\ own' = [own EXCEPT ![s] = "close_wait"]
           /\ UNCHANGED <<sockets_, address, control, numbers, recv_queue_, disp,
                          txq, failed>>
  BY <1>1, <1>2, <1>4, OwnerMoves DEF Live
<1>5. CASE state_[s] = "closed" /\ Destroy(s)
  BY <1>1, <1>5, LinkDestroy
<1> QED BY <1>3, <1>4, <1>5 DEF Close

\* Its FIN has gone out.
LEMMA LinkFinSent ==
    ASSUME LinkInv, PolitePeers, NEW s \in Sockets, FinSent(s), UNCHANGED <<net, got>>
    PROVE  ConnectionsInv'
<1>1. own[s] = "close_fin"
  BY DEF FinSent
<1>2. PICK p \in Peers : Conn(s, p) /\ peer[p].st # "syn_sent"
  BY <1>1, WorkerConnected
<1>3. CASE /\ own' = [own EXCEPT ![s] = "close_wait"]
           /\ UNCHANGED <<sockets_, address, control, numbers, recv_queue_, disp,
                          txq, failed>>
  BY <1>1, <1>2, <1>3, OwnerMoves DEF Live
<1>4. CASE ~StillOpen(s) /\ Destroy(s)
  BY <1>1, <1>4, LinkDestroy DEF StillOpen
<1> QED BY <1>3, <1>4 DEF FinSent

\* Its wait for closed_ ends.
LEMMA LinkClosed ==
    ASSUME LinkInv, PolitePeers, NEW s \in Sockets, Closed(s), UNCHANGED <<net, got>>
    PROVE  ConnectionsInv'
<1>1. own[s] = "close_woken" /\ Destroy(s)
  BY DEF Closed
<1>2. state_[s] = "closed"
  BY <1>1 DEF LinkInv, ActorsAgree, OwnerInv
<1> QED BY <1>1, <1>2, LinkDestroy

\* The steps of a worker between two requests.
LEMMA LinkWaits ==
    ASSUME LinkInv, PolitePeers, NEW s \in Sockets, UNCHANGED <<net, got>>,
           RecvWait(s) \/ Cancelled(s) \/ SendDone(s)
    PROVE  ConnectionsInv'
<1>1. own[s] \in {"loop", "recv", "send"}
  BY DEF RecvWait, Cancelled, SendDone
<1>2. PICK p \in Peers : Conn(s, p) /\ peer[p].st # "syn_sent"
  BY <1>1, WorkerConnected
<1>3. PICK x \in {"loop", "recv", "close_wait"} : own' = [own EXCEPT ![s] = x]
  BY DEF RecvWait, Cancelled, SendDone
<1>4. UNCHANGED <<sockets_, address, control, numbers, recv_queue_, disp, txq>>
  BY DEF RecvWait, Cancelled, SendDone
<1> QED BY <1>1, <1>2, <1>3, <1>4, OwnerMoves DEF Live

\* The worker takes the next piece of the stream.
LEMMA FactsTaken ==
    ASSUME TypeOK, NEW s \in Sockets, NEW p \in Peers,
           NEW r \in 0 .. Len(Script[p]), NEW e \in 0 .. Len(Script[p]),
           NEW d \in 0 .. Len(Script[p]), Facts(s, p, r, e, d),
           recv_queue_[s] # <<>>, recv_queue_'[s] = Tail(recv_queue_[s]),
           got' = got, peer' = peer, disp' = disp
    PROVE  /\ r + 1 \in 1 .. Len(Script[p]) /\ r + 1 <= e /\ r + 1 <= d
           /\ Head(recv_queue_[s]) = Piece(p, r + 1)
           /\ Facts(s, p, r + 1, e, d)'
<1> DEFINE q == recv_queue_[s]
<1>1. q \in Seq(Seq(Bytes)) /\ r \in Nat /\ e \in Nat /\ d \in Nat /\ Len(Script[p]) \in Nat
  BY ScriptType DEF TypeOK
<1>2. Len(q) = e - r /\ \A i \in 1 .. e - r : q[i] = Piece(p, r + i)
  BY DEF Facts
<1>3. /\ Len(q) # 0 /\ Head(q) = q[1] /\ Len(Tail(q)) = Len(q) - 1
      /\ \A i \in 1 .. Len(q) - 1 : Tail(q)[i] = q[i + 1]
  BY <1>1, HeadTail
<1> HIDE DEF q
<1>4. e <= d /\ r + 1 <= e /\ r + 1 <= d /\ r + 1 \in 1 .. Len(Script[p])
  BY <1>1, <1>2, <1>3 DEF Facts
<1>5. Head(q) = Piece(p, r + 1)
  <2>1. 1 \in 1 .. e - r
    BY <1>1, <1>4
  <2> QED BY <1>2, <1>3, <2>1
<1>6. Len(Tail(q)) = e - (r + 1)
  BY <1>1, <1>2, <1>3
<1>7. ASSUME NEW i \in 1 .. e - (r + 1) PROVE Tail(q)[i] = Piece(p, (r + 1) + i)
  <2>1. i + 1 \in 1 .. e - r /\ r + (i + 1) = (r + 1) + i
    BY <1>1, <1>4
  <2>2. Len(q) - 1 = e - (r + 1)
    BY <1>1, <1>2
  <2> QED BY <1>2, <1>3, <2>1, <2>2
<1>8. Holding(s)' <=> Holding(s)
  BY DEF Holding
<1>9. Facts(s, p, r + 1, e, d)'
  BY <1>4, <1>6, <1>7, <1>8 DEF Facts, q
<1> QED BY <1>4, <1>5, <1>9 DEF q

\* The worker takes a piece that does not end a request.
LEMMA LinkIgnore ==
    ASSUME LinkInv, PolitePeers, NEW s \in Sockets, UNCHANGED <<net, got>>,
           recv_queue_[s] # <<>>, ~EndsRequest(Head(recv_queue_[s])), Ignore(s)
    PROVE  ConnectionsInv'
<1>1. own[s] \in {"loop", "recv"}
  BY DEF Ignore, Take
<1>2. PICK p \in Peers : Conn(s, p) /\ peer[p].st # "syn_sent"
  BY <1>1, WorkerConnected
<1>3. TypeOK
  BY DEF LinkInv
<1>4. /\ state_' = state_ /\ next_state_' = next_state_ /\ in_seq_' = in_seq_
      /\ sockets_' = sockets_ /\ disp' = disp /\ txq' = txq
      /\ got' = got /\ peer' = peer /\ c2s' = c2s /\ s2c' = s2c /\ UNCHANGED address
  BY DEF Ignore, control, numbers, net
<1>5. /\ own'[s] = "loop" /\ recv_queue_'[s] = Tail(recv_queue_[s])
      /\ \A t \in Sockets \ {s} : own'[t] = own[t] /\ recv_queue_'[t] = recv_queue_[t]
  BY <1>3 DEF Ignore, Take, TypeOK
<1>6. PICK r \in 0 .. Len(Script[p]), e \in 0 .. Len(Script[p]), d \in 0 .. Len(Script[p]) :
          /\ Facts(s, p, r, e, d)
          /\ Receiving(s) => Flow(s, p, r, d)
          /\ Passive(s) => Ended(p, r, e, d)
  BY <1>2 DEF LinkInv, ConnectionsInv, ConnInv
<1>7. /\ r + 1 \in 1 .. Len(Script[p]) /\ r + 1 <= e /\ r + 1 <= d
      /\ Head(recv_queue_[s]) = Piece(p, r + 1)
      /\ Facts(s, p, r + 1, e, d)'
  BY <1>3, <1>4, <1>5, <1>6, FactsTaken
<1>8. Requests(p, r + 1) = Requests(p, r)
  <2> DEFINE n == r + 1
  <2>1. n \in 1 .. Len(Script[p]) /\ n - 1 = r
    BY <1>7
  <2>2. ~Script[p][n].last
    BY <1>7, PieceType
  <2>3. Requests(p, n) = Requests(p, n - 1) + 0 /\ Requests(p, r) \in Nat
    BY <2>1, <2>2, RequestsStep
  <2> QED BY <2>1, <2>3
<1>9. ASSUME Receiving(s)' PROVE Flow(s, p, r + 1, d)'
  <2>1. Receiving(s) /\ Flow(s, p, r, d)
    BY <1>4, <1>6, <1>9 DEF Receiving
  <2>2. r # d
    BY <1>7
  <2>3. state_[s] # "want_ack" /\ Quiet(p)
    BY <1>2, <2>1, <2>2, FlowSays DEF Outstanding
  <2>4. KeepsFlow(s, p)
    BY <1>4, TransitStill DEF KeepsFlow
  <2>5. Lossy => LossyFlow(s, p, r + 1, d)'
    <3>1. Lossy => LossyFlow(s, p, r, d)'
      BY <1>2, <2>1, <2>4, LossyKept DEF Flow
    <3>2. Quiet(p)' /\ state_'[s] # "want_ack"
      BY <1>4, <2>3, <2>4 DEF KeepsFlow
    <3> QED BY <3>1, <3>2 DEF LossyFlow
  <2>6. ~Lossy => KeptFlow(s, p, r + 1, d)'
    <3>1. ~Lossy => KeptFlow(s, p, r, d)'
      BY <1>2, <2>1, <2>4, KeptKept DEF Flow
    <3>2. state_'[s] # "want_ack"
      BY <1>4, <2>3
    <3> QED BY <3>1, <3>2 DEF KeptFlow
  <2> QED BY <1>4, <1>8, <2>1, <2>5, <2>6 DEF Flow
<1>10. Passive(s)' => Ended(p, r + 1, e, d)'
  <2>1. Passive(s)' => Ended(p, r, e, d)
    BY <1>4, <1>6 DEF Passive
  <2>2. \A k \in (r + 1) + 1 .. e : k \in r + 1 .. e
    OBVIOUS
  <2> QED BY <1>4, <2>1, <2>2 DEF Ended, Finished, Closing, FinLeft
<1>11. ConnInv(s, p)'
  <2>1. r + 1 \in 0 .. Len(Script[p])
    BY <1>7
  <2> QED BY <1>7, <1>9, <1>10, <2>1 DEF ConnInv
<1>12. Elsewhere(s)
  BY <1>4, <1>5 DEF Elsewhere, Holding
<1>13. Sends(s) /\ ListKept(s) /\ FromPeer(p)
  BY <1>4 DEF Sends, ListKept, FromPeer
<1>14. OwnerKept(s, p)
  BY <1>1, <1>2, <1>5 DEF OwnerKept, Live
<1>15. state_'[s] \notin {"none", "want_syn"}
  BY <1>2, <1>4 DEF Conn
<1> QED BY <1>2, <1>4, <1>11, <1>12, <1>13, <1>14, <1>15, SocketStep

\* A piece that ends a request is the last the peer sends before the answer.
LEMMA LastOfRequest ==
    ASSUME NEW s \in Sockets, NEW p \in Peers, PeerOK(p),
           NEW r \in 0 .. Len(Script[p]), NEW d \in 0 .. Len(Script[p]),
           r + 1 <= d, d <= peer[p].at, Script[p][r + 1].last,
           Requests(p, peer[p].at - 1) <= peer[p].answers,
           peer[p].answers <= Requests(p, r)
    PROVE  /\ r + 1 = d /\ d = peer[p].at
           /\ peer[p].answers < Requests(p, peer[p].at)
           /\ peer[p].answers <= Requests(p, r + 1)
<1> DEFINE at == peer[p].at
           n == r + 1
<1>1. at \in 0 .. Len(Script[p]) /\ peer[p].answers \in Nat
  BY DEF PeerOK
<1>2. /\ at \in Nat /\ r \in Nat /\ d \in Nat /\ n \in Nat /\ Len(Script[p]) \in Nat
      /\ n - 1 = r /\ n \in 1 .. Len(Script[p]) /\ n \in 0 .. Len(Script[p])
      /\ at - 1 \in 0 .. Len(Script[p]) /\ r \in 0 .. Len(Script[p])
  <2> DEFINE l == Len(Script[p])
  <2>1. l \in Nat /\ r \in 0 .. l /\ d \in 0 .. l /\ at \in 0 .. l
    BY <1>1, ScriptType
  <2>2. n = r + 1 /\ n <= d /\ d <= at
    OBVIOUS
  <2> HIDE DEF l, at, n
  <2>3. at \in Nat /\ r \in Nat /\ d \in Nat /\ n \in Nat
    BY <2>1, <2>2
  <2>4. n - 1 = r /\ n \in 1 .. l /\ n \in 0 .. l /\ at - 1 \in 0 .. l
    BY <2>1, <2>2, <2>3
  <2> QED BY <2>1, <2>3, <2>4 DEF l
<1>3. /\ Requests(p, n) = Requests(p, r) + 1 /\ Requests(p, r) \in Nat
      /\ Requests(p, at - 1) \in Nat /\ Requests(p, at) \in Nat
  <2>1. Requests(p, n) = Requests(p, n - 1) + (IF Script[p][n].last THEN 1 ELSE 0)
    BY <1>2, RequestsStep
  <2>2. /\ Requests(p, r) \in Nat /\ Requests(p, at - 1) \in Nat
        /\ Requests(p, at) \in Nat
    BY <1>1, <1>2, RequestsStep
  <2> QED BY <1>2, <2>1, <2>2
<1>4. Requests(p, n) <= Requests(p, at)
  <2>1. n <= at
    BY <1>2
  <2> QED BY <1>1, <1>2, <2>1, RequestsMonotonic
<1>5. n <= at - 1 => Requests(p, n) <= Requests(p, at - 1)
  BY <1>1, <1>2, RequestsMonotonic
<1> HIDE DEF at
<1>6. ~(n <= at - 1)
  <2>1. Requests(p, at - 1) <= Requests(p, r)
    BY <1>1, <1>3 DEF at
  <2> QED BY <1>3, <1>5, <2>1
<1>7. n = d /\ d = at
  BY <1>2, <1>6 DEF at
<1>8. peer[p].answers < Requests(p, at) /\ peer[p].answers <= Requests(p, n)
  BY <1>1, <1>3, <1>4
<1> QED BY <1>7, <1>8 DEF at

\* The worker takes the end of a request and answers it: the socket is
\* connected, so the assertion of send() holds.
LEMMA LinkAnswer ==
    ASSUME LinkInv, PolitePeers, NEW s \in Sockets, UNCHANGED <<net, got>>,
           recv_queue_[s] # <<>>, EndsRequest(Head(recv_queue_[s])), Answer(s)
    PROVE  ConnectionsInv' /\ failed' = "no"
<1>1. own[s] \in {"loop", "recv"}
  BY DEF Answer, Take
<1>2. PICK p \in Peers : Conn(s, p) /\ peer[p].st # "syn_sent"
  BY <1>1, WorkerConnected
<1>3. TypeOK /\ LinkTypeOK /\ failed = "no"
  BY DEF LinkInv, ConnectionsInv
<1>4. PICK data \in Responses : Send(s, data)
  BY DEF Answer
<1>5. /\ in_seq_' = in_seq_ /\ sockets_' = sockets_ /\ disp' = disp
      /\ got' = got /\ peer' = peer /\ c2s' = c2s /\ s2c' = s2c
      /\ out_port_' = out_port_ /\ ip_' = ip_ /\ UNCHANGED address
  BY <1>4 DEF Send, address, numbers, net
<1>6. /\ recv_queue_'[s] = Tail(recv_queue_[s])
      /\ \A t \in Sockets \ {s} : recv_queue_'[t] = recv_queue_[t]
  BY <1>3 DEF Answer, Take, TypeOK
<1>7. PICK r \in 0 .. Len(Script[p]), e \in 0 .. Len(Script[p]), d \in 0 .. Len(Script[p]) :
          /\ Facts(s, p, r, e, d)
          /\ Receiving(s) => Flow(s, p, r, d)
          /\ Passive(s) => Ended(p, r, e, d)
  BY <1>2 DEF LinkInv, ConnectionsInv, ConnInv
<1>8. /\ r + 1 \in 1 .. Len(Script[p]) /\ r + 1 <= e /\ r + 1 <= d
      /\ Head(recv_queue_[s]) = Piece(p, r + 1)
      /\ Facts(s, p, r + 1, e, d)'
  BY <1>3, <1>5, <1>6, <1>7, FactsTaken
<1>9. Script[p][r + 1].last
  <2> DEFINE n == r + 1
  <2>1. n \in 1 .. Len(Script[p]) /\ EndsRequest(Piece(p, n))
    BY <1>8
  <2> QED BY <2>1, PieceType
<1>10. ~Passive(s) /\ ~(Receiving(s) /\ state_[s] = "want_ack")
  <2>1. r # d /\ r + 1 \in r + 1 .. e
    BY <1>8
  <2>2. Receiving(s) => state_[s] # "want_ack"
    BY <1>2, <1>7, <2>1, FlowSays
  <2> QED BY <1>7, <1>9, <2>1, <2>2 DEF Ended
<1>11. \/ state_[s] = "connected" /\ ~cancel_closed_[s]
       \/ state_[s] = "closed" /\ cancel_closed_[s]
  <2>1. /\ state_[s] \in {"want_ack", "connected", "closed"}
        /\ state_[s] = "want_ack" => next_state_[s] \in {"connected", "closed"}
        /\ cancel_closed_[s] <=> state_[s] = "closed"
    BY <1>1 DEF LinkInv, ActorsAgree, OwnerInv, Working
  <2> QED BY <1>10, <2>1 DEF Passive, Receiving
<1>12. r + 1 \in 0 .. Len(Script[p]) /\ d <= peer[p].at
  BY <1>7, <1>8 DEF Facts
<1>13. /\ \A t \in Sockets \ {s} :
              /\ state_'[t] = state_[t] /\ next_state_'[t] = next_state_[t]
              /\ own'[t] = own[t]
       /\ own'[s] \in {"loop", "send"}
  <2>1. /\ own'[s] \in {"loop", "send"}
        /\ \A t \in Sockets \ {s} : own'[t] = own[t]
    BY <1>3, <1>4, <1>11 DEF Send, TypeOK
  <2>2. \A t \in Sockets \ {s} :
              state_'[t] = state_[t] /\ next_state_'[t] = next_state_[t]
    BY <1>3, <1>4, <1>11 DEF Send, TypeOK, control
  <2> QED BY <2>1, <2>2
<1>14. Elsewhere(s)
  BY <1>5, <1>6, <1>13 DEF Elsewhere, Holding
<1>15. ListKept(s) /\ FromPeer(p) /\ OwnerKept(s, p)
  BY <1>1, <1>2, <1>5, <1>13 DEF ListKept, FromPeer, OwnerKept, Live
<1>16. CASE state_[s] = "closed" /\ cancel_closed_[s]
  <2>1. state_' = state_ /\ txq' = txq /\ failed' = failed
    BY <1>4, <1>16 DEF Send, control
  <2>2. ~Receiving(s)' /\ ~Passive(s)' /\ state_'[s] \notin {"none", "want_syn"}
    BY <1>16, <2>1 DEF Receiving, Passive
  <2>3. ConnInv(s, p)'
    BY <1>8, <1>12, <2>2 DEF ConnInv
  <2>4. Sends(s)
    BY <2>1 DEF Sends
  <2> QED BY <1>2, <1>3, <1>5, <1>14, <1>15, <2>1, <2>2, <2>3, <2>4, SocketStep
<1>17. CASE state_[s] = "connected" /\ ~cancel_closed_[s]
  <2> DEFINE seg == Frame(s, out_seq_[s], FALSE, FALSE, data)
  <2>1. /\ state_'[s] = "want_ack" /\ next_state_'[s] = "connected"
        /\ Transmit(s, seg) /\ failed' = failed
    BY <1>3, <1>4, <1>17 DEF Send, TypeOK
  <2>2. /\ seg \in Segment /\ seg.dest_port = out_port_[s]
        /\ ~seg.syn /\ ~seg.fin
    <3>1. data \in Seq(Bytes)
      BY ResponsesAssumption
    <3>2. /\ in_port_[s] \in Ports /\ out_port_[s] \in RemotePorts /\ ip_[s] \in Hosts
          /\ out_seq_[s] \in SeqNum /\ in_seq_[s] \in SeqNum
      BY <1>3 DEF TypeOK
    <3> QED BY <1>5, <3>1, <3>2 DEF Frame, Segment
  <2> HIDE DEF seg
  <2>3. Flow(s, p, r, d) /\ Receiving(s)
    BY <1>7, <1>17 DEF Receiving
  <2>4. PeerOK(p)
    BY <1>3 DEF LinkTypeOK
  <2>5. /\ r + 1 = d /\ d = peer[p].at
        /\ peer[p].answers < Requests(p, peer[p].at)
        /\ peer[p].answers <= Requests(p, r + 1)
    BY <1>8, <1>9, <1>12, <2>3, <2>4, LastOfRequest DEF Flow
  <2>6. Single(p)'
    <3>1. Quiet(p)
      <4>1. r # d
        BY <1>8
      <4> QED BY <1>2, <2>3, <4>1, FlowSays DEF Outstanding
    <3> QED BY <1>3, <1>5, <2>1, <2>2, <3>1, TransitSent
  <2>7. peer[p].st # "fin_sent" \/ peer[p].answers # Requests(p, peer[p].at)
    <3>1. peer[p].answers \in Nat /\ Requests(p, peer[p].at) \in Nat
      BY <2>4, RequestsStep DEF PeerOK
    <3> QED BY <2>5, <3>1
  <2>8. Lossy => LossyFlow(s, p, r + 1, d)'
    <3> SUFFICES ASSUME Lossy PROVE LossyFlow(s, p, r + 1, d)'
      OBVIOUS
    <3>1. LossyFlow(s, p, r, d)
      BY <2>3 DEF Flow
    <3>2. peer[p].st = "established"
      BY <1>2, <2>5, <2>7, <3>1 DEF LossyFlow, Window
    <3>3. Outstanding(p, r + 1, d)'
      BY <1>5, <2>5, <2>6, <3>2 DEF Outstanding
    <3>4. Numbered(p, d)'
      <4>1. d \in 0 .. d
        OBVIOUS
      <4>2. seg.ack_num = Num(p, StreamLength(p, d))
        BY <1>5, <2>3 DEF seg, Frame, Flow
      <4>3. Covers(seg, p, d)
        BY <4>1, <4>2 DEF Covers
      <4> QED BY <1>3, <1>5, <2>1, <2>2, <3>1, <4>3, TransitSent DEF LossyFlow
    <3>5. OnTheWay(p, d)' /\ Window(p, d)'
      BY <1>5, <3>1 DEF LossyFlow, OnTheWay, Known, Window, AllLeft, PieceLeft, FinLeft
    <3> QED BY <2>5, <3>3, <3>4, <3>5 DEF LossyFlow
  <2>9. ~Lossy => KeptFlow(s, p, r + 1, d)'
    <3> SUFFICES ASSUME ~Lossy PROVE KeptFlow(s, p, r + 1, d)'
      OBVIOUS
    <3>1. Rest(p, 0, d)
      BY <1>17, <2>3 DEF Flow, KeptFlow, Opened
    <3>2. peer[p].st = "established" /\ Len(c2s[p]) = 0 + (peer[p].at - d)
      BY <2>7, <3>1 DEF Rest
    <3>3. c2s[p] = <<>>
      <4>1. peer[p].at - d = 0
        BY <2>5
      <4>2. c2s[p] \in Seq(PeerSegment)
        BY <1>3 DEF LinkTypeOK
      <4> QED BY <3>2, <4>1, <4>2
    <3>4. Waiting(p, r + 1, d)'
      BY <1>5, <2>5, <2>6, <3>2, <3>3 DEF Waiting, Outstanding
    <3> QED BY <2>1, <3>4 DEF KeptFlow
  <2>14. Flow(s, p, r + 1, d)'
    BY <1>5, <2>3, <2>5, <2>8, <2>9 DEF Flow
  <2>10. ~Passive(s)'
    BY <2>1 DEF Passive
  <2>11. ConnInv(s, p)'
    BY <1>8, <1>12, <2>10, <2>14 DEF ConnInv
  <2>12. Sends(s)
    BY <2>1, <2>2 DEF Sends
  <2>13. state_'[s] \notin {"none", "want_syn"}
    BY <2>1
  <2> QED BY <1>2, <1>3, <1>5, <1>14, <1>15, <2>1, <2>11, <2>12, <2>13, SocketStep
<1> QED BY <1>11, <1>16, <1>17
(***************************************************************************)
(* The steps of the dispatcher after a reply.                              *)
(***************************************************************************)
\* The bytes put in a receive queue are recorded.
LEMMA RecordType ==
    ASSUME TypeOK, Record
    PROVE  \A t \in Sockets :
               /\ recv_queue_'[t] = recv_queue_[t] => got'[t] = got[t]
               /\ \A x \in Seq(Bytes) : recv_queue_'[t] = Append(recv_queue_[t], x) =>
                      got'[t] = got[t] \o x
<1> SUFFICES ASSUME NEW t \in Sockets
             PROVE  /\ recv_queue_'[t] = recv_queue_[t] => got'[t] = got[t]
                    /\ \A x \in Seq(Bytes) :
                           recv_queue_'[t] = Append(recv_queue_[t], x) =>
                               got'[t] = got[t] \o x
  OBVIOUS
<1> DEFINE q == recv_queue_[t]
           B == Seq(Bytes)
<1>1. q \in Seq(B)
  BY DEF TypeOK
<1>2. got'[t] = IF Len(recv_queue_'[t]) > Len(q) THEN got[t] \o Last(recv_queue_'[t])
                                                 ELSE got[t]
  BY DEF Record
<1> HIDE DEF q, B
<1>3. recv_queue_'[t] = q => got'[t] = got[t]
  BY <1>1, <1>2
<1>4. ASSUME NEW x \in B, recv_queue_'[t] = Append(q, x)
      PROVE  got'[t] = got[t] \o x
  <2>1. Len(Append(q, x)) > Len(q) /\ Last(Append(q, x)) = x
    BY <1>1, AppendLast DEF Last
  <2> QED BY <1>2, <1>4, <2>1
<1> QED BY <1>3, <1>4 DEF q, B

\* A reply after which the segment needs no more.
LEMMA LinkReturns ==
    ASSUME LinkInv, PolitePeers, AfterSynAck \/ AfterFinAck, Record, UNCHANGED net
    PROVE  ConnectionsInv' /\ failed' = "no"
<1>1. TypeOK /\ DispatcherInv /\ failed = "no"
  BY DEF LinkInv, ActorsAgree
<1>0. disp.pc \in {"syn_ack", "fin_ack"}
  BY DEF AfterSynAck, AfterFinAck, Resumed
<1>3. PICK s \in Sockets : s = disp.sock
  BY <1>0, <1>1 DEF TypeOK, Idle
<1>2. disp.pc \in {"syn_ack", "fin_ack"} /\ state_[s] = "want_ack"
  BY <1>0, <1>1, <1>3 DEF DispatcherInv
<1>4. LastBranch(s, disp.pkt) /\ ~IsFinAck(s, disp.pkt) /\ recv_queue_' = recv_queue_
  BY <1>1, <1>2, <1>3 DEF AfterSynAck, AfterFinAck, LaterBranches, IsFinAck
<1>5. /\ disp' = Idle
      /\ UNCHANGED <<sockets_, address, control, numbers, own, txq, failed>>
  BY <1>4 DEF LastBranch, Return
<1>6. PICK p \in Peers : Conn(s, p)
  BY <1>2, <1>3 DEF LinkInv, ConnectionsInv, ConnAddress
<1>7. /\ sockets_' = sockets_ /\ state_' = state_ /\ next_state_' = next_state_
      /\ in_seq_' = in_seq_ /\ recv_queue_' = recv_queue_ /\ own' = own
      /\ txq' = txq /\ peer' = peer /\ c2s' = c2s /\ s2c' = s2c /\ UNCHANGED address
  BY <1>4, <1>5 DEF control, numbers, net
<1>8. \A t \in Sockets : got'[t] = got[t]
  BY <1>1, <1>7, RecordType
<1>9. \A t : ~Holding(t)' /\ ~Holding(t)
  BY <1>2, <1>5 DEF Holding, Idle
<1>10. Elsewhere(s)
  BY <1>7, <1>8, <1>9 DEF Elsewhere
<1>11. Keeps(s, p)
  BY <1>3, <1>7, <1>8, <1>9 DEF Keeps, Closing, FinLeft
<1>12. KeepsFlow(s, p)
  BY <1>7, TransitStill DEF KeepsFlow
<1>13. (Receiving(s)' <=> Receiving(s)) /\ (Passive(s)' <=> Passive(s))
  BY <1>7 DEF Receiving, Passive
<1>14. ConnInv(s, p)
  BY <1>3, <1>6 DEF LinkInv, ConnectionsInv
<1>15. ConnInv(s, p)'
  BY <1>3, <1>11, <1>12, <1>13, <1>14, ConnFrame
<1>16. Sends(s) /\ ListKept(s) /\ FromPeer(p)
  BY <1>7 DEF Sends, ListKept, FromPeer
<1>17. own[s] \notin {"unborn", "deleted"}
  BY <1>1, <1>2, <1>3 DEF DispatcherInv, Working
<1>18. OwnerKept(s, p)
  BY <1>7, <1>17 DEF OwnerKept, Live
<1>19. state_'[s] \notin {"none", "want_syn"}
  BY <1>2, <1>7
<1> QED BY <1>1, <1>3, <1>5, <1>6, <1>7, <1>10, <1>15, <1>16, <1>18, <1>19, SocketStep

\* A piece of the stream reaches the receive queue.
LEMMA FactsEmplaced ==
    ASSUME TypeOK, NEW s \in Sockets, NEW p \in Peers,
           NEW r \in 0 .. Len(Script[p]), NEW e \in 0 .. Len(Script[p]),
           NEW d \in 0 .. Len(Script[p]), Facts(s, p, r, e, d), Holding(s),
           recv_queue_'[s] = Append(recv_queue_[s], disp.pkt.payload),
           got'[s] = got[s] \o disp.pkt.payload, peer' = peer, ~Holding(s)'
    PROVE  Facts(s, p, r, d, d)'
<1> DEFINE q == recv_queue_[s]
           x == Piece(p, d)
<1>1. /\ q \in Seq(Seq(Bytes)) /\ disp.pkt.payload \in Seq(Bytes)
  <2>1. disp.pkt \in Packets
    BY DEF TypeOK, Holding, Idle
  <2> QED BY <2>1, PacketsAssumption DEF TypeOK, Segment
<1>2. /\ r <= e /\ e <= d /\ d = e + 1 /\ disp.pkt.payload = x /\ d <= peer[p].at
      /\ got[s] = Stream(p, 0, StreamLength(p, e))
      /\ Len(q) = e - r /\ \A i \in 1 .. e - r : q[i] = Piece(p, r + i)
  BY DEF Facts
<1> DEFINE l == Len(Script[p])
<1>0. l \in Nat
  BY ScriptType
<1> HIDE DEF l
<1>3. /\ r \in Nat /\ e \in Nat /\ d \in 1 .. l /\ d - 1 = e /\ r <= d
      /\ r + (e - r + 1) = d /\ e - r + 1 = d - r
  BY <1>0, <1>2 DEF l
<1>4. got'[s] = Stream(p, 0, StreamLength(p, d))
  <2>1. Stream(p, 0, StreamLength(p, d - 1)) \o Piece(p, d) = Stream(p, 0, StreamLength(p, d))
    BY <1>3, PieceType DEF l
  <2> QED BY <1>2, <1>3, <2>1
<1> HIDE DEF q, x
<1>5. /\ Len(Append(q, x)) = Len(q) + 1
      /\ \A i \in 1 .. Len(q) : Append(q, x)[i] = q[i]
      /\ Append(q, x)[Len(q) + 1] = x
  <2> DEFINE B == Seq(Bytes)
  <2>1. q \in Seq(B) /\ x \in B
    BY <1>1, <1>2
  <2> HIDE DEF B
  <2> QED BY <2>1, AppendLast
<1>6. Len(Append(q, x)) = d - r
  BY <1>2, <1>3, <1>5
<1>7. ASSUME NEW i \in 1 .. d - r PROVE Append(q, x)[i] = Piece(p, r + i)
  <2>1. i \in 1 .. e - r \/ i = e - r + 1
    BY <1>2, <1>3
  <2>2. i \in 1 .. e - r => Append(q, x)[i] = Piece(p, r + i)
    BY <1>2, <1>5
  <2>3. i = e - r + 1 => Append(q, x)[i] = x /\ r + i = d
    BY <1>2, <1>3, <1>5
  <2> QED BY <2>1, <2>2, <2>3 DEF x
<1>8. recv_queue_'[s] = Append(q, x)
  BY <1>2 DEF q
<1>9. d <= d
  BY <1>3
<1> QED BY <1>2, <1>3, <1>4, <1>6, <1>7, <1>8, <1>9 DEF Facts

\* The acknowledgement of a piece is sent, and the piece enqueued.
LEMMA LinkEmplacesPiece ==
    ASSUME LinkInv, PolitePeers, AfterDataAck, Record, UNCHANGED net,
           disp.pkt.payload # <<>>
    PROVE  ConnectionsInv' /\ failed' = "no"
<1>1. TypeOK /\ DispatcherInv /\ failed = "no" /\ disp.pc = "data_ack"
  BY DEF LinkInv, ActorsAgree, AfterDataAck, Resumed
<1>2. PICK s \in Sockets : s = disp.sock
  BY <1>1 DEF TypeOK, Idle
<1>3. /\ ~disp.pkt.fin
      /\ own[s] \notin {"unborn", "deleted", "listen"}
      /\ state_[s] \in {"want_ack", "connected", "want_fin_ack"}
      /\ ~Passive(s)
  BY <1>1, <1>2 DEF DispatcherInv, Working, Passive
<1>4. LastBranch(s, disp.pkt) /\ ~IsFinAck(s, disp.pkt)
  BY <1>2, <1>3 DEF AfterDataAck, IsFinAck
<1>5. /\ disp' = Idle
      /\ UNCHANGED <<sockets_, address, control, numbers, own, txq, failed>>
  BY <1>4 DEF LastBranch, Return
<1>6. PICK p \in Peers : Conn(s, p) /\ peer[p].st # "syn_sent"
  BY <1>2, <1>3, WorkerConnected
<1>7. /\ sockets_' = sockets_ /\ state_' = state_ /\ next_state_' = next_state_
      /\ in_seq_' = in_seq_ /\ own' = own
      /\ txq' = txq /\ peer' = peer /\ c2s' = c2s /\ s2c' = s2c /\ UNCHANGED address
  BY <1>5 DEF control, numbers, net
<1>8. PICK r \in 0 .. Len(Script[p]), e \in 0 .. Len(Script[p]), d \in 0 .. Len(Script[p]) :
          /\ Facts(s, p, r, e, d)
          /\ Receiving(s) => Flow(s, p, r, d)
          /\ Passive(s) => Ended(p, r, e, d)
  BY <1>6 DEF LinkInv, ConnectionsInv, ConnInv
<1>9. Holding(s) /\ \A t \in Sockets : ~Holding(t)' /\ (t # s => ~Holding(t))
  BY <1>1, <1>2, <1>5 DEF Holding, Idle
<1>10. /\ disp.pkt.payload # <<>> /\ disp.pkt.payload \in Seq(Bytes)
  <2>1. d = e + 1 /\ disp.pkt.payload = Piece(p, d)
    BY <1>8, <1>9 DEF Facts
  <2>2. d \in 1 .. Len(Script[p])
    BY <2>1
  <2>3. disp.pkt \in Packets
    BY <1>1 DEF TypeOK, Idle
  <2> QED BY <2>1, <2>2, <2>3, PieceType, PacketsAssumption DEF Segment
<1>11. /\ recv_queue_'[s] = Append(recv_queue_[s], disp.pkt.payload)
       /\ \A t \in Sockets \ {s} : recv_queue_'[t] = recv_queue_[t]
  BY <1>1, <1>2, <1>10 DEF AfterDataAck, Emplaced, TypeOK
<1>12. /\ got'[s] = got[s] \o disp.pkt.payload
       /\ \A t \in Sockets \ {s} : got'[t] = got[t]
  BY <1>1, <1>10, <1>11, RecordType
<1>13. Facts(s, p, r, d, d)'
  BY <1>1, <1>7, <1>8, <1>9, <1>11, <1>12, FactsEmplaced
<1>14. ASSUME Receiving(s)' PROVE Flow(s, p, r, d)'
  <2>1. Flow(s, p, r, d)
    BY <1>7, <1>8, <1>14 DEF Receiving
  <2>2. KeepsFlow(s, p)
    BY <1>7, TransitStill DEF KeepsFlow
  <2> QED BY <2>1, <2>2, FlowKept
<1>15. ~Passive(s)'
  BY <1>3, <1>7 DEF Passive
<1>16. ConnInv(s, p)'
  BY <1>13, <1>14, <1>15 DEF ConnInv
<1>17. Elsewhere(s)
  BY <1>7, <1>9, <1>11, <1>12 DEF Elsewhere
<1>18. Sends(s) /\ ListKept(s) /\ FromPeer(p)
  BY <1>7 DEF Sends, ListKept, FromPeer
<1>19. OwnerKept(s, p)
  BY <1>3, <1>7 DEF OwnerKept, Live
<1>20. state_'[s] \notin {"none", "want_syn"}
  BY <1>3, <1>7
<1> QED BY <1>1, <1>5, <1>6, <1>7, <1>16, <1>17, <1>18, <1>19, <1>20, SocketStep

\* An acknowledgement is sent of a segment that has no payload.
LEMMA LinkEmplacesNothing ==
    ASSUME LinkInv, PolitePeers, AfterDataAck, Record, UNCHANGED net,
           disp.pkt.payload = <<>>
    PROVE  ConnectionsInv' /\ failed' = "no"
<1>1. TypeOK /\ DispatcherInv /\ failed = "no" /\ disp.pc = "data_ack"
  BY DEF LinkInv, ActorsAgree, AfterDataAck, Resumed
<1>2. PICK s \in Sockets : s = disp.sock
  BY <1>1 DEF TypeOK, Idle
<1>3. /\ ~disp.pkt.fin
      /\ own[s] \notin {"unborn", "deleted", "listen"}
      /\ state_[s] \in {"want_ack", "connected", "want_fin_ack"}
  BY <1>1, <1>2 DEF DispatcherInv, Working
<1>4. LastBranch(s, disp.pkt) /\ ~IsFinAck(s, disp.pkt)
  BY <1>2, <1>3 DEF AfterDataAck, IsFinAck
<1>5. /\ disp' = Idle
      /\ UNCHANGED <<sockets_, address, control, numbers, own, txq, failed>>
  BY <1>4 DEF LastBranch, Return
<1>6. PICK p \in Peers : Conn(s, p) /\ peer[p].st # "syn_sent"
  BY <1>2, <1>3, WorkerConnected
<1>7. /\ sockets_' = sockets_ /\ state_' = state_ /\ next_state_' = next_state_
      /\ in_seq_' = in_seq_ /\ own' = own
      /\ txq' = txq /\ peer' = peer /\ c2s' = c2s /\ s2c' = s2c /\ UNCHANGED address
  BY <1>5 DEF control, numbers, net
<1>8. recv_queue_' = recv_queue_
  BY <1>1 DEF AfterDataAck, Emplaced, TypeOK
<1>9. \A t \in Sockets : got'[t] = got[t]
  BY <1>1, <1>8, RecordType
<1>10. \A t : ~Holding(t)' /\ ~Holding(t)
  BY <1>5 DEF Holding, Idle
<1>11. Elsewhere(s)
  BY <1>7, <1>8, <1>9, <1>10 DEF Elsewhere
<1>12. Keeps(s, p)
  BY <1>7, <1>8, <1>9, <1>10 DEF Keeps, Closing, FinLeft
<1>13. KeepsFlow(s, p)
  BY <1>7, TransitStill DEF KeepsFlow
<1>14. (Receiving(s)' <=> Receiving(s)) /\ (Passive(s)' <=> Passive(s))
  BY <1>7 DEF Receiving, Passive
<1>15. ConnInv(s, p)'
  <2>1. ConnInv(s, p)
    BY <1>6 DEF LinkInv, ConnectionsInv
  <2> QED BY <1>12, <1>13, <1>14, <2>1, ConnFrame
<1>16. Sends(s) /\ ListKept(s) /\ FromPeer(p)
  BY <1>7 DEF Sends, ListKept, FromPeer
<1>17. OwnerKept(s, p)
  BY <1>3, <1>7 DEF OwnerKept, Live
<1>18. state_'[s] \notin {"none", "want_syn"}
  BY <1>3, <1>7
<1> QED BY <1>1, <1>5, <1>6, <1>7, <1>11, <1>15, <1>16, <1>17, <1>18, SocketStep

\* The acknowledgement of the peer's FIN is sent.
LEMMA LinkLastAck ==
    ASSUME LinkInv, PolitePeers, AfterLastAck, Record, UNCHANGED net
    PROVE  ConnectionsInv' /\ failed' = "no"
<1>1. TypeOK /\ DispatcherInv /\ failed = "no" /\ disp.pc = "last_ack"
  BY DEF LinkInv, ActorsAgree, AfterLastAck, Resumed
<1>2. PICK s \in Sockets : s = disp.sock
  BY <1>1 DEF TypeOK, Idle
<1>3. own[s] \in {"close_fin", "close_wait"}
  BY <1>1, <1>2 DEF DispatcherInv
<1>4. PICK p \in Peers : Conn(s, p) /\ peer[p].st # "syn_sent"
  BY <1>3, WorkerConnected
<1>5. /\ sockets_' = sockets_ /\ next_state_' = next_state_ /\ in_seq_' = in_seq_
      /\ recv_queue_' = recv_queue_ /\ disp' = Idle /\ failed' = failed
      /\ txq' = txq /\ peer' = peer /\ c2s' = c2s /\ s2c' = s2c /\ UNCHANGED address
  BY DEF AfterLastAck, Return, numbers, net
<1>6. /\ state_'[s] = "closed" /\ own'[s] \in {own[s], "close_woken"}
      /\ \A t \in Sockets \ {s} : state_'[t] = state_[t] /\ own'[t] = own[t]
  BY <1>1, <1>2 DEF AfterLastAck, Raise, TypeOK
<1>7. \A t \in Sockets : got'[t] = got[t]
  BY <1>1, <1>5, RecordType
<1>8. \A t : ~Holding(t)' /\ ~Holding(t)
  BY <1>1, <1>5 DEF Holding, Idle
<1>9. Elsewhere(s)
  BY <1>5, <1>6, <1>7, <1>8 DEF Elsewhere
<1>10. Keeps(s, p)
  BY <1>5, <1>7, <1>8 DEF Keeps, Closing, FinLeft
<1>11. ~Receiving(s)' /\ ~Passive(s)'
  BY <1>6 DEF Receiving, Passive
<1>12. ConnInv(s, p)
  BY <1>4 DEF LinkInv, ConnectionsInv
<1>13. ConnInv(s, p)'
  BY <1>10, <1>11, <1>12, ConnFrame
<1>14. Sends(s) /\ ListKept(s) /\ FromPeer(p)
  BY <1>5 DEF Sends, ListKept, FromPeer
<1>15. OwnerKept(s, p)
  BY <1>3, <1>4, <1>6 DEF OwnerKept, Live
<1>16. state_'[s] \notin {"none", "want_syn"}
  BY <1>6
<1> QED BY <1>1, <1>4, <1>5, <1>9, <1>13, <1>14, <1>15, <1>16, SocketStep

\* The dispatcher goes on after a reply has been sent.
LEMMA LinkReply ==
    ASSUME LinkInv, PolitePeers, Reply
    PROVE  ConnectionsInv' /\ failed' = "no"
BY LinkReturns, LinkEmplacesPiece, LinkEmplacesNothing, LinkLastAck
   DEF Reply, AfterReply
(***************************************************************************)
(* The arrival of a segment.                                               *)
(***************************************************************************)
LEMMA HeadTaken ==
    ASSUME LinkTypeOK, NEW p \in Peers, c2s[p] # <<>>,
           c2s' = [c2s EXCEPT ![p] = Tail(@)]
    PROVE  /\ Len(c2s[p]) \in Nat /\ Len(c2s[p]) > 0 /\ DOMAIN c2s[p] = 1 .. Len(c2s[p])
           /\ Head(c2s[p]) = c2s[p][1]
           /\ Head(c2s[p]) \in PeerSegment
           /\ Len(c2s'[p]) = Len(c2s[p]) - 1
           /\ \A i \in 1 .. Len(c2s[p]) - 1 : c2s'[p][i] = c2s[p][i + 1]
           /\ FromPeer(p)
           /\ \A q \in Peers : q # p => c2s'[q] = c2s[q]
<1> DEFINE q == c2s[p]
<1>1. q \in Seq(PeerSegment) /\ DOMAIN c2s = Peers
  BY DEF LinkTypeOK
<1>2. /\ Len(q) \in Nat /\ Len(q) > 0 /\ DOMAIN q = 1 .. Len(q)
      /\ Head(q) = q[1] /\ Head(q) \in PeerSegment
      /\ Len(Tail(q)) = Len(q) - 1
      /\ \A i \in 1 .. Len(q) - 1 : Tail(q)[i] = q[i + 1]
  <2> HIDE DEF q
  <2>0. q # <<>>
    BY DEF q
  <2>1. /\ Head(q) = q[1] /\ Head(q) \in PeerSegment /\ DOMAIN q = 1 .. Len(q)
        /\ Len(Tail(q)) = Len(q) - 1 /\ Len(q) \in Nat \ {0}
        /\ \A i \in 1 .. Len(q) - 1 : Tail(q)[i] = q[i + 1]
    BY <1>1, <2>0, HeadTail
  <2> QED BY <2>1
<1>3. c2s'[p] = Tail(q) /\ \A x \in Peers : x # p => c2s'[x] = c2s[x]
  BY <1>1
<1> QED BY <1>2, <1>3 DEF FromPeer

\* What is left of the peer's segments when the endpoint takes the first.
LEMMA RestTaken ==
    ASSUME LinkTypeOK, NEW p \in Peers, c2s[p] # <<>>,
           c2s' = [c2s EXCEPT ![p] = Tail(@)], peer' = peer,
           NEW d \in 0 .. Len(Script[p]), d <= peer[p].at
    PROVE  /\ Rest(p, 1, d) => Rest(p, 0, d)'
           /\ Rest(p, 0, d) /\ d < peer[p].at =>
                  IsPiece(Head(c2s[p]), p, d + 1) /\ Rest(p, 0, d + 1)'
           /\ Rest(p, 0, d) /\ d = peer[p].at =>
                  /\ Head(c2s[p]).fin /\ Head(c2s[p]).ack
                  /\ peer[p].answers = Requests(p, peer[p].at)
<1> DEFINE n == peer[p].at - d
           l == Len(c2s[p])
<1>1. /\ l \in Nat /\ l > 0 /\ Len(c2s'[p]) = l - 1
      /\ Head(c2s[p]) = c2s[p][1]
      /\ \A i \in 1 .. l - 1 : c2s'[p][i] = c2s[p][i + 1]
  BY HeadTaken
<1>2. peer[p].at \in Nat /\ d \in Nat /\ n \in Nat
  BY ScriptType DEF LinkTypeOK, PeerOK
<1>3. ASSUME Rest(p, 1, d) PROVE Rest(p, 0, d)'
  <2>1. /\ peer[p].st \in {"established", "fin_sent"}
        /\ \A k \in 1 .. n : IsPiece(c2s[p][1 + k], p, d + k)
        /\ peer[p].st = "established" => l = 1 + n
        /\ peer[p].st = "fin_sent" =>
               /\ l = 1 + n + 1 /\ c2s[p][1 + n + 1].fin /\ c2s[p][1 + n + 1].ack
               /\ peer[p].answers = Requests(p, peer[p].at)
    BY <1>3 DEF Rest
  <2> HIDE DEF n, l
  <2>2. \A k \in 1 .. n : IsPiece(c2s'[p][k], p, d + k)
    <3> SUFFICES ASSUME NEW k \in 1 .. n PROVE IsPiece(c2s'[p][k], p, d + k)
      OBVIOUS
    <3>1. k \in 1 .. l - 1 /\ k + 1 = 1 + k
      BY <1>1, <1>2, <2>1
    <3> QED BY <1>1, <2>1, <3>1
  <2>3. peer[p].st = "established" => Len(c2s'[p]) = n
    BY <1>1, <1>2, <2>1
  <2>4. ASSUME peer[p].st = "fin_sent"
        PROVE  Len(c2s'[p]) = n + 1 /\ c2s'[p][n + 1].fin /\ c2s'[p][n + 1].ack
    <3>1. n + 1 \in 1 .. l - 1 /\ (n + 1) + 1 = 1 + n + 1 /\ l - 1 = n + 1
      BY <1>1, <1>2, <2>1, <2>4
    <3>2. c2s'[p][n + 1] = c2s[p][1 + n + 1]
      BY <1>1, <3>1
    <3> QED BY <1>1, <2>1, <2>4, <3>1, <3>2
  <2>5. 0 + n = n /\ n = peer[p].at - d /\ \A k \in 1 .. n : 0 + k = k
    BY <1>2 DEF n
  <2> QED BY <2>1, <2>2, <2>3, <2>4, <2>5 DEF Rest
<1>4. ASSUME Rest(p, 0, d)
      PROVE  /\ peer[p].st \in {"established", "fin_sent"}
             /\ \A k \in 1 .. n : IsPiece(c2s[p][k], p, d + k)
             /\ peer[p].st = "established" => l = n
             /\ peer[p].st = "fin_sent" =>
                    /\ l = n + 1 /\ c2s[p][n + 1].fin /\ c2s[p][n + 1].ack
                    /\ peer[p].answers = Requests(p, peer[p].at)
  <2>1. 0 + n = n /\ \A k \in 1 .. n : 0 + k = k
    BY <1>2
  <2> QED BY <1>4, <2>1 DEF Rest
<1>5. ASSUME Rest(p, 0, d), d < peer[p].at
      PROVE  IsPiece(Head(c2s[p]), p, d + 1) /\ Rest(p, 0, d + 1)'
  <2> DEFINE b == d + 1
             m == peer[p].at - b
  <2>1. n = m + 1 /\ m \in Nat /\ 1 \in 1 .. n /\ 0 + m = m
    BY <1>2, <1>5
  <2>2. IsPiece(Head(c2s[p]), p, d + 1)
    BY <1>1, <1>4, <1>5, <2>1
  <2> HIDE DEF n, l, m
  <2>3. \A k \in 1 .. m : IsPiece(c2s'[p][k], p, b + k)
    <3> SUFFICES ASSUME NEW k \in 1 .. m PROVE IsPiece(c2s'[p][k], p, b + k)
      OBVIOUS
    <3>1. k \in 1 .. l - 1 /\ k + 1 \in 1 .. n /\ d + (k + 1) = b + k
      BY <1>1, <1>2, <1>4, <1>5, <2>1
    <3> QED BY <1>1, <1>4, <1>5, <3>1
  <2>4. peer[p].st = "established" => Len(c2s'[p]) = m
    BY <1>1, <1>4, <1>5, <2>1
  <2>5. ASSUME peer[p].st = "fin_sent"
        PROVE  Len(c2s'[p]) = m + 1 /\ c2s'[p][m + 1].fin /\ c2s'[p][m + 1].ack
    <3>1. m + 1 \in 1 .. l - 1 /\ (m + 1) + 1 = n + 1 /\ l - 1 = m + 1
      BY <1>1, <1>4, <1>5, <2>1, <2>5
    <3>2. c2s'[p][m + 1] = c2s[p][n + 1]
      BY <1>1, <3>1
    <3> QED BY <1>1, <1>4, <1>5, <2>5, <3>1, <3>2
  <2> HIDE DEF b
  <2>6. Rest(p, 0, b)'
    <3>1. m = peer[p].at - b /\ 0 + m = m /\ \A k \in 1 .. m : 0 + k = k
      BY <2>1 DEF m
    <3> QED BY <1>4, <1>5, <2>3, <2>4, <2>5, <3>1 DEF Rest
  <2> QED BY <2>2, <2>6 DEF b
<1>6. ASSUME Rest(p, 0, d), d = peer[p].at
      PROVE  /\ Head(c2s[p]).fin /\ Head(c2s[p]).ack
             /\ peer[p].answers = Requests(p, peer[p].at)
  <2>1. n = 0 /\ n + 1 = 1
    BY <1>2, <1>6
  <2> QED BY <1>1, <1>4, <1>6, <2>1
<1> QED BY <1>3, <1>5, <1>6

\* What is left in front of the endpoint comes from the peer as before.
LEMMA PeerInvTaken ==
    ASSUME LinkTypeOK, NEW p \in Peers, PeerInv(p), c2s[p] # <<>>,
           c2s' = [c2s EXCEPT ![p] = Tail(@)], peer' = peer,
           NoConn(p)' <=> NoConn(p), Nothing(p) => Nothing(p)',
           \A s \in Sockets : Conn(s, p)' /\ peer[p].st = "syn_sent" =>
               Conn(s, p) /\ own'[s] = own[s]
    PROVE  PeerInv(p)'
<1>1. /\ Len(c2s[p]) \in Nat /\ DOMAIN c2s[p] = 1 .. Len(c2s[p])
      /\ Len(c2s'[p]) = Len(c2s[p]) - 1
      /\ \A i \in 1 .. Len(c2s[p]) - 1 : c2s'[p][i] = c2s[p][i + 1]
      /\ c2s' \in [Peers -> Seq(PeerSegment)]
  BY HeadTaken, ArrivalsType
<1>2. DOMAIN c2s'[p] = 1 .. Len(c2s[p]) - 1
  <2>1. c2s'[p] \in Seq(PeerSegment)
    BY <1>1
  <2> QED BY <1>1, <2>1
<1>3. \A i \in DOMAIN c2s'[p] :
          From(c2s'[p][i], p) /\ (c2s'[p][i].syn => peer[p].st = "syn_sent")
  <2>1. \A i \in DOMAIN c2s'[p] : i + 1 \in DOMAIN c2s[p]
    BY <1>1, <1>2
  <2> QED BY <1>1, <1>2, <2>1 DEF PeerInv
<1>4. peer[p].st # "closed"
  BY DEF PeerInv
<1>5. peer[p].st = "syn_sent" => c2s'[p] = <<>>
  <2>1. peer[p].st = "syn_sent" => c2s[p] = <<SynOf(p)>>
    BY DEF PeerInv
  <2>2. Len(<<SynOf(p)>>) = 1
    OBVIOUS
  <2>3. c2s'[p] \in Seq(PeerSegment)
    BY <1>1
  <2> QED BY <1>1, <2>1, <2>2, <2>3
<1>6. \A s \in Sockets : Conn(s, p)' /\ peer[p].st = "syn_sent" => own'[s] = "listen"
  BY DEF PeerInv
<1> QED BY <1>3, <1>4, <1>5, <1>6 DEF PeerInv, From

\* The endpoint drops a segment.
LEMMA LinkDrop ==
    ASSUME LinkInv, NEW p \in Peers, c2s[p] # <<>>,
           c2s' = [c2s EXCEPT ![p] = Tail(@)],
           UNCHANGED <<sockets_, address, control, numbers, recv_queue_, own, disp, txq,
                       peer, s2c, got>>,
           \A s \in Sockets : Conn(s, p) /\ Receiving(s) => Lossy
    PROVE  ConnectionsInv'
<1>0. /\ LinkTypeOK /\ ConnAddress /\ OneListens
      /\ \A q \in Peers : PeerInv(q)
      /\ \A t \in Sockets : SocketInv(t)
      /\ \A t \in Sockets, q \in Peers : Conn(t, q) => ConnInv(t, q)
  BY DEF LinkInv, ConnectionsInv
<1>1. /\ sockets_' = sockets_ /\ state_' = state_ /\ next_state_' = next_state_
      /\ in_seq_' = in_seq_ /\ recv_queue_' = recv_queue_ /\ disp' = disp
      /\ own' = own /\ in_port_' = in_port_ /\ out_port_' = out_port_ /\ ip_' = ip_
      /\ txq' = txq /\ peer' = peer /\ s2c' = s2c /\ got' = got
  BY DEF control, numbers, address
<1>2. \A t, q : Conn(t, q)' <=> Conn(t, q)
  BY <1>1 DEF Conn
<1>3. /\ c2s' \in [Peers -> Seq(PeerSegment)]
      /\ \A q \in Peers : q # p => c2s'[q] = c2s[q]
  BY <1>0, HeadTaken, ArrivalsType
<1>4. LinkTypeOK'
  BY <1>0, <1>1, <1>3 DEF LinkTypeOK, PeerOK
<1>5. OneListens' /\ \A t \in Sockets : SocketInv(t)'
  BY <1>0, <1>1 DEF OneListens, SocketInv, Live
<1>6. ConnAddress'
  BY <1>0, <1>1, <1>2 DEF ConnAddress
<1>7. ASSUME NEW q \in Peers PROVE PeerInv(q)'
  <2>1. NoConn(q)' <=> NoConn(q)
    BY <1>2 DEF NoConn
  <2>2. Nothing(q) => Nothing(q)'
    BY <1>1, TransitStill
  <2>3. CASE q = p
    BY <1>0, <1>1, <1>2, <2>1, <2>2, <2>3, PeerInvTaken
  <2>4. CASE q # p
    BY <1>0, <1>1, <1>2, <1>3, <2>1, <2>2, <2>4 DEF PeerInv, From
  <2> QED BY <2>3, <2>4
<1>8. ASSUME NEW t \in Sockets, NEW q \in Peers, Conn(t, q)' PROVE ConnInv(t, q)'
  <2>1. Conn(t, q) /\ ConnInv(t, q)
    BY <1>0, <1>2, <1>8
  <2>2. Keeps(t, q)
    BY <1>1 DEF Keeps, Closing, FinLeft, Holding
  <2>3. (Receiving(t)' <=> Receiving(t)) /\ (Passive(t)' <=> Passive(t))
    BY <1>1 DEF Receiving, Passive
  <2>4. Receiving(t) => KeepsFlow(t, q)
    <3>1. Receiving(t) => q # p \/ Lossy
      BY <2>1
    <3>2. q = p => NoMore(q)
      BY <1>0, HeadTaken, ArrivalsType DEF NoMore
    <3> QED BY <1>1, <1>3, <3>1, <3>2, TransitStill DEF KeepsFlow
  <2> QED BY <2>1, <2>2, <2>3, <2>4, ConnFrame
<1> QED BY <1>4, <1>5, <1>6, <1>7, <1>8 DEF ConnectionsInv

\* A socket that takes its peer's segments is in the list and accepts them; a
\* socket that waits for a SYN is the last one asked.
LEMMA Target ==
    ASSUME LinkInv, PolitePeers, NEW p \in Peers, NEW m, From(m, p)
    PROVE  /\ \A t \in Sockets : Conn(t, p) /\ Receiving(t) =>
                  \E j \in Candidates(m) : sockets_[j] = t
           /\ \A i \in Candidates(m) :
                  /\ sockets_[i] \in Sockets /\ Live(sockets_[i])
                  /\ \/ Conn(sockets_[i], p)
                     \/ /\ state_[sockets_[i]] = "want_syn"
                        /\ (\A j \in Candidates(m) : i <= j) =>
                               \A t \in Sockets : Conn(t, p) => ~Receiving(t)
<1>0. /\ TypeOK /\ ListInv /\ \A t \in Sockets : SocketInv(t)
  BY DEF LinkInv, ConnectionsInv, ActorsAgree
<1>1. /\ sockets_ \in Seq(Sockets) /\ Len(sockets_) \in Nat
      /\ DOMAIN sockets_ = 1 .. Len(sockets_)
  BY <1>0 DEF TypeOK
<1>2. \A i \in Candidates(m) : i \in DOMAIN sockets_ /\ Accepts(sockets_[i], m)
  BY DEF Candidates
<1>3. ASSUME NEW t \in Sockets, Conn(t, p), Receiving(t)
      PROVE  \E j \in Candidates(m) : sockets_[j] = t
  <2>1. own[t] # "unborn" /\ own[t] # "deleted"
    BY <1>0, <1>3 DEF SocketInv, Receiving
  <2>2. PICK j \in DOMAIN sockets_ : sockets_[j] = t
    BY <1>0, <2>1 DEF SocketInv, Live
  <2>3. Accepts(t, m)
    BY <1>0, <1>3, <2>1 DEF Accepts, SocketInv, From, Conn
  <2> QED BY <2>2, <2>3 DEF Candidates
<1>4. ASSUME NEW i \in Candidates(m)
      PROVE  /\ sockets_[i] \in Sockets /\ Live(sockets_[i])
             /\ state_[sockets_[i]] # "want_syn" => Conn(sockets_[i], p)
  <2>1. sockets_[i] \in Sockets /\ Live(sockets_[i])
    BY <1>0, <1>1, <1>2, <1>4 DEF ListInv
  <2>2. state_[sockets_[i]] # "none"
    BY <1>0, <2>1 DEF SocketInv, Live
  <2> QED BY <1>2, <1>4, <2>1, <2>2 DEF Accepts, Conn, From
<1>5. ASSUME NEW i \in Candidates(m), state_[sockets_[i]] = "want_syn",
             \A j \in Candidates(m) : i <= j,
             NEW t \in Sockets, Conn(t, p), Receiving(t)
      PROVE  FALSE
  <2>1. PICK j \in Candidates(m) : sockets_[j] = t
    BY <1>3, <1>5
  <2>2. sockets_[Len(sockets_)] = sockets_[i] /\ Len(sockets_) > 0
    BY <1>0, <1>4, <1>5 DEF SocketInv
  <2>3. i = Len(sockets_)
    BY <1>0, <1>1, <1>2, <1>5, <2>2 DEF ListInv
  <2> DEFINE l == Len(sockets_)
  <2>4. l \in Nat /\ l <= j /\ j \in 1 .. l
    BY <1>1, <1>2, <1>5, <2>1, <2>3
  <2> HIDE DEF l
  <2>6. j = l
    BY <2>4
  <2>5. j = i
    BY <2>3, <2>6 DEF l
  <2> QED BY <1>5, <2>1, <2>5 DEF Conn
<1> QED BY <1>3, <1>4, <1>5

\* A connection begins.
LEMMA LinkTakeSyn ==
    ASSUME LinkInv, PolitePeers, NEW p \in Peers, c2s[p] # <<>>,
           c2s' = [c2s EXCEPT ![p] = Tail(@)], Head(c2s[p]).syn,
           NEW s \in Sockets, state_[s] = "want_syn", TakeSyn(s, Head(c2s[p])),
           Live(s), disp.pc = "idle",
           UNCHANGED <<recv_queue_, peer, s2c, got>>
    PROVE  ConnectionsInv'
<1> DEFINE m == Head(c2s[p])
<1>0. /\ TypeOK /\ LinkTypeOK /\ ConnAddress /\ OneListens
      /\ \A q \in Peers : PeerInv(q)
      /\ \A t \in Sockets : SocketInv(t) /\ OwnerInv(t)
      /\ \A t \in Sockets, q \in Peers : Conn(t, q) => ConnInv(t, q)
  BY DEF LinkInv, ConnectionsInv, ActorsAgree
<1>1. /\ peer[p].st = "syn_sent" /\ m = SynOf(p) /\ NoConn(p)
      /\ peer[p].at = 0 /\ peer[p].answers = 0 /\ peer[p].acked = 0
      /\ c2s[p] = <<SynOf(p)>>
  <2>1. 1 \in DOMAIN c2s[p] /\ m = c2s[p][1]
    <3>1. /\ Len(c2s[p]) \in Nat /\ Len(c2s[p]) > 0 /\ m = c2s[p][1]
          /\ DOMAIN c2s[p] = 1 .. Len(c2s[p])
      BY <1>0, HeadTaken
    <3>2. 1 \in 1 .. Len(c2s[p])
      BY <3>1
    <3> QED BY <3>1, <3>2
  <2>2. peer[p].st = "syn_sent"
    BY <1>0, <2>1 DEF PeerInv
  <2>3. /\ c2s[p] = <<SynOf(p)>> /\ NoConn(p)
        /\ peer[p].at = 0 /\ peer[p].answers = 0 /\ peer[p].acked = 0
    BY <1>0, <2>2 DEF PeerInv
  <2> QED BY <2>1, <2>2, <2>3
<1>2. /\ m.seq_num = Isn[p] /\ m.ip = PeerAddress[p].ip
      /\ m.src_port = PeerAddress[p].port
  BY <1>1 DEF SynOf, PeerSeg
<1> HIDE DEF m
<1>3. own[s] = "listen"
  <2>1. own[s] \in OwnerPcs
    BY <1>0 DEF TypeOK
  <2> QED BY <1>0, <2>1 DEF OwnerInv, OwnerPcs, Working, Live
<1>4. /\ sockets_' = sockets_ /\ in_port_' = in_port_ /\ own' = own
      /\ recv_queue_' = recv_queue_ /\ peer' = peer /\ s2c' = s2c /\ got' = got
      /\ disp' = Awaiting("syn_ack", s, m) /\ Transmit(Dispatcher, SynAck(s))
  BY DEF TakeSyn, m
<1>5. /\ in_seq_'[s] = Num(p, 0) /\ state_'[s] = "want_ack"
      /\ next_state_'[s] = "connected"
      /\ out_port_'[s] = PeerAddress[p].port /\ ip_'[s] = PeerAddress[p].ip
  <2>1. Plus(Isn[p], 1) = Num(p, 0)
    BY NumStep
  <2>2. /\ in_seq_'[s] = Plus(m.seq_num, 1) /\ state_'[s] = "want_ack"
        /\ next_state_'[s] = "connected"
        /\ out_port_'[s] = m.src_port /\ ip_'[s] = m.ip
    BY <1>0 DEF TakeSyn, TypeOK, m
  <2> QED BY <1>2, <2>1, <2>2
<1>6. \A t \in Sockets \ {s} :
          /\ in_seq_'[t] = in_seq_[t] /\ state_'[t] = state_[t]
          /\ next_state_'[t] = next_state_[t]
          /\ out_port_'[t] = out_port_[t] /\ ip_'[t] = ip_[t]
  BY <1>0 DEF TakeSyn, TypeOK
<1>7. /\ Conn(s, p)' /\ \A q \in Peers : Conn(s, q)' => q = p
      /\ \A q \in Peers : ~Conn(s, q)
      /\ \A t \in Sockets \ {s}, q \in Peers : Conn(t, q)' <=> Conn(t, q)
  BY <1>5, <1>6 DEF Conn, PolitePeers
<1>8. /\ c2s' \in [Peers -> Seq(PeerSegment)]
      /\ \A q \in Peers : q # p => c2s'[q] = c2s[q]
      /\ c2s'[p] = <<>>
  <2>1. /\ c2s' \in [Peers -> Seq(PeerSegment)]
        /\ \A q \in Peers : q # p => c2s'[q] = c2s[q]
    BY <1>0, HeadTaken, ArrivalsType
  <2>2. Tail(<<SynOf(p)>>) = <<>>
    OBVIOUS
  <2>3. c2s'[p] = Tail(c2s[p])
    BY <1>0 DEF LinkTypeOK
  <2> QED BY <1>1, <2>1, <2>2, <2>3
<1>9. /\ SynAck(s) \in Segment /\ SynAck(s).dest_port = PeerAddress[p].port
      /\ SynAck(s).payload = <<>> /\ ~SynAck(s).fin
  <2>1. in_seq_'[s] \in SeqNum
    BY <1>5, NumStep
  <2>2. out_seq_'[s] \in SeqNum /\ in_port_[s] \in Ports
    BY <1>0 DEF TakeSyn, TypeOK
  <2>3. out_port_'[s] \in RemotePorts /\ ip_'[s] \in Hosts
    BY <1>5, PeersAssumption
  <2>4. SynAck(s) \in Segment
    BY <2>1, <2>2, <2>3, ReplyType
  <2> QED BY <1>5, <2>4 DEF SynAck, Frame
<1>10. \A i \in DOMAIN txq' : txq'[i].seg.syn => txq'[i].seg.payload = <<>>
  <2> DEFINE T == [by : Sockets \cup {Dispatcher}, seg : Segment]
             x == [by |-> Dispatcher, seg |-> SynAck(s)]
  <2>1. txq \in Seq(T) /\ x \in T /\ txq' = Append(txq, x)
    BY <1>0, <1>4, <1>9 DEF TypeOK, Transmit
  <2>2. x.seg.payload = <<>>
    BY <1>9
  <2> HIDE DEF T, x
  <2>3. \A i \in DOMAIN txq' : \/ txq'[i] = x
                               \/ i \in DOMAIN txq /\ txq'[i] = txq[i]
    BY <2>1
  <2> QED BY <1>0, <2>2, <2>3 DEF LinkTypeOK
<1>11. \A q \in Peers : q # p => /\ Quiet(q) => Quiet(q)'
                                 /\ Single(q) => Single(q)'
                                 /\ Nothing(q) => Nothing(q)'
                                 /\ \A d : Numbered(q, d) => Numbered(q, d)'
  <2> SUFFICES ASSUME NEW q \in Peers, q # p
               PROVE  /\ Quiet(q) => Quiet(q)'
                      /\ Single(q) => Single(q)'
                      /\ Nothing(q) => Nothing(q)'
                      /\ \A d : Numbered(q, d) => Numbered(q, d)'
    OBVIOUS
  <2>1. SynAck(s).dest_port # PeerAddress[q].port
    BY <1>9 DEF PolitePeers
  <2>2. s2c'[q] = s2c[q]
    BY <1>4
  <2> QED BY <1>0, <1>4, <1>9, <2>1, <2>2, TransitSent
<1>12. Single(p)' /\ Numbered(p, 0)'
  <2>1. Quiet(p) /\ Numbered(p, 0)
    <3>1. Nothing(p)
      BY <1>0, <1>1 DEF PeerInv
    <3>2. DOMAIN s2c[p] = {}
      BY <3>1 DEF Nothing
    <3> QED BY <3>1, <3>2 DEF Nothing, Quiet, Leaving, Numbered
  <2>2. s2c'[p] = s2c[p]
    BY <1>4
  <2>3. Covers(SynAck(s), p, 0)
    <3>1. SynAck(s).ack_num = Num(p, 0)
      BY <1>5 DEF SynAck, Frame
    <3>2. StreamLength(p, 0) = 0 /\ 0 \in 0 .. 0
      BY StreamStep
    <3> QED BY <3>1, <3>2 DEF Covers
  <2> QED BY <1>0, <1>4, <1>9, <2>1, <2>2, <2>3, TransitSent
<1>13. LinkTypeOK'
  BY <1>0, <1>4, <1>8, <1>10 DEF LinkTypeOK, PeerOK
<1>14. ASSUME NEW t \in Sockets PROVE SocketInv(t)'
  <2>1. CASE t = s
    BY <1>0, <1>3, <1>4, <1>5, <2>1 DEF SocketInv, Live
  <2>2. CASE t # s
    BY <1>0, <1>4, <1>6, <2>2 DEF SocketInv, Live
  <2> QED BY <2>1, <2>2
<1>15. OneListens'
  BY <1>0, <1>4 DEF OneListens
<1>16. ConnAddress'
  <2>1. ASSUME NEW t \in Sockets, NEW u \in Sockets, NEW q \in Peers,
               Conn(t, q)', Conn(u, q)'
        PROVE  t = u
    BY <1>0, <1>1, <1>7, <2>1 DEF ConnAddress, NoConn
  <2>2. ASSUME NEW t \in Sockets, NEW q \in Peers, Conn(t, q)'
        PROVE  ip_'[t] = PeerAddress[q].ip
    BY <1>0, <1>5, <1>6, <1>7, <2>2 DEF ConnAddress
  <2>3. ASSUME NEW t \in Sockets, state_'[t] \notin {"none", "want_syn"}
        PROVE  \E q \in Peers : Conn(t, q)'
    <3>1. CASE t = s
      BY <1>7, <3>1
    <3>2. CASE t # s
      <4>1. PICK q \in Peers : Conn(t, q)
        BY <1>0, <1>6, <2>3, <3>2 DEF ConnAddress
      <4> QED BY <1>7, <3>2, <4>1
    <3> QED BY <3>1, <3>2
  <2> QED BY <2>1, <2>2, <2>3 DEF ConnAddress
<1>17. ASSUME NEW q \in Peers PROVE PeerInv(q)'
  <2>1. CASE q = p
    <3>1. ~NoConn(p)'
      BY <1>7 DEF NoConn
    <3>2. \A t \in Sockets : Conn(t, p)' => own'[t] = "listen"
      BY <1>1, <1>3, <1>4, <1>7 DEF NoConn
    <3>3. DOMAIN c2s'[p] = {}
      BY <1>8
    <3>4. PeerInv(p)
      BY <1>0
    <3> QED BY <1>1, <1>4, <1>8, <2>1, <3>1, <3>2, <3>3, <3>4 DEF PeerInv
  <2>2. CASE q # p
    <3>1. NoConn(q)' <=> NoConn(q)
      BY <1>7, <2>2 DEF NoConn
    <3>2. \A t \in Sockets : Conn(t, q)' => Conn(t, q)
      BY <1>7, <2>2
    <3>3. PeerInv(q)
      BY <1>0
    <3> QED BY <1>4, <1>8, <1>11, <2>2, <3>1, <3>2, <3>3 DEF PeerInv, From
  <2> QED BY <2>1, <2>2
<1>18. \A t : ~Holding(t)' /\ ~Holding(t)
  BY <1>4 DEF Holding, Awaiting
<1>19. ConnInv(s, p)'
  <2>1. 0 \in 0 .. Len(Script[p]) /\ StreamLength(p, 0) = 0
    BY ScriptType, StreamStep
  <2>2. got'[s] = <<>> /\ recv_queue_'[s] = <<>>
    BY <1>0, <1>4 DEF SocketInv
  <2>3. Stream(p, 0, 0) = <<>>
    BY StreamType
  <2>4. Facts(s, p, 0, 0, 0)'
    BY <1>1, <1>4, <1>18, <2>1, <2>2, <2>3 DEF Facts
  <2>5. Waiting(p, 0, 0)' /\ Outstanding(p, 0, 0)'
    BY <1>1, <1>4, <1>8, <1>12 DEF Waiting, Outstanding
  <2>9. LossyFlow(s, p, 0, 0)'
    <3>1. OnTheWay(p, 0)'
      <4>1. DOMAIN c2s'[p] = {}
        BY <1>8
      <4> QED BY <4>1 DEF OnTheWay
    <3>2. Window(p, 0)'
      BY <1>1, <1>4 DEF Window
    <3> QED BY <1>12, <2>5, <3>1, <3>2 DEF LossyFlow
  <2>10. KeptFlow(s, p, 0, 0)'
    BY <1>5, <2>5 DEF KeptFlow
  <2>6. Requests(p, 0) = 0 /\ Requests(p, 0 - 1) = 0
    BY RequestsStep
  <2>7. Flow(s, p, 0, 0)'
    BY <1>1, <1>4, <1>5, <2>1, <2>6, <2>9, <2>10 DEF Flow
  <2>8. ~Passive(s)'
    BY <1>5 DEF Passive
  <2> QED BY <2>1, <2>4, <2>7, <2>8 DEF ConnInv
<1>20. ASSUME NEW t \in Sockets, NEW q \in Peers, Conn(t, q)' PROVE ConnInv(t, q)'
  <2>1. CASE t = s
    BY <1>7, <1>19, <1>20, <2>1
  <2>2. CASE t # s
    <3>1. Conn(t, q) /\ q # p /\ ConnInv(t, q)
      BY <1>0, <1>1, <1>7, <1>20, <2>2 DEF NoConn
    <3>2. Keeps(t, q)
      BY <1>4, <1>18 DEF Keeps, Closing, FinLeft
    <3>3. KeepsFlow(t, q)
      BY <1>4, <1>6, <1>8, <1>11, <2>2, <3>1 DEF KeepsFlow
    <3>4. (Receiving(t)' <=> Receiving(t)) /\ (Passive(t)' <=> Passive(t))
      BY <1>6, <2>2 DEF Receiving, Passive
    <3> QED BY <3>1, <3>2, <3>3, <3>4, ConnFrame
  <2> QED BY <2>1, <2>2
<1> QED BY <1>13, <1>14, <1>15, <1>16, <1>17, <1>20 DEF ConnectionsInv

\* The first segment of a peer reaches the socket of its connection.
Arrives(s, p) ==
    /\ c2s[p] # <<>> /\ c2s' = [c2s EXCEPT ![p] = Tail(@)]
    /\ Conn(s, p) /\ Live(s) /\ disp.pc = "idle"
    /\ UNCHANGED <<sockets_, address, recv_queue_, peer, s2c, got>>

\* What a segment of a connection does to the rest of the system.
LEMMA ArrivalStep ==
    ASSUME LinkInv, PolitePeers, NEW s \in Sockets, NEW p \in Peers, Arrives(s, p),
           \A t \in Sockets \ {s} :
               /\ state_'[t] = state_[t] /\ next_state_'[t] = next_state_[t]
               /\ in_seq_'[t] = in_seq_[t] /\ own'[t] = own[t],
           own'[s] = own[s] \/ (own'[s] \in OwnerPcs \ {"unborn", "listen", "deleted"}
                                  /\ peer[p].st # "syn_sent"
                                  /\ (own'[s] = "notified" => own[s] = "listen")),
           disp' = Idle \/ disp'.sock = s, Sends(s),
           state_'[s] \notin {"none", "want_syn"}, ConnInv(s, p)'
    PROVE  ConnectionsInv'
<1>1. /\ recv_queue_' = recv_queue_ /\ got' = got /\ sockets_' = sockets_
      /\ UNCHANGED <<address, peer, s2c>>
  BY DEF Arrives
<1>2. disp.pc = "idle"
  BY DEF Arrives
<1>3. \A t \in Sockets \ {s} : ~Holding(t)' /\ ~Holding(t)
  BY <1>2 DEF Holding, Idle
<1>4. Elsewhere(s)
  BY <1>1, <1>3 DEF Elsewhere
<1>5. ListKept(s) /\ FromPeer(p)
  BY <1>1 DEF ListKept, FromPeer, Arrives
<1>6. OwnerKept(s, p)
  BY DEF OwnerKept, Arrives, Live
<1>7. Conn(s, p)
  BY DEF Arrives
<1> QED BY <1>1, <1>4, <1>5, <1>6, <1>7, SocketStep

\* The parts of a connection that its peer's segment finds.
LEMMA ArrivalFinds ==
    ASSUME LinkInv, NEW s \in Sockets, NEW p \in Peers, Arrives(s, p)
    PROVE  /\ TypeOK /\ LinkTypeOK /\ OwnerInv(s) /\ PeerInv(p) /\ ConnInv(s, p)
           /\ ~Holding(s)
           /\ own[s] # "listen" => peer[p].st # "syn_sent"
<1>1. /\ TypeOK /\ LinkTypeOK /\ OwnerInv(s) /\ PeerInv(p) /\ ConnInv(s, p)
  BY DEF LinkInv, ConnectionsInv, ActorsAgree, Arrives
<1>2. ~Holding(s)
  BY DEF Arrives, Holding
<1>3. own[s] # "listen" => peer[p].st # "syn_sent"
  BY <1>1 DEF Arrives, PeerInv
<1> QED BY <1>1, <1>2, <1>3

\* What is left in front of the endpoint is what was there.
LEMMA LossyTaken ==
    ASSUME LinkTypeOK, NEW s \in Sockets, NEW p \in Peers, c2s[p] # <<>>,
           c2s' = [c2s EXCEPT ![p] = Tail(@)], peer' = peer, s2c'[p] = s2c[p],
           txq' = txq, state_'[s] = "connected",
           NEW r, NEW d, LossyFlow(s, p, r, d)
    PROVE  LossyFlow(s, p, r, d)'
<1>1. \A i \in DOMAIN c2s'[p] : \E j \in DOMAIN c2s[p] : c2s'[p][i] = c2s[p][j]
  BY HeadTaken, ArrivalsType
<1>2. \A m : Known(m, p, d) => Known(m, p, d)'
  BY DEF Known
<1>3. OnTheWay(p, d)'
  BY <1>1, <1>2 DEF OnTheWay, LossyFlow
<1>4. Quiet(p)' \/ Outstanding(p, r, d)'
  BY TransitStill DEF LossyFlow, Outstanding
<1>5. Numbered(p, d)'
  BY TransitStill DEF LossyFlow
<1>6. Window(p, d)'
  BY DEF LossyFlow, Window, AllLeft, PieceLeft, FinLeft
<1> QED BY <1>3, <1>4, <1>5, <1>6 DEF LossyFlow

\* Numbers that do not wrap grow with the stream, by at least two a segment.
LEMMA Numbers ==
    ASSUME PolitePeers, Lossy, NEW p \in Peers
    PROVE  /\ \A k \in 0 .. Len(Script[p]) :
                  /\ Num(p, StreamLength(p, k)) = Isn[p] + (1 + StreamLength(p, k))
                  /\ Num(p, StreamLength(p, k)) \in Nat \ {0}
                  /\ Num(p, StreamLength(p, k)) < SeqSpace
           /\ \A j, k \in 0 .. Len(Script[p]) :
                  j < k => Num(p, StreamLength(p, j)) + 2 <= Num(p, StreamLength(p, k))
<1> DEFINE l == Len(Script[p])
           n == Isn[p]
           S(k) == StreamLength(p, k)
<1>1. /\ n + 1 + S(l) < SeqSpace
      /\ \A k \in 1 .. l : Script[p][k].len >= 2
  <2>1. Distinguishable
    BY DEF PolitePeers, NothingLost, Lossy
  <2>2. DOMAIN Script[p] = 1 .. l
    BY ScriptType
  <2> QED BY <2>1, <2>2 DEF Distinguishable
<1>2. l \in Nat /\ n \in Nat /\ SeqSpace \in Nat
  BY ScriptType, PeersAssumption, SeqSpaceAssumption DEF SeqNum
<1>3. /\ \A k \in 0 .. l : S(k) \in Nat
      /\ \A k \in 1 .. l : S(k) = S(k - 1) + Script[p][k].len /\ Script[p][k].len \in Nat
      /\ \A j, k \in 0 .. l : j < k => S(j) < S(k)
  BY StreamStep, StreamMonotonic, ScriptType
<1> HIDE DEF l, n, S
<1>4. ASSUME NEW k \in 0 .. l PROVE S(k) <= S(l)
  <2>1. k < l \/ k = l
    BY <1>2
  <2>2. l \in 0 .. l
    BY <1>2
  <2> QED BY <1>3, <2>1, <2>2
<1>5. ASSUME NEW j \in 0 .. l, NEW k \in 0 .. l, j < k PROVE S(j) + 2 <= S(k)
  <2>1. k \in 1 .. l /\ k - 1 \in 0 .. l /\ (j < k - 1 \/ j = k - 1)
    BY <1>2, <1>5
  <2>2. S(j) <= S(k - 1)
    BY <1>3, <2>1
  <2> QED BY <1>1, <1>3, <2>1, <2>2
<1>6. ASSUME NEW k \in 0 .. l
      PROVE  /\ Num(p, S(k)) = n + (1 + S(k)) /\ Num(p, S(k)) \in Nat \ {0}
             /\ Num(p, S(k)) < SeqSpace
  <2> DEFINE a == n + (1 + S(k))
  <2>1. l \in 0 .. l
    BY <1>2
  <2>2. S(k) \in Nat /\ S(l) \in Nat /\ S(k) <= S(l)
    BY <1>3, <1>4, <2>1
  <2>3. a \in Nat \ {0} /\ a < SeqSpace
    BY <1>1, <1>2, <2>2
  <2>4. Num(p, S(k)) = a % SeqSpace
    BY DEF Num, Plus, n
  <2> HIDE DEF a
  <2>5. a % SeqSpace = a
    BY <1>2, <2>3
  <2> QED BY <2>3, <2>4, <2>5 DEF a
<1>7. ASSUME NEW j \in 0 .. l, NEW k \in 0 .. l, j < k
      PROVE  Num(p, S(j)) + 2 <= Num(p, S(k))
  <2>1. S(j) \in Nat /\ S(k) \in Nat
    BY <1>3
  <2>2. Num(p, S(j)) = n + (1 + S(j)) /\ Num(p, S(k)) = n + (1 + S(k))
    BY <1>6
  <2> QED BY <1>2, <1>5, <1>7, <2>1, <2>2
<1> QED BY <1>6, <1>7 DEF l, n, S

\* Then the receive branch keeps out what the endpoint has.
LEMMA OldOutOfOrder ==
    ASSUME PolitePeers, Lossy, NEW s \in Sockets, NEW p \in Peers,
           NEW k \in 0 .. Len(Script[p]), NEW d \in 0 .. Len(Script[p]), k < d,
           in_seq_[s] = Num(p, StreamLength(p, d)), NEW m,
           m.seq_num = Num(p, StreamLength(p, k))
    PROVE  ~InOrder(s, m)
<1> DEFINE a == Num(p, StreamLength(p, k))
           b == Num(p, StreamLength(p, d))
           c == b + (SeqSpace - 1)
<1>1. a \in Nat /\ b \in Nat \ {0} /\ b < SeqSpace /\ a + 2 <= b
  BY Numbers
<1>2. SeqSpace \in Nat \ {0}
  BY SeqSpaceAssumption
<1> HIDE DEF a, b
<1>3. Plus(b, SeqSpace - 1) = b - 1
  <2>1. c = (b - 1) + SeqSpace /\ b - 1 \in Nat /\ b - 1 < SeqSpace
    BY <1>1, <1>2
  <2>2. ((b - 1) + SeqSpace) % SeqSpace = b - 1
    BY <1>1, <1>2, <2>1
  <2> QED BY <2>1, <2>2 DEF Plus
<1>4. ~(b <= a) /\ b - 1 # a
  BY <1>1
<1> QED BY <1>3, <1>4 DEF InOrder, a, b

\* A peer whose segments find a connection has got its SYN-ACK.
LEMMA ArrivesSynced ==
    ASSUME LinkInv, NEW s \in Sockets, NEW p \in Peers, Arrives(s, p)
    PROVE  peer[p].st \notin {"closed", "syn_sent"}
<1>1. PeerInv(p) /\ Conn(s, p) /\ c2s[p] # <<>>
  BY DEF LinkInv, ConnectionsInv, Arrives
<1> QED BY <1>1 DEF PeerInv, NoConn

\* The acknowledgement that ends the handshake, an answer or a close.
LEMMA LinkTakeAck ==
    ASSUME LinkInv, PolitePeers, NEW s \in Sockets, NEW p \in Peers, Arrives(s, p),
           state_[s] = "want_ack", TakeAck(s)
    PROVE  ConnectionsInv'
<1>1. /\ TypeOK /\ LinkTypeOK /\ OwnerInv(s) /\ PeerInv(p) /\ ConnInv(s, p)
      /\ ~Holding(s)
      /\ own[s] # "listen" => peer[p].st # "syn_sent"
  BY ArrivalFinds
<1>2. /\ own[s] \in {"listen", "close_wait"} \cup Working
      /\ next_state_[s] \in {"connected", "closed"}
      /\ own[s] = "listen" => next_state_[s] = "connected"
      /\ own[s] = "close_wait" => next_state_[s] = "closed"
  <2>1. own[s] \in OwnerPcs /\ Live(s)
    BY <1>1 DEF TypeOK, Arrives
  <2> QED BY <1>1, <2>1 DEF OwnerInv, OwnerPcs, Working, Live
<1>3. /\ state_'[s] = next_state_[s] /\ next_state_'[s] = "none"
      /\ in_seq_' = in_seq_ /\ disp' = Idle /\ txq' = txq
      /\ own'[s] = (IF own[s] = "listen" THEN "notified"
                    ELSE IF own[s] = "close_wait" THEN "close_woken" ELSE own[s])
      /\ \A t \in Sockets \ {s} :
             /\ state_'[t] = state_[t] /\ next_state_'[t] = next_state_[t]
             /\ own'[t] = own[t]
  <2>1. /\ state_'[s] = next_state_[s] /\ next_state_'[s] = "none"
        /\ in_seq_' = in_seq_ /\ disp' = Idle /\ txq' = txq
        /\ \A t \in Sockets \ {s} :
               state_'[t] = state_[t] /\ next_state_'[t] = next_state_[t]
    BY <1>1 DEF TakeAck, TypeOK, Return
  <2>2. CASE next_state_[s] = "connected"
    <3>1. own' = [own EXCEPT ![s] = IF @ = "listen" THEN "notified" ELSE @]
      BY <2>2 DEF TakeAck, RaiseAfterAck, Raise
    <3> QED BY <1>1, <1>2, <2>1, <2>2, <3>1 DEF TypeOK
  <2>3. CASE next_state_[s] = "closed"
    <3>1. own' = [own EXCEPT ![s] = IF @ = "close_wait" THEN "close_woken" ELSE @]
      BY <2>3 DEF TakeAck, RaiseAfterAck, Raise
    <3> QED BY <1>1, <1>2, <2>1, <2>3, <3>1 DEF TypeOK
  <2> QED BY <1>2, <2>2, <2>3
<1>4. /\ recv_queue_' = recv_queue_ /\ peer' = peer /\ s2c' = s2c /\ got' = got
      /\ c2s[p] # <<>> /\ c2s' = [c2s EXCEPT ![p] = Tail(@)]
  BY DEF Arrives
<1>5. ~Holding(s)'
  BY <1>3 DEF Holding, Idle
<1>6. Keeps(s, p)
  BY <1>1, <1>4, <1>5 DEF Keeps, Closing, FinLeft
<1>7. Sends(s)
  BY <1>3 DEF Sends
<1>8. own'[s] = own[s] \/ own'[s] \in {"notified", "close_woken"}
  BY <1>3
<1>9. own'[s] = "notified" => own[s] \in {"listen", "notified"}
  BY <1>3
<1>10. CASE next_state_[s] = "closed"
  <2>1. ~Receiving(s)' /\ ~Passive(s)'
    BY <1>3, <1>10 DEF Receiving, Passive
  <2>2. ConnInv(s, p)'
    BY <1>1, <1>6, <2>1, ConnFrame
  <2>3. peer[p].st # "syn_sent"
    BY <1>1, <1>2, <1>10
  <2>4. own'[s] = own[s] \/ own'[s] = "close_woken"
    BY <1>2, <1>3, <1>10
  <2> QED BY <1>3, <1>7, <1>10, <2>2, <2>3, <2>4, ArrivalStep DEF OwnerPcs
<1>11. CASE next_state_[s] = "connected"
  <2>1. PICK r \in 0 .. Len(Script[p]), e \in 0 .. Len(Script[p]), d \in 0 .. Len(Script[p]) :
            /\ Facts(s, p, r, e, d)
            /\ Receiving(s) => Flow(s, p, r, d)
            /\ Passive(s) => Ended(p, r, e, d)
    BY <1>1 DEF ConnInv
  <2>2. Flow(s, p, r, d)
    BY <1>11, <2>1 DEF Receiving
  <2>3. ASSUME Lossy PROVE LossyFlow(s, p, r, d)'
    <3>1. LossyFlow(s, p, r, d)
      BY <2>2, <2>3 DEF Flow
    <3>2. state_'[s] = "connected" /\ s2c'[p] = s2c[p]
      BY <1>3, <1>4, <1>11
    <3> QED BY <1>1, <1>3, <1>4, <3>1, <3>2, LossyTaken
  <2>4. ASSUME ~Lossy PROVE KeptFlow(s, p, r, d)'
    <3>1. Acked(p, r, d)
      BY <1>4, <2>2, <2>4 DEF Flow, KeptFlow, Waiting
    <3>2. d <= peer[p].at
      BY <2>1 DEF Facts
    <3>3. Rest(p, 0, d)'
      BY <1>1, <1>4, <3>1, <3>2, RestTaken DEF Acked
    <3>4. Quiet(p)'
      BY <1>3, <1>4, <3>1, TransitStill DEF Acked
    <3> QED BY <1>3, <1>11, <3>3, <3>4 DEF KeptFlow, Opened
  <2>5. peer'[p] = peer[p] /\ in_seq_'[s] = in_seq_[s]
    BY <1>3, <1>4
  <2>6. Flow(s, p, r, d)'
    BY <2>2, <2>3, <2>4, <2>5 DEF Flow, Lossy
  <2>7. Facts(s, p, r, e, d)'
    BY <1>1, <1>4, <1>5, <2>1 DEF Facts
  <2>8. ~Passive(s)'
    BY <1>3, <1>11 DEF Passive
  <2>9. ConnInv(s, p)'
    BY <2>6, <2>7, <2>8 DEF ConnInv
  <2>10. peer[p].st # "syn_sent"
    BY ArrivesSynced
  <2>11. own'[s] = own[s] \/ (own'[s] = "notified" /\ own[s] = "listen")
    BY <1>2, <1>3, <1>11
  <2> QED BY <1>3, <1>7, <1>11, <2>9, <2>10, <2>11, ArrivalStep DEF OwnerPcs
<1> QED BY <1>2, <1>10, <1>11

\* The next piece of the stream, the FIN after the last, and, when segments are
\* lost and repeated, what the endpoint has already.
IsNext(m, p, d) == d < peer[p].at /\ IsPiece(m, p, d + 1)

IsEnd(m, p, d) ==
    /\ d = peer[p].at /\ m.fin /\ m.ack
    /\ peer[p].answers = Requests(p, peer[p].at)
    /\ Lossy => Finished(p, d)

IsOld(m, p, d) ==
    /\ Lossy /\ m.ack /\ ~m.fin
    /\ \E k \in 0 .. d : /\ m.seq_num = Num(p, StreamLength(p, k))
                         /\ k < d \/ m.payload = <<>>

\* What a segment on a network that loses some can be.
LEMMA KnownFinds ==
    ASSUME Lossy, LinkTypeOK, NEW s \in Sockets, NEW p \in Peers,
           NEW r, NEW d \in 0 .. Len(Script[p]),
           LossyFlow(s, p, r, d), NEW m, Known(m, p, d)
    PROVE  IsNext(m, p, d) \/ IsEnd(m, p, d) \/ IsOld(m, p, d)
<1> DEFINE at == peer[p].at
<1>1. at \in Nat /\ at <= d + 1 /\ d \in Nat
  BY ScriptType DEF LinkTypeOK, PeerOK, LossyFlow, Window
<1>2. ASSUME m.payload = <<>>, NEW k \in 0 .. d, IsAck(m, Num(p, StreamLength(p, k)))
      PROVE  IsOld(m, p, d)
  BY <1>2 DEF IsOld, IsAck
<1>3. ASSUME NEW k \in 1 .. at, IsPiece(m, p, k)
      PROVE  IsNext(m, p, d) \/ IsOld(m, p, d)
  <2> HIDE DEF at
  <2>1. k \in Nat /\ (k = d + 1 \/ (k - 1 \in 0 .. d /\ k - 1 < d))
    BY <1>1
  <2>2. CASE k = d + 1
    <3>1. d < at
      BY <1>1, <2>2
    <3> QED BY <1>3, <2>2, <3>1 DEF IsNext, at
  <2>3. CASE k - 1 \in 0 .. d /\ k - 1 < d
    BY <1>3, <2>3 DEF IsOld, IsPiece, IsAck
  <2> QED BY <2>1, <2>2, <2>3
<1>4. ASSUME peer[p].st = "fin_sent", IsFin(m) PROVE IsEnd(m, p, d)
  BY <1>4 DEF IsEnd, IsFin, LossyFlow, Window, Finished, Closing
<1> QED BY <1>2, <1>3, <1>4 DEF Known

\* What an open connection finds first.
LEMMA OpenedFinds ==
    ASSUME LinkInv, NEW s \in Sockets, NEW p \in Peers, Arrives(s, p),
           state_[s] = "connected"
    PROVE  \E r, e, d \in 0 .. Len(Script[p]) :
               /\ Facts(s, p, r, e, d) /\ Flow(s, p, r, d) /\ d = e
               /\ \/ IsNext(Head(c2s[p]), p, d)
                  \/ IsEnd(Head(c2s[p]), p, d)
                  \/ IsOld(Head(c2s[p]), p, d)
<1>1. TypeOK /\ LinkTypeOK /\ ConnInv(s, p) /\ ~Holding(s)
  BY ArrivalFinds
<1>2. PICK r \in 0 .. Len(Script[p]), e \in 0 .. Len(Script[p]), d \in 0 .. Len(Script[p]) :
          /\ Facts(s, p, r, e, d)
          /\ Receiving(s) => Flow(s, p, r, d)
          /\ Passive(s) => Ended(p, r, e, d)
  BY <1>1 DEF ConnInv
<1>3. Flow(s, p, r, d)
  BY <1>2 DEF Receiving
<1>4. d <= peer[p].at /\ d = e
  BY <1>1, <1>2 DEF Facts
<1>5. /\ c2s[p] # <<>> /\ c2s' = [c2s EXCEPT ![p] = Tail(@)] /\ peer' = peer
  BY DEF Arrives
<1>6. CASE ~Lossy
  <2>1. Rest(p, 0, d)
    BY <1>3, <1>6 DEF Flow, KeptFlow, Opened
  <2>2. /\ d < peer[p].at => IsPiece(Head(c2s[p]), p, d + 1)
        /\ d = peer[p].at => /\ Head(c2s[p]).fin /\ Head(c2s[p]).ack
                             /\ peer[p].answers = Requests(p, peer[p].at)
    BY <1>1, <1>4, <1>5, <2>1, RestTaken
  <2>3. d < peer[p].at \/ d = peer[p].at
    <3>1. peer[p].at \in Nat /\ d \in Nat
      BY <1>1, ScriptType DEF LinkTypeOK, PeerOK
    <3> QED BY <1>4, <3>1
  <2> QED BY <1>2, <1>3, <1>4, <1>6, <2>2, <2>3 DEF IsNext, IsEnd
<1>7. CASE Lossy
  <2>1. LossyFlow(s, p, r, d)
    BY <1>3, <1>7 DEF Flow
  <2>2. Known(Head(c2s[p]), p, d)
    <3>1. /\ Len(c2s[p]) \in Nat /\ Len(c2s[p]) > 0 /\ Head(c2s[p]) = c2s[p][1]
          /\ DOMAIN c2s[p] = 1 .. Len(c2s[p])
      BY <1>1, <1>5, HeadTaken
    <3>2. 1 \in DOMAIN c2s[p]
      BY <3>1
    <3> QED BY <2>1, <3>1, <3>2 DEF LossyFlow, OnTheWay
  <2> QED BY <1>1, <1>2, <1>3, <1>4, <1>7, <2>1, <2>2, KnownFinds
<1> QED BY <1>6, <1>7

\* The endpoint's acknowledgements and FINs go to the peer of the connection.
LEMMA RepliesSent ==
    ASSUME TypeOK, NEW s \in Sockets,
           out_port_' = out_port_, ip_' = ip_,
           in_seq_'[s] \in SeqNum, out_seq_'[s] \in SeqNum
    PROVE  /\ Ack(s) \in Segment /\ FinAck(s) \in Segment
           /\ Span(Ack(s)) = 0 /\ Ack(s).ack_num = in_seq_'[s]
           /\ Transmit(Dispatcher, Ack(s)) => Sends(s)
           /\ Transmit(Dispatcher, FinAck(s)) => Sends(s)
<1>1. Ack(s) \in Segment /\ FinAck(s) \in Segment
  BY ReplyType DEF TypeOK
<1>2. /\ Ack(s).dest_port = out_port_[s] /\ ~Ack(s).syn /\ ~Ack(s).fin
      /\ Ack(s).payload = <<>> /\ Ack(s).ack_num = in_seq_'[s]
      /\ FinAck(s).dest_port = out_port_[s] /\ ~FinAck(s).syn
  BY DEF Ack, FinAck, Frame
<1>3. Span(Ack(s)) = 0
  <2>1. Span(Ack(s)) = Len(<<>>) + 0
    BY <1>2 DEF Span
  <2> QED BY <2>1
<1> QED BY <1>1, <1>2, <1>3 DEF Sends

\* The next sequence number.
LEMMA SeqNext == ASSUME NEW n \in SeqNum PROVE Plus(n, 1) \in SeqNum
<1>1. n \in Nat
  BY SeqSpaceAssumption DEF SeqNum
<1> QED BY <1>1, PlusType

\* What is on the way to the peer acknowledges no more when the endpoint has more.
LEMMA NumberedMore ==
    ASSUME NEW p \in Peers, NEW d \in Nat, NEW f \in Nat, d <= f, Numbered(p, d)
    PROVE  Numbered(p, f)
<1>1. 0 .. d \subseteq 0 .. f
  OBVIOUS
<1>2. \A m : Covers(m, p, d) => Covers(m, p, f)
  BY <1>1 DEF Covers
<1> QED BY <1>2 DEF Numbered

\* A piece of the stream arrives.
LEMMA LinkTakeData ==
    ASSUME LinkInv, PolitePeers, NEW s \in Sockets, NEW p \in Peers, Arrives(s, p),
           state_[s] = "connected", TakeData(s, Head(c2s[p])),
           NEW r \in 0 .. Len(Script[p]), NEW e \in 0 .. Len(Script[p]),
           NEW d \in 0 .. Len(Script[p]),
           Facts(s, p, r, e, d), Flow(s, p, r, d), d = e, IsNext(Head(c2s[p]), p, d)
    PROVE  ConnectionsInv'
<1>1. TypeOK /\ LinkTypeOK
  BY ArrivalFinds
<1>2. /\ Facts(s, p, r, e, d) /\ Flow(s, p, r, d) /\ d = e
      /\ d < peer[p].at /\ IsPiece(Head(c2s[p]), p, d + 1)
  BY DEF IsNext
<1>3. /\ recv_queue_' = recv_queue_ /\ peer' = peer /\ s2c' = s2c /\ got' = got
      /\ c2s[p] # <<>> /\ c2s' = [c2s EXCEPT ![p] = Tail(@)]
  BY DEF Arrives
<1>4. d + 1 \in 1 .. Len(Script[p]) /\ d + 1 \in 0 .. Len(Script[p]) /\ (d + 1) - 1 = d
      /\ d + 1 <= peer[p].at
  <2>1. peer[p].at \in 0 .. Len(Script[p])
    BY <1>1 DEF LinkTypeOK, PeerOK
  <2> DEFINE at == peer[p].at
             l == Len(Script[p])
  <2>2. l \in Nat /\ at \in 0 .. l /\ d \in 0 .. l /\ d < at
    BY <1>2, <2>1, ScriptType
  <2> HIDE DEF at, l
  <2>3. d + 1 \in 1 .. l /\ d + 1 \in 0 .. l /\ (d + 1) - 1 = d /\ d + 1 <= at
    BY <2>2
  <2> QED BY <2>3 DEF at, l
<1>5. PICK m : m = Head(c2s[p])
  OBVIOUS
<1>6. /\ m.seq_num = Num(p, StreamLength(p, d)) /\ m.payload = Piece(p, d + 1)
  BY <1>2, <1>4, <1>5 DEF IsPiece, IsAck
<1>7. /\ in_seq_'[s] = Num(p, StreamLength(p, d + 1)) /\ in_seq_'[s] \in SeqNum
  <2> DEFINE n == StreamLength(p, d)
             k == Len(m.payload)
  <2>1. n \in Nat
    BY StreamStep
  <2>2. Piece(p, d + 1) \in Seq(Peers \X Nat) /\ n + Len(Piece(p, d + 1)) = StreamLength(p, d + 1)
    BY <1>4, PieceType
  <2>3. k \in Nat /\ n + k = StreamLength(p, d + 1)
    BY <1>6, <2>2
  <2>4. in_seq_'[s] = Plus(m.seq_num, k)
    BY <1>1, <1>5 DEF TakeData, TypeOK
  <2> HIDE DEF n, k
  <2>5. Plus(Num(p, n), k) = Num(p, n + k) /\ Num(p, n + k) \in SeqNum
    <3>1. n + k \in Nat
      BY <2>1, <2>3
    <3>2. Plus(Num(p, n), k) = Num(p, n + k)
      BY <2>1, <2>3, NumStep
    <3>3. Num(p, n + k) \in SeqNum
      BY <3>1, NumStep
    <3> QED BY <3>2, <3>3
  <2> QED BY <1>6, <2>3, <2>4, <2>5 DEF n
<1>8. /\ state_' = state_ /\ next_state_' = next_state_ /\ own' = own
      /\ out_port_' = out_port_ /\ ip_' = ip_ /\ out_seq_' = out_seq_
      /\ disp' = Awaiting("data_ack", s, m) /\ Transmit(Dispatcher, Ack(s))
      /\ \A t \in Sockets \ {s} : in_seq_'[t] = in_seq_[t]
  BY <1>1, <1>5 DEF TakeData, TypeOK, control, address
<1>9. out_seq_'[s] \in SeqNum
  BY <1>1, <1>8 DEF TypeOK
<1>10. /\ Ack(s) \in Segment /\ Span(Ack(s)) = 0 /\ Sends(s)
       /\ Ack(s).ack_num = in_seq_'[s]
  BY <1>1, <1>7, <1>8, <1>9, RepliesSent
<1>19. s2c'[p] = s2c[p]
  BY <1>3
<1>11. Quiet(p)'
  <2>1. peer[p].at \in Nat /\ d \in Nat
    BY <1>1, ScriptType DEF LinkTypeOK, PeerOK
  <2>2. Quiet(p)
    BY <1>2, <2>1, FlowSays DEF Receiving, Outstanding
  <2> QED BY <1>1, <1>8, <1>10, <1>19, <2>2, TransitSent
<1>12. ASSUME ~Lossy PROVE KeptFlow(s, p, r, d + 1)'
  <2>1. d <= peer[p].at
    BY <1>2 DEF Facts
  <2>2. Rest(p, 0, d)
    BY <1>2, <1>12 DEF Flow, KeptFlow, Opened
  <2>3. Rest(p, 0, d + 1)'
    BY <1>1, <1>2, <1>3, <2>1, <2>2, RestTaken
  <2> QED BY <1>8, <1>11, <2>3 DEF KeptFlow, Opened
<1>20. ASSUME Lossy PROVE LossyFlow(s, p, r, d + 1)'
  <2>1. LossyFlow(s, p, r, d)
    BY <1>2, <1>20 DEF Flow
  <2>2. d \in Nat /\ d + 1 \in Nat /\ d <= d + 1 /\ peer[p].at \in Nat
    BY <1>1, ScriptType DEF LinkTypeOK, PeerOK
  <2>3. OnTheWay(p, d + 1)'
    <3>1. \A i \in DOMAIN c2s'[p] : \E j \in DOMAIN c2s[p] : c2s'[p][i] = c2s[p][j]
      BY <1>1, <1>3, HeadTaken, ArrivalsType
    <3>2. 0 .. d \subseteq 0 .. d + 1
      BY <2>2
    <3>3. \A x : Known(x, p, d) => Known(x, p, d + 1)'
      BY <1>3, <3>2 DEF Known
    <3> QED BY <2>1, <3>1, <3>3 DEF OnTheWay, LossyFlow
  <2>4. Numbered(p, d + 1)'
    <3>1. Numbered(p, d + 1)
      BY <2>1, <2>2, NumberedMore DEF LossyFlow
    <3>2. Covers(Ack(s), p, d + 1)
      <4>1. d + 1 \in 0 .. d + 1
        BY <2>2
      <4> QED BY <1>7, <1>10, <4>1 DEF Covers
    <3> QED BY <1>1, <1>8, <1>10, <1>19, <3>1, <3>2, TransitSent
  <2>5. Window(p, d + 1)'
    <3>1. Window(p, d) /\ d < peer[p].at
      BY <1>2, <2>1 DEF LossyFlow
    <3>2. peer[p].at <= (d + 1) + 1 /\ peer[p].at # d
      BY <2>2, <3>1 DEF Window
    <3> QED BY <1>3, <3>1, <3>2 DEF Window, AllLeft, PieceLeft
  <2> QED BY <1>8, <1>11, <2>3, <2>4, <2>5 DEF LossyFlow
<1>13. Holding(s)' /\ disp'.pkt.payload = Piece(p, d + 1)
  <2>1. m.payload = Piece(p, d + 1) /\ m.payload # <<>>
    BY <1>4, <1>6, PieceType
  <2> QED BY <1>8, <2>1 DEF Holding, Awaiting
<1>14. Facts(s, p, r, e, d + 1)'
  <2>1. e <= d + 1
    BY <1>2
  <2> QED BY <1>2, <1>3, <1>4, <1>13, <2>1 DEF Facts
<1>15. Flow(s, p, r, d + 1)'
  BY <1>2, <1>3, <1>7, <1>12, <1>20 DEF Flow, Lossy
<1>16. ~Passive(s)' /\ state_'[s] = "connected"
  BY <1>8 DEF Passive
<1>17. ConnInv(s, p)'
  BY <1>4, <1>14, <1>15, <1>16 DEF ConnInv
<1>18. disp'.sock = s
  BY <1>8 DEF Awaiting
<1> QED BY <1>8, <1>10, <1>16, <1>17, <1>18, ArrivalStep

\* An acknowledgement arrives that repeats what the endpoint knows.
LEMMA LinkTakeNothing ==
    ASSUME LinkInv, PolitePeers, NEW s \in Sockets, NEW p \in Peers, Arrives(s, p),
           state_[s] = "connected", TakeData(s, Head(c2s[p])), Lossy,
           NEW r \in 0 .. Len(Script[p]), NEW e \in 0 .. Len(Script[p]),
           NEW d \in 0 .. Len(Script[p]), Facts(s, p, r, e, d), Flow(s, p, r, d),
           Head(c2s[p]).payload = <<>>,
           Head(c2s[p]).seq_num = Num(p, StreamLength(p, d))
    PROVE  ConnectionsInv'
<1>1. TypeOK /\ LinkTypeOK /\ ConnInv(s, p) /\ ~Holding(s)
  BY ArrivalFinds
<1>2. /\ recv_queue_' = recv_queue_ /\ peer' = peer /\ s2c' = s2c /\ got' = got
      /\ c2s[p] # <<>> /\ c2s' = [c2s EXCEPT ![p] = Tail(@)]
  BY DEF Arrives
<1>3. PICK m : m = Head(c2s[p])
  OBVIOUS
<1>4. in_seq_'[s] = Num(p, StreamLength(p, d)) /\ in_seq_'[s] \in SeqNum
  <2> DEFINE n == Num(p, StreamLength(p, d))
  <2>1. n \in Nat /\ n < SeqSpace /\ n \in SeqNum
    <3>1. StreamLength(p, d) \in Nat
      BY StreamStep
    <3> QED BY <3>1, Numbers, NumStep
  <2>2. in_seq_'[s] = Plus(n, Len(<<>>))
    BY <1>1, <1>3 DEF TakeData, TypeOK
  <2> HIDE DEF n
  <2>3. Plus(n, Len(<<>>)) = n
    <3>1. n + Len(<<>>) = n
      BY <2>1
    <3>2. n % SeqSpace = n
      BY <2>1, SeqSpaceAssumption
    <3> QED BY <3>1, <3>2 DEF Plus
  <2> QED BY <2>1, <2>2, <2>3 DEF n
<1>5. /\ state_' = state_ /\ next_state_' = next_state_ /\ own' = own
      /\ out_port_' = out_port_ /\ ip_' = ip_ /\ out_seq_' = out_seq_
      /\ disp' = Awaiting("data_ack", s, m) /\ Transmit(Dispatcher, Ack(s))
      /\ \A t \in Sockets \ {s} : in_seq_'[t] = in_seq_[t]
  BY <1>1, <1>3 DEF TakeData, TypeOK, control, address
<1>6. /\ Ack(s) \in Segment /\ Span(Ack(s)) = 0 /\ Sends(s)
      /\ Ack(s).ack_num = in_seq_'[s]
  <2>1. out_seq_'[s] \in SeqNum
    BY <1>1, <1>5 DEF TypeOK
  <2> QED BY <1>1, <1>4, <1>5, <2>1, RepliesSent
<1>7. ~Holding(s)' /\ disp'.sock = s
  BY <1>3, <1>5 DEF Holding, Awaiting
<1>8. Facts(s, p, r, e, d)'
  BY <1>1, <1>2, <1>7 DEF Facts
<1>9. LossyFlow(s, p, r, d)'
  <2>1. LossyFlow(s, p, r, d)
    BY DEF Flow
  <2>2. s2c'[p] = s2c[p]
    BY <1>2
  <2>3. OnTheWay(p, d)'
    <3>1. \A i \in DOMAIN c2s'[p] : \E j \in DOMAIN c2s[p] : c2s'[p][i] = c2s[p][j]
      BY <1>1, <1>2, HeadTaken, ArrivalsType
    <3>2. \A x : Known(x, p, d) => Known(x, p, d)'
      BY <1>2 DEF Known
    <3> QED BY <2>1, <3>1, <3>2 DEF OnTheWay, LossyFlow
  <2>4. Quiet(p)' \/ Outstanding(p, r, d)'
    <3>1. (Quiet(p) => Quiet(p)') /\ (Single(p) => Single(p)')
      BY <1>1, <1>5, <1>6, <2>2, TransitSent
    <3> QED BY <1>2, <2>1, <3>1 DEF LossyFlow, Outstanding
  <2>5. Numbered(p, d)'
    <3>1. Covers(Ack(s), p, d)
      <4>1. d \in 0 .. d
        BY ScriptType
      <4> QED BY <1>4, <1>6, <4>1 DEF Covers
    <3> QED BY <1>1, <1>5, <1>6, <2>1, <2>2, <3>1, TransitSent DEF LossyFlow
  <2>6. Window(p, d)'
    BY <1>2, <2>1 DEF LossyFlow, Window, AllLeft, PieceLeft, FinLeft
  <2> QED BY <1>5, <2>3, <2>4, <2>5, <2>6 DEF LossyFlow
<1>10. Flow(s, p, r, d)'
  BY <1>2, <1>4, <1>9 DEF Flow, Lossy
<1>11. ~Passive(s)' /\ state_'[s] = "connected"
  BY <1>5 DEF Passive
<1>12. ConnInv(s, p)'
  BY <1>8, <1>10, <1>11 DEF ConnInv
<1> QED BY <1>5, <1>6, <1>7, <1>11, <1>12, ArrivalStep

\* The peer closes.
LEMMA LinkTakeFin ==
    ASSUME LinkInv, PolitePeers, NEW s \in Sockets, NEW p \in Peers, Arrives(s, p),
           state_[s] = "connected", TakeFin(s, Head(c2s[p])),
           NEW r \in 0 .. Len(Script[p]), NEW e \in 0 .. Len(Script[p]),
           NEW d \in 0 .. Len(Script[p]),
           Facts(s, p, r, e, d), Flow(s, p, r, d), d = e, IsEnd(Head(c2s[p]), p, d)
    PROVE  ConnectionsInv'
<1>1. TypeOK /\ LinkTypeOK /\ ~Holding(s)
  BY ArrivalFinds
<1>2. /\ d = peer[p].at /\ peer[p].answers = Requests(p, peer[p].at)
      /\ Lossy => Finished(p, d)
  BY DEF IsEnd
<1>3. /\ recv_queue_' = recv_queue_ /\ peer' = peer /\ s2c' = s2c /\ got' = got
      /\ c2s[p] # <<>> /\ c2s' = [c2s EXCEPT ![p] = Tail(@)]
  BY DEF Arrives
<1>4. PICK m : m = Head(c2s[p])
  OBVIOUS
<1>5. m.seq_num \in SeqNum
  BY <1>1, <1>3, <1>4, HeadTaken DEF PeerSegment
<1>6. /\ state_'[s] = "want_ack" /\ next_state_'[s] = "closed" /\ own' = own
      /\ out_port_' = out_port_ /\ ip_' = ip_ /\ out_seq_' = out_seq_
      /\ disp' = Awaiting("fin_ack", s, m) /\ Transmit(Dispatcher, FinAck(s))
      /\ in_seq_'[s] = Plus(m.seq_num, 1)
      /\ \A t \in Sockets \ {s} :
             /\ in_seq_'[t] = in_seq_[t] /\ state_'[t] = state_[t]
             /\ next_state_'[t] = next_state_[t]
  BY <1>1, <1>4 DEF TakeFin, AfterFinClosed, TypeOK, address
<1>7. Sends(s)
  <2>1. in_seq_'[s] \in SeqNum
    BY <1>5, <1>6, SeqNext
  <2>2. out_seq_'[s] \in SeqNum
    BY <1>1, <1>6 DEF TypeOK
  <2> QED BY <1>1, <1>6, <2>1, <2>2, RepliesSent
<1>8. ~Holding(s)'
  BY <1>6 DEF Holding, Awaiting
<1>9. Facts(s, p, r, e, d)'
  BY <1>1, <1>2, <1>3, <1>8 DEF Facts
<1>10. ~Receiving(s)'
  BY <1>6 DEF Receiving
<1>11. \A k \in r + 1 .. e : ~Script[p][k].last
  <2>1. r <= e
    BY <1>2 DEF Facts
  <2>2. Requests(p, r) = Requests(p, e)
    <3>1. Requests(p, r) \in Nat /\ Requests(p, e) \in Nat
      BY RequestsStep
    <3>2. Requests(p, r) <= Requests(p, e)
      BY <2>1, RequestsMonotonic
    <3>3. Requests(p, e) <= Requests(p, r)
      BY <1>2 DEF Flow
    <3> QED BY <3>1, <3>2, <3>3
  <2> QED BY <2>1, <2>2, RequestsMonotonic
<1>14. Ended(p, r, e, d)'
  BY <1>2, <1>3, <1>11 DEF Ended, Finished, Closing, FinLeft, Lossy
<1>12. ConnInv(s, p)'
  BY <1>9, <1>10, <1>14 DEF ConnInv
<1>13. disp'.sock = s
  BY <1>6 DEF Awaiting
<1> QED BY <1>6, <1>7, <1>12, <1>13, ArrivalStep

\* The peer acknowledges the FIN of close() with its own.
LEMMA LinkTakeFinAck ==
    ASSUME LinkInv, PolitePeers, NEW s \in Sockets, NEW p \in Peers, Arrives(s, p),
           state_[s] = "want_fin_ack", TakeFinAck(s, Head(c2s[p]))
    PROVE  ConnectionsInv'
<1>1. TypeOK /\ LinkTypeOK /\ ~Holding(s) /\ ConnInv(s, p)
  BY ArrivalFinds
<1>2. /\ recv_queue_' = recv_queue_ /\ peer' = peer /\ s2c' = s2c /\ got' = got
      /\ c2s[p] # <<>> /\ c2s' = [c2s EXCEPT ![p] = Tail(@)]
  BY DEF Arrives
<1>3. PICK m : m = Head(c2s[p])
  OBVIOUS
<1>4. m.seq_num \in SeqNum
  BY <1>1, <1>2, <1>3, HeadTaken DEF PeerSegment
<1>5. /\ state_' = state_ /\ next_state_' = next_state_ /\ own' = own
      /\ out_port_' = out_port_ /\ ip_' = ip_
      /\ disp' = Awaiting("last_ack", s, m) /\ Transmit(Dispatcher, Ack(s))
      /\ in_seq_'[s] = Plus(m.seq_num, 1) /\ out_seq_'[s] = Plus(out_seq_[s], 1)
      /\ \A t \in Sockets \ {s} : in_seq_'[t] = in_seq_[t]
  BY <1>1, <1>3 DEF TakeFinAck, TypeOK, address, control
<1>6. Sends(s)
  <2>1. in_seq_'[s] \in SeqNum
    BY <1>4, <1>5, SeqNext
  <2>2. out_seq_[s] \in SeqNum
    BY <1>1 DEF TypeOK
  <2>3. out_seq_'[s] \in SeqNum
    BY <1>5, <2>2, SeqNext
  <2> QED BY <1>1, <1>5, <2>1, <2>3, RepliesSent
<1>7. ~Holding(s)' /\ disp'.sock = s
  BY <1>5 DEF Holding, Awaiting
<1>8. Keeps(s, p)
  BY <1>1, <1>2, <1>7 DEF Keeps, Closing, FinLeft
<1>9. ~Receiving(s)' /\ ~Passive(s)'
  BY <1>5 DEF Receiving, Passive
<1>10. ConnInv(s, p)'
  BY <1>1, <1>8, <1>9, ConnFrame
<1> QED BY <1>5, <1>6, <1>7, <1>10, ArrivalStep

\* A segment that finds the socket of its connection.
LEMMA LinkArrival ==
    ASSUME LinkInv, PolitePeers, NEW s \in Sockets, NEW p \in Peers, Arrives(s, p),
           ProcessPacket(s, Head(c2s[p]))
    PROVE  ConnectionsInv' /\ failed' = "no"
<1>1. /\ TypeOK /\ LinkTypeOK /\ ConnInv(s, p) /\ failed = "no"
  BY ArrivalFinds DEF LinkInv
<1>2. PICK m : m = Head(c2s[p])
  OBVIOUS
<1>3. /\ c2s[p] # <<>> /\ c2s' = [c2s EXCEPT ![p] = Tail(@)] /\ Conn(s, p)
      /\ recv_queue_' = recv_queue_ /\ peer' = peer /\ s2c' = s2c /\ got' = got
  BY DEF Arrives
<1>4. state_[s] # "want_syn"
  BY <1>3 DEF Conn
<1>5. CASE IsAwaitedAck(s, m) /\ TakeAck(s)
  BY <1>1, <1>5, LinkTakeAck DEF IsAwaitedAck, TakeAck
<1>6. CASE state_[s] = "connected" /\ LaterBranches(s, m)
  <2>1. PICK r \in 0 .. Len(Script[p]), e \in 0 .. Len(Script[p]), d \in 0 .. Len(Script[p]) :
            /\ Facts(s, p, r, e, d) /\ Flow(s, p, r, d) /\ d = e
            /\ IsNext(m, p, d) \/ IsEnd(m, p, d) \/ IsOld(m, p, d)
    BY <1>2, <1>6, OpenedFinds
  <2>2. in_seq_[s] \in Nat /\ in_seq_[s] = Num(p, StreamLength(p, d))
    BY <1>1, <2>1, SeqSpaceAssumption DEF TypeOK, SeqNum, Flow
  <2>3. CASE IsEnd(m, p, d)
    <3>1. TakeFin(s, m)
      BY <1>6, <2>3 DEF LaterBranches, IsEnd
    <3> QED BY <1>1, <1>2, <1>6, <2>1, <2>3, <3>1, LinkTakeFin DEF TakeFin
  <2>4. CASE IsNext(m, p, d)
    <3>1. m.ack /\ ~m.fin /\ m.seq_num = in_seq_[s]
      <4>1. (d + 1) - 1 = d
        OBVIOUS
      <4> QED BY <2>2, <2>4, <4>1 DEF IsNext, IsPiece, IsAck
    <3>2. InOrder(s, m)
      BY <2>2, <3>1 DEF InOrder
    <3>3. TakeData(s, m)
      BY <1>6, <3>1, <3>2 DEF LaterBranches
    <3> QED BY <1>1, <1>2, <1>6, <2>1, <2>4, <3>3, LinkTakeData DEF TakeData
  <2>5. CASE IsOld(m, p, d)
    <3>1. PICK k \in 0 .. d : /\ m.seq_num = Num(p, StreamLength(p, k))
                              /\ k < d \/ m.payload = <<>>
      BY <2>5 DEF IsOld
    <3>2. Lossy /\ m.ack /\ ~m.fin
      BY <2>5 DEF IsOld
    <3>3. k \in 0 .. Len(Script[p]) /\ (k < d \/ k = d)
      BY ScriptType
    <3>4. \/ InOrder(s, m) /\ TakeData(s, m)
          \/ ~InOrder(s, m) /\ LastBranch(s, m)
      BY <1>6, <3>2 DEF LaterBranches
    <3>5. CASE InOrder(s, m) /\ TakeData(s, m)
      <4>1. ~(k < d)
        BY <2>2, <3>1, <3>2, <3>3, <3>5, OldOutOfOrder
      <4>2. k = d /\ m.payload = <<>>
        BY <3>1, <3>3, <4>1
      <4> QED BY <1>1, <1>2, <1>6, <2>1, <3>1, <3>2, <3>5, <4>2, LinkTakeNothing
              DEF TakeData
    <3>6. CASE LastBranch(s, m)
      <4>1. /\ Return
            /\ UNCHANGED <<sockets_, address, control, numbers, cancel_closed_, own,
                           txq, failed>>
        BY <1>6, <3>6 DEF LastBranch, IsFinAck
      <4>2. disp' = disp
        <5>1. disp.pc = "idle"
          BY DEF Arrives
        <5>2. disp = Idle
          BY <1>1, <5>1 DEF TypeOK, DispatcherPcs
        <5> QED BY <4>1, <5>2 DEF Return
      <4> QED BY <1>1, <1>3, <3>2, <4>1, <4>2, LinkDrop
    <3> QED BY <3>4, <3>5, <3>6
  <2> QED BY <2>1, <2>3, <2>4, <2>5
<1>7. CASE state_[s] = "want_fin_ack" /\ TakeFinAck(s, m)
  BY <1>1, <1>2, <1>7, LinkTakeFinAck DEF TakeFinAck
<1>8. CASE /\ state_[s] # "connected" /\ ~IsAwaitedAck(s, m) /\ Return
           /\ UNCHANGED <<sockets_, address, control, numbers, cancel_closed_, own,
                          txq, failed>>
  <2>1. Receiving(s) => Lossy
    <3> SUFFICES ASSUME Receiving(s), ~Lossy PROVE FALSE
      OBVIOUS
    <3>1. state_[s] = "want_ack"
      BY <1>8 DEF Receiving
    <3>2. PICK r \in 0 .. Len(Script[p]), d \in 0 .. Len(Script[p]) :
              Flow(s, p, r, d) /\ Acked(p, r, d)
      BY <1>1, <1>3, <3>1 DEF ConnInv, Flow, KeptFlow, Waiting
    <3>3. m = c2s[p][1]
      BY <1>1, <1>2, <1>3, HeadTaken
    <3> QED BY <1>8, <3>1, <3>2, <3>3 DEF Flow, Acked, IsAck, IsAwaitedAck
  <2>2. \A t \in Sockets : Conn(t, p) /\ Receiving(t) => Lossy
    BY <1>3, <2>1 DEF LinkInv, ConnectionsInv, ConnAddress
  <2>3. disp' = disp
    <3>1. disp.pc = "idle"
      BY DEF Arrives
    <3>2. disp = Idle
      BY <1>1, <3>1 DEF TypeOK, DispatcherPcs
    <3> QED BY <1>8, <3>2 DEF Return
  <2> QED BY <1>1, <1>3, <1>8, <2>2, <2>3, LinkDrop
<1>9. \/ IsAwaitedAck(s, m) /\ TakeAck(s)
      \/ ~IsAwaitedAck(s, m) /\ LaterBranches(s, m)
  BY <1>2, <1>4 DEF ProcessPacket, IsSyn
<1>10. state_[s] # "connected" /\ LaterBranches(s, m) => LastBranch(s, m)
  BY DEF LaterBranches
<1> QED BY <1>5, <1>6, <1>7, <1>8, <1>9, <1>10 DEF LastBranch, IsFinAck

\* A segment of a peer arrives at the endpoint.
LEMMA LinkDeliver ==
    ASSUME LinkInv, PolitePeers, NEW p \in Peers, Deliver(p)
    PROVE  ConnectionsInv' /\ failed' = "no"
<1>1. TypeOK /\ LinkTypeOK /\ PeerInv(p) /\ failed = "no"
  BY DEF LinkInv, ConnectionsInv
<1>2. PICK m : m = Head(c2s[p])
  OBVIOUS
<1>3. /\ c2s[p] # <<>> /\ c2s' = [c2s EXCEPT ![p] = Tail(@)]
      /\ PushPacket(m) /\ UNCHANGED <<peer, s2c, got>>
  BY <1>2 DEF Deliver
<1>4. From(m, p)
  <2>1. /\ m = c2s[p][1] /\ Len(c2s[p]) \in Nat /\ Len(c2s[p]) > 0
        /\ DOMAIN c2s[p] = 1 .. Len(c2s[p])
    BY <1>1, <1>2, <1>3, HeadTaken
  <2>2. 1 \in 1 .. Len(c2s[p])
    BY <2>1
  <2> QED BY <1>1, <2>1, <2>2 DEF PeerInv
<1>5. disp.pc = "idle" /\ disp = Idle
  <2>1. disp.pc = "idle"
    BY <1>3 DEF PushPacket
  <2> QED BY <1>1, <2>1 DEF TypeOK, DispatcherPcs
<1>6. CASE Candidates(m) = {} /\ UNCHANGED vars
  <2>1. \A t \in Sockets : Conn(t, p) => ~Receiving(t)
    BY <1>4, <1>6, Target
  <2> QED BY <1>1, <1>3, <1>6, <2>1, LinkDrop DEF vars
<1>7. ASSUME NEW i \in Candidates(m), \A j \in Candidates(m) : i <= j,
             ProcessPacket(sockets_[i], m), UNCHANGED recv_queue_
      PROVE  ConnectionsInv' /\ failed' = "no"
  <2>1. PICK s \in Sockets : s = sockets_[i]
    BY <1>4, Target
  <2>2. /\ Live(s)
        /\ \/ Conn(s, p)
           \/ /\ state_[s] = "want_syn"
              /\ \A t \in Sockets : Conn(t, p) => ~Receiving(t)
    BY <1>4, <1>7, <2>1, Target
  <2>3. CASE Conn(s, p)
    <3>1. UNCHANGED <<sockets_, address>>
      <4>1. \/ TakeAck(s) \/ LaterBranches(s, m)
        BY <1>7, <2>1, <2>3 DEF ProcessPacket, IsSyn, Conn
      <4>2. LaterBranches(s, m) => UNCHANGED <<sockets_, address>>
        BY DEF LaterBranches, AssertAckFails, TakeFin, TakeData, LastBranch, TakeFinAck
      <4> QED BY <4>1, <4>2 DEF TakeAck
    <3>2. Arrives(s, p)
      BY <1>3, <1>5, <1>7, <2>2, <2>3, <3>1 DEF Arrives
    <3> QED BY <1>2, <1>7, <2>1, <3>2, LinkArrival
  <2>4. CASE /\ state_[s] = "want_syn"
             /\ \A t \in Sockets : Conn(t, p) => ~Receiving(t)
    <3>1. CASE IsSyn(s, m) /\ TakeSyn(s, m)
      <4>1. failed' = failed
        BY <3>1 DEF TakeSyn
      <4> QED
        BY <1>1, <1>2, <1>3, <1>5, <1>7, <2>2, <2>4, <3>1, <4>1, LinkTakeSyn DEF IsSyn
    <3>2. CASE LaterBranches(s, m)
      <4>1. /\ disp' = disp
            /\ UNCHANGED <<sockets_, address, control, numbers, own, txq, failed>>
        BY <1>5, <2>4, <3>2 DEF LaterBranches, LastBranch, IsFinAck, Return
      <4> QED BY <1>1, <1>3, <1>7, <2>4, <4>1, LinkDrop
    <3> QED BY <1>7, <2>1, <2>4, <3>1, <3>2 DEF ProcessPacket, IsAwaitedAck
  <2> QED BY <2>2, <2>3, <2>4
<1> QED BY <1>3, <1>6, <1>7 DEF PushPacket
(***************************************************************************)
(* The accept loop, and the NIC.                                           *)
(***************************************************************************)
\* The accept loop listens on a new socket.
LEMMA LinkAllocate ==
    ASSUME LinkInv, NEW t \in Sockets, own[t] = "unborn", Allocate(t, ServerPort),
           own'[t] = "listen",
           \A u \in Sockets \ {t} :
               /\ own'[u] \notin {"listen", "notified"}
               /\ own'[u] = own[u] \/ (own[u] = "notified" /\ own'[u] = "loop"),
           UNCHANGED <<out_port_, ip_, next_state_, numbers, recv_queue_, disp, txq,
                       net, got>>
    PROVE  ConnectionsInv'
<1>0. /\ TypeOK /\ LinkTypeOK /\ ConnAddress
      /\ \A q \in Peers : PeerInv(q)
      /\ \A u \in Sockets : SocketInv(u) /\ OwnerInv(u)
      /\ \A u \in Sockets, q \in Peers : Conn(u, q) => ConnInv(u, q)
  BY DEF LinkInv, ConnectionsInv, ActorsAgree
<1>1. /\ next_state_' = next_state_ /\ in_seq_' = in_seq_ /\ recv_queue_' = recv_queue_
      /\ disp' = disp /\ txq' = txq /\ out_port_' = out_port_ /\ ip_' = ip_
      /\ peer' = peer /\ c2s' = c2s /\ s2c' = s2c /\ got' = got
  BY DEF numbers, net
<1>2. /\ state_'[t] = "want_syn" /\ in_port_'[t] = ServerPort /\ state_[t] = "none"
      /\ \A u \in Sockets \ {t} : state_'[u] = state_[u] /\ in_port_'[u] = in_port_[u]
  BY <1>0 DEF Allocate, TypeOK, SocketInv
<1>3. /\ Len(sockets_') > 0 /\ sockets_'[Len(sockets_')] = t
      /\ \A i \in DOMAIN sockets_ : i \in DOMAIN sockets_' /\ sockets_'[i] = sockets_[i]
      /\ \E i \in DOMAIN sockets_' : sockets_'[i] = t
  <2>1. sockets_ \in Seq(Sockets) /\ sockets_' = Append(sockets_, t)
    BY <1>0 DEF TypeOK, Allocate
  <2> QED BY <2>1
<1>4. \A u \in Sockets \ {t} : state_[u] # "want_syn"
  <2>1. \A u \in Sockets : own[u] \in OwnerPcs
    BY <1>0 DEF TypeOK
  <2>2. \A u \in Sockets : state_[u] = "want_syn" => own[u] = "listen"
    BY <1>0, <2>1 DEF OwnerInv, SocketInv, OwnerPcs, Working
  <2> QED BY <2>2
<1>5. ASSUME NEW u \in Sockets PROVE SocketInv(u)'
  <2>1. CASE u = t
    <3>1. got'[t] = <<>> /\ recv_queue_'[t] = <<>>
      BY <1>0, <1>1, <1>2 DEF SocketInv
    <3> QED BY <1>2, <1>3, <2>1, <3>1 DEF SocketInv
  <2>2. CASE u # t
    <3>1. own[u] = "unborn" <=> own'[u] = "unborn"
      BY <2>2
    <3>2. Live(u)' <=> Live(u)
      BY <2>2 DEF Live
    <3>3. SocketInv(u)
      BY <1>0
    <3>4. Live(u) => \E i \in DOMAIN sockets_' : sockets_'[i] = u
      BY <1>3, <3>3 DEF SocketInv
    <3> QED BY <1>1, <1>2, <1>4, <2>2, <3>1, <3>2, <3>3, <3>4 DEF SocketInv
  <2> QED BY <2>1, <2>2
<1>6. OneListens'
  BY DEF OneListens
<1>7. \A u \in Sockets, q \in Peers : Conn(u, q)' <=> Conn(u, q)
  <2> SUFFICES ASSUME NEW u \in Sockets, NEW q \in Peers PROVE Conn(u, q)' <=> Conn(u, q)
    OBVIOUS
  <2>1. CASE u = t
    BY <1>2, <2>1 DEF Conn
  <2>2. CASE u # t
    BY <1>1, <1>2, <2>2 DEF Conn
  <2> QED BY <2>1, <2>2
<1>8. ConnAddress'
  <2>1. \A u \in Sockets : state_'[u] \notin {"none", "want_syn"} =>
                               state_[u] \notin {"none", "want_syn"}
    BY <1>2
  <2> QED BY <1>0, <1>1, <1>7, <2>1 DEF ConnAddress
<1>9. LinkTypeOK'
  BY <1>0, <1>1 DEF LinkTypeOK, PeerOK
<1>10. ASSUME NEW q \in Peers PROVE PeerInv(q)'
  <2>1. NoConn(q)' <=> NoConn(q)
    BY <1>7 DEF NoConn
  <2>2. Nothing(q) => Nothing(q)'
    BY <1>1, TransitStill
  <2>3. PeerInv(q)
    BY <1>0
  <2>4. peer[q].st = "syn_sent" => \A u \in Sockets : Conn(u, q)' => own'[u] = "listen"
    BY <1>7, <2>3 DEF PeerInv
  <2> QED BY <1>1, <2>1, <2>2, <2>3, <2>4 DEF PeerInv, From
<1>11. ASSUME NEW u \in Sockets, NEW q \in Peers, Conn(u, q)' PROVE ConnInv(u, q)'
  <2>1. Conn(u, q) /\ ConnInv(u, q) /\ u # t
    BY <1>0, <1>2, <1>7, <1>11 DEF Conn
  <2>2. Keeps(u, q)
    BY <1>1 DEF Keeps, Closing, FinLeft, Holding
  <2>3. KeepsFlow(u, q)
    BY <1>1, <1>2, <2>1, TransitStill DEF KeepsFlow
  <2>4. (Receiving(u)' <=> Receiving(u)) /\ (Passive(u)' <=> Passive(u))
    BY <1>1, <1>2, <2>1 DEF Receiving, Passive
  <2> QED BY <2>1, <2>2, <2>3, <2>4, ConnFrame
<1> QED BY <1>5, <1>6, <1>8, <1>9, <1>10, <1>11 DEF ConnectionsInv

\* The accept loop allocates a socket and listens.
LEMMA LinkListens ==
    ASSUME LinkInv, LinkListen
    PROVE  ConnectionsInv' /\ failed' = "no"
<1>1. PICK t \in Sockets : Listen(t, ServerPort)
  BY DEF LinkListen
<1>2. TypeOK /\ failed = "no" /\ \A u \in Sockets : SocketInv(u)
  BY DEF LinkInv, ConnectionsInv
<1>3. \A u \in Sockets : own[u] = "unborn"
  BY <1>1, <1>2 DEF Listen, SocketInv
<1>4. own'[t] = "listen" /\ \A u \in Sockets \ {t} : own'[u] = own[u]
  BY <1>1, <1>2 DEF Listen, TypeOK
<1>5. /\ Allocate(t, ServerPort) /\ failed' = failed
      /\ UNCHANGED <<out_port_, ip_, next_state_, numbers, recv_queue_, disp, txq,
                     net, got>>
  BY <1>1 DEF Listen, LinkListen
<1>6. \A u \in Sockets \ {t} :
          /\ own'[u] \notin {"listen", "notified"}
          /\ own'[u] = own[u] \/ (own[u] = "notified" /\ own'[u] = "loop")
  BY <1>3, <1>4
<1> QED BY <1>2, <1>3, <1>4, <1>5, <1>6, LinkAllocate

\* The accept loop starts the worker of a socket.
LEMMA LinkAccept ==
    ASSUME LinkInv, PolitePeers, NEW s \in Sockets, Accept(s), UNCHANGED <<net, got>>
    PROVE  ConnectionsInv'
<1>1. own[s] = "notified"
  BY DEF Accept
<1>2. TypeOK /\ OneListens /\ \A u \in Sockets : SocketInv(u)
  BY DEF LinkInv, ConnectionsInv
<1>3. UNCHANGED <<out_port_, ip_, next_state_, numbers, recv_queue_, disp, txq>>
  BY DEF Accept
<1>4. ASSUME NEW t \in Sockets, own[t] = "unborn", Allocate(t, in_port_[s]),
             own' = [own EXCEPT ![s] = "loop", ![t] = "listen"]
      PROVE  ConnectionsInv'
  <2>1. in_port_[s] = ServerPort
    BY <1>1, <1>2 DEF SocketInv
  <2>2. /\ s # t /\ own'[t] = "listen" /\ own'[s] = "loop"
        /\ \A u \in Sockets \ {s, t} : own'[u] = own[u]
    BY <1>1, <1>2, <1>4 DEF TypeOK
  <2>3. \A u \in Sockets \ {s} : own[u] \notin {"listen", "notified"}
    BY <1>1, <1>2 DEF OneListens
  <2>4. \A u \in Sockets \ {t} :
            /\ own'[u] \notin {"listen", "notified"}
            /\ own'[u] = own[u] \/ (own[u] = "notified" /\ own'[u] = "loop")
    BY <1>1, <2>2, <2>3
  <2> QED BY <1>3, <1>4, <2>1, <2>2, <2>4, LinkAllocate
<1>5. ASSUME own' = [own EXCEPT ![s] = "loop"], UNCHANGED <<sockets_, in_port_, state_>>
      PROVE  ConnectionsInv'
  <2>1. PICK p \in Peers : Conn(s, p) /\ peer[p].st # "syn_sent"
    BY <1>1, WorkerConnected
  <2>2. UNCHANGED <<address, control>>
    BY <1>3, <1>5 DEF address, control
  <2> QED BY <1>1, <1>3, <1>5, <2>1, <2>2, OwnerMoves DEF Live
<1> QED BY <1>4, <1>5 DEF Accept

\* A step of a worker.
LEMMA LinkWorks ==
    ASSUME LinkInv, PolitePeers, NEW s \in Sockets, LinkWorker(s)
    PROVE  ConnectionsInv' /\ failed' = "no"
<1>1. failed = "no" /\ UNCHANGED <<net, got>>
  BY DEF LinkWorker
<1>2. CASE recv_queue_[s] # <<>> /\ EndsRequest(Head(recv_queue_[s])) /\ Answer(s)
  BY <1>1, <1>2, LinkAnswer
<1>3. CASE recv_queue_[s] # <<>> /\ ~EndsRequest(Head(recv_queue_[s])) /\ Ignore(s)
  BY <1>1, <1>3, LinkIgnore DEF Ignore
<1>4. CASE Accept(s)
  BY <1>1, <1>4, LinkAccept DEF Accept
<1>5. CASE RecvWait(s) \/ Cancelled(s) \/ SendDone(s)
  BY <1>1, <1>5, LinkWaits DEF RecvWait, Cancelled, SendDone
<1>6. CASE Close(s)
  <2>1. failed' = failed
    BY <1>6 DEF Close, Destroy
  <2> QED BY <1>1, <1>6, <2>1, LinkClose
<1>7. CASE FinSent(s)
  <2>1. failed' = failed
    BY <1>7 DEF FinSent, Destroy
  <2> QED BY <1>1, <1>7, <2>1, LinkFinSent
<1>8. CASE Closed(s)
  BY <1>1, <1>8, LinkClosed DEF Closed, Destroy
<1> QED BY <1>2, <1>3, <1>4, <1>5, <1>6, <1>7, <1>8 DEF LinkWorker

\* A frame leaves the NIC.
LEMMA LinkTransmitted ==
    ASSUME LinkInv, ServerTx
    PROVE  ConnectionsInv' /\ failed' = "no"
<1>0. /\ TypeOK /\ LinkTypeOK /\ ConnAddress /\ OneListens /\ failed = "no"
      /\ \A q \in Peers : PeerInv(q)
      /\ \A t \in Sockets : SocketInv(t)
      /\ \A t \in Sockets, q \in Peers : Conn(t, q) => ConnInv(t, q)
  BY DEF LinkInv, ConnectionsInv
<1>1. /\ sockets_' = sockets_ /\ state_' = state_ /\ next_state_' = next_state_
      /\ in_seq_' = in_seq_ /\ recv_queue_' = recv_queue_ /\ disp' = disp
      /\ own' = own /\ in_port_' = in_port_ /\ out_port_' = out_port_ /\ ip_' = ip_
      /\ peer' = peer /\ c2s' = c2s /\ got' = got /\ failed' = failed
  BY DEF ServerTx, TxDone, control, numbers, address
<1>2. \A q \in Peers : /\ Quiet(q) => Quiet(q)'
                       /\ Single(q) => Single(q)'
                       /\ Nothing(q) => Nothing(q)'
                       /\ \A d : Numbered(q, d) => Numbered(q, d)'
  BY <1>0, TransitMoved
<1>3. LinkTypeOK'
  <2> DEFINE T == [by : Sockets \cup {Dispatcher}, seg : Segment]
             h == Head(txq).seg
  <2>1. txq \in Seq(T) /\ txq # <<>> /\ txq' = Tail(txq) /\ \A x \in T : x.seg \in Segment
    BY <1>0 DEF TypeOK, ServerTx, TxDone
  <2>2. /\ Head(txq) \in T /\ 1 \in DOMAIN txq /\ Head(txq) = txq[1]
        /\ \A i \in DOMAIN txq' : \E j \in DOMAIN txq : txq'[i] = txq[j]
    <3> HIDE DEF T
    <3>1. /\ Len(txq) \in Nat \ {0} /\ DOMAIN txq = 1 .. Len(txq)
          /\ Head(txq) = txq[1] /\ Head(txq) \in T
          /\ DOMAIN txq' = 1 .. Len(txq) - 1
          /\ \A i \in 1 .. Len(txq) - 1 : txq'[i] = txq[i + 1]
      BY <2>1, HeadTail
    <3>2. 1 \in 1 .. Len(txq) /\ \A i \in 1 .. Len(txq) - 1 : i + 1 \in 1 .. Len(txq)
      BY <3>1
    <3> QED BY <3>1, <3>2
  <2>3. h \in Segment /\ (h.syn => h.payload = <<>>)
    BY <1>0, <2>1, <2>2 DEF LinkTypeOK
  <2>4. \A q \in Peers : s2c'[q] = s2c[q] \/ s2c'[q] = Append(s2c[q], h)
    BY DEF ServerTx
  <2>5. DOMAIN s2c' = Peers /\ s2c' = [q \in Peers |-> s2c'[q]]
    BY DEF ServerTx
  <2> HIDE DEF h, T
  <2>6. ASSUME NEW q \in Peers
        PROVE  /\ s2c'[q] \in Seq(Segment)
               /\ \A i \in DOMAIN s2c'[q] : s2c'[q][i].syn => s2c'[q][i].payload = <<>>
    <3>1. /\ s2c[q] \in Seq(Segment)
          /\ \A i \in DOMAIN s2c[q] : s2c[q][i].syn => s2c[q][i].payload = <<>>
      BY <1>0 DEF LinkTypeOK
    <3>2. CASE s2c'[q] = s2c[q]
      BY <3>1, <3>2
    <3>3. CASE s2c'[q] = Append(s2c[q], h)
      <4>1. s2c'[q] \in Seq(Segment)
        BY <2>3, <3>1, <3>3
      <4>2. \A i \in DOMAIN s2c'[q] :
                s2c'[q][i] = h \/ (i \in DOMAIN s2c[q] /\ s2c'[q][i] = s2c[q][i])
        BY <2>3, <3>1, <3>3
      <4> QED BY <2>3, <3>1, <4>1, <4>2
    <3> QED BY <2>4, <3>2, <3>3
  <2>7. s2c' \in [Peers -> Seq(Segment)]
    BY <2>5, <2>6
  <2>8. \A i \in DOMAIN txq' : txq'[i].seg.syn => txq'[i].seg.payload = <<>>
    BY <1>0, <2>2 DEF LinkTypeOK
  <2> QED BY <1>0, <1>1, <2>6, <2>7, <2>8 DEF LinkTypeOK, PeerOK
<1>4. OneListens' /\ \A t \in Sockets : SocketInv(t)'
  BY <1>0, <1>1 DEF OneListens, SocketInv, Live
<1>5. \A t, q : Conn(t, q)' <=> Conn(t, q)
  BY <1>1 DEF Conn
<1>6. ConnAddress'
  BY <1>0, <1>1, <1>5 DEF ConnAddress
<1>7. ASSUME NEW q \in Peers PROVE PeerInv(q)'
  <2>1. NoConn(q)' <=> NoConn(q)
    BY <1>5 DEF NoConn
  <2> QED BY <1>0, <1>1, <1>2, <1>5, <2>1 DEF PeerInv, From
<1>8. ASSUME NEW t \in Sockets, NEW q \in Peers, Conn(t, q)' PROVE ConnInv(t, q)'
  <2>1. ConnInv(t, q)
    BY <1>0, <1>5, <1>8
  <2>2. Keeps(t, q)
    BY <1>1 DEF Keeps, Closing, FinLeft, Holding
  <2>3. KeepsFlow(t, q)
    BY <1>1, <1>2 DEF KeepsFlow
  <2>4. (Receiving(t)' <=> Receiving(t)) /\ (Passive(t)' <=> Passive(t))
    BY <1>1 DEF Receiving, Passive
  <2> QED BY <2>1, <2>2, <2>3, <2>4, ConnFrame
<1> QED BY <1>0, <1>1, <1>3, <1>4, <1>6, <1>7, <1>8 DEF ConnectionsInv
(***************************************************************************)
(* The steps of a peer.                                                    *)
(***************************************************************************)
Untouched(p) ==
    /\ UNCHANGED <<vars, got>>
    /\ DOMAIN peer' = Peers
    /\ c2s' \in [Peers -> Seq(PeerSegment)]
    /\ s2c' \in [Peers -> Seq(Segment)]
    /\ \A q \in Peers \ {p} :
           peer'[q] = peer[q] /\ c2s'[q] = c2s[q] /\ s2c'[q] = s2c[q]

\* A step of a peer keeps the invariant if it keeps what is about the peer.
LEMMA PeerFrame ==
    ASSUME LinkInv, NEW p \in Peers, Untouched(p), PeerOK(p)', PeerInv(p)',
           \A i \in DOMAIN s2c'[p] : s2c'[p][i].syn => s2c'[p][i].payload = <<>>,
           \A s \in Sockets : Conn(s, p) => ConnInv(s, p)'
    PROVE  ConnectionsInv'
<1>0. /\ LinkTypeOK /\ ConnAddress /\ OneListens
      /\ \A q \in Peers : PeerInv(q)
      /\ \A t \in Sockets : SocketInv(t)
      /\ \A t \in Sockets, q \in Peers : Conn(t, q) => ConnInv(t, q)
  BY DEF LinkInv, ConnectionsInv
<1>1. /\ sockets_' = sockets_ /\ state_' = state_ /\ next_state_' = next_state_
      /\ in_seq_' = in_seq_ /\ recv_queue_' = recv_queue_ /\ disp' = disp
      /\ own' = own /\ in_port_' = in_port_ /\ out_port_' = out_port_ /\ ip_' = ip_
      /\ txq' = txq /\ got' = got
  BY DEF Untouched, vars, control, numbers, address
<1>2. /\ DOMAIN peer' = Peers
      /\ c2s' \in [Peers -> Seq(PeerSegment)] /\ s2c' \in [Peers -> Seq(Segment)]
      /\ \A q \in Peers \ {p} :
             peer'[q] = peer[q] /\ c2s'[q] = c2s[q] /\ s2c'[q] = s2c[q]
  BY DEF Untouched
<1>3. \A t, q : Conn(t, q)' <=> Conn(t, q)
  BY <1>1 DEF Conn
<1>4. ASSUME NEW q \in Peers PROVE PeerOK(q)'
  <2>1. CASE q = p
    BY <2>1
  <2>2. CASE q # p
    BY <1>0, <1>2, <2>2 DEF LinkTypeOK, PeerOK
  <2> QED BY <2>1, <2>2
<1>5. LinkTypeOK'
  <2>1. ASSUME NEW q \in Peers
        PROVE  \A i \in DOMAIN s2c'[q] : s2c'[q][i].syn => s2c'[q][i].payload = <<>>
    <3>1. CASE q = p
      BY <3>1
    <3>2. CASE q # p
      BY <1>0, <1>2, <3>2 DEF LinkTypeOK
    <3> QED BY <3>1, <3>2
  <2> QED BY <1>0, <1>1, <1>2, <1>4, <2>1 DEF LinkTypeOK
<1>6. OneListens' /\ \A t \in Sockets : SocketInv(t)'
  BY <1>0, <1>1 DEF OneListens, SocketInv, Live
<1>7. ConnAddress'
  BY <1>0, <1>1, <1>3 DEF ConnAddress
<1>8. ASSUME NEW q \in Peers PROVE PeerInv(q)'
  <2>1. CASE q = p
    BY <2>1
  <2>2. CASE q # p
    <3>1. NoConn(q)' <=> NoConn(q)
      BY <1>3 DEF NoConn
    <3>2. /\ peer'[q] = peer[q] /\ c2s'[q] = c2s[q] /\ s2c'[q] = s2c[q]
          /\ PeerInv(q)
      BY <1>0, <1>2, <2>2
    <3>3. Nothing(q) => Nothing(q)'
      BY <1>1, <3>2, TransitStill
    <3> QED BY <1>1, <1>3, <3>1, <3>2, <3>3 DEF PeerInv, From
  <2> QED BY <2>1, <2>2
<1>9. ASSUME NEW t \in Sockets, NEW q \in Peers, Conn(t, q)' PROVE ConnInv(t, q)'
  <2>1. CASE q = p
    BY <1>3, <1>9, <2>1
  <2>2. CASE q # p
    <3>1. /\ peer'[q] = peer[q] /\ c2s'[q] = c2s[q] /\ s2c'[q] = s2c[q]
          /\ ConnInv(t, q)
      BY <1>0, <1>2, <1>3, <1>9, <2>2
    <3>2. Keeps(t, q)
      BY <1>1, <3>1 DEF Keeps, Closing, FinLeft, Holding
    <3>3. KeepsFlow(t, q)
      BY <1>1, <3>1, TransitStill DEF KeepsFlow
    <3>4. (Receiving(t)' <=> Receiving(t)) /\ (Passive(t)' <=> Passive(t))
      BY <1>1 DEF Receiving, Passive
    <3> QED BY <3>1, <3>2, <3>3, <3>4, ConnFrame
  <2> QED BY <2>1, <2>2
<1> QED BY <1>5, <1>6, <1>7, <1>8, <1>9 DEF ConnectionsInv

\* What a peer sends.
LEMMA PeerSegType ==
    ASSUME NEW p \in Peers, NEW seq \in SeqNum, NEW ackNum \in SeqNum,
           NEW syn \in BOOLEAN, NEW fin \in BOOLEAN, NEW ack \in BOOLEAN,
           NEW payload \in Seq(Peers \X Nat)
    PROVE  /\ PeerSeg(p, seq, ackNum, syn, fin, ack, payload) \in PeerSegment
           /\ From(PeerSeg(p, seq, ackNum, syn, fin, ack, payload), p)
<1>1. PeerAddress[p].port \in RemotePorts /\ PeerAddress[p].ip \in Hosts
      /\ ServerPort \in Ports
  BY PeersAssumption
<1> QED BY <1>1 DEF PeerSeg, PeerSegment, From

\* A peer appends a segment to those on their way.
LEMMA PutType ==
    ASSUME LinkTypeOK, NEW p \in Peers, NEW m \in PeerSegment, Put(p, m)
    PROVE  /\ c2s' \in [Peers -> Seq(PeerSegment)]
           /\ \A q \in Peers \ {p} : c2s'[q] = c2s[q]
           /\ c2s'[p] = Append(c2s[p], m)
           /\ Len(c2s[p]) \in Nat /\ Len(c2s'[p]) = Len(c2s[p]) + 1
           /\ \A i \in 1 .. Len(c2s[p]) : c2s'[p][i] = c2s[p][i]
           /\ c2s'[p][Len(c2s[p]) + 1] = m
           /\ \A i \in DOMAIN c2s'[p] :
                  c2s'[p][i] = m \/ (i \in DOMAIN c2s[p] /\ c2s'[p][i] = c2s[p][i])
<1>1. c2s[p] \in Seq(PeerSegment) /\ c2s'[p] = Append(c2s[p], m)
  BY DEF LinkTypeOK, Put
<1>2. /\ c2s' \in [Peers -> Seq(PeerSegment)]
      /\ \A q \in Peers \ {p} : c2s'[q] = c2s[q]
  <2>1. Append(c2s[p], m) \in Seq(PeerSegment)
    BY <1>1
  <2> QED BY <2>1 DEF LinkTypeOK, Put
<1> DEFINE q == c2s[p]
<1> HIDE DEF q
<1>3. /\ Len(q) \in Nat /\ Len(Append(q, m)) = Len(q) + 1 /\ DOMAIN q = 1 .. Len(q)
      /\ \A i \in 1 .. Len(q) : Append(q, m)[i] = q[i]
      /\ Append(q, m)[Len(q) + 1] = m
      /\ DOMAIN Append(q, m) = 1 .. Len(q) + 1
  <2>1. q \in Seq(PeerSegment)
    BY <1>1 DEF q
  <2> QED BY <2>1, AppendLast
<1>4. \A i \in 1 .. Len(q) + 1 : i \in 1 .. Len(q) \/ i = Len(q) + 1
  BY <1>3
<1> QED BY <1>1, <1>2, <1>3, <1>4 DEF q

\* A segment that is kept until it is acknowledged.
LEMMA PutKeptType ==
    ASSUME LinkTypeOK, NEW p \in Peers, NEW m, NEW n, NEW changed,
           DOMAIN changed = PeerFields, PutKept(p, m, n, changed)
    PROVE  /\ Put(p, m) /\ DOMAIN peer' = Peers
           /\ \A q \in Peers \ {p} : peer'[q] = peer[q]
           /\ DOMAIN peer'[p] = PeerFields
           /\ peer'[p].st = changed.st /\ peer'[p].at = changed.at
           /\ peer'[p].answers = changed.answers /\ peer'[p].rcv_nxt = changed.rcv_nxt
           /\ peer'[p].acked = changed.acked
           /\ peer'[p].snd_nxt = Plus(changed.snd_nxt, n)
           /\ peer'[p].unacked = Append(changed.unacked, m)
<1> DEFINE x == [changed EXCEPT !.snd_nxt = Plus(@, n), !.unacked = Append(@, m)]
<1>1. /\ DOMAIN x = PeerFields
      /\ x.st = changed.st /\ x.at = changed.at
      /\ x.answers = changed.answers /\ x.rcv_nxt = changed.rcv_nxt
      /\ x.acked = changed.acked
      /\ x.snd_nxt = Plus(changed.snd_nxt, n)
      /\ x.unacked = Append(changed.unacked, m)
  BY DEF PeerFields
<1>2. peer' = [peer EXCEPT ![p] = x] /\ Put(p, m)
  BY DEF PutKept
<1> HIDE DEF x
<1>3. peer'[p] = x /\ DOMAIN peer' = Peers /\ \A q \in Peers \ {p} : peer'[q] = peer[q]
  BY <1>2 DEF LinkTypeOK
<1> QED BY <1>1, <1>2, <1>3

\* A peer that sends one segment at a time.
LEMMA LoneSegment ==
    ASSUME NEW m \in PeerSegment
    PROVE  /\ Append(<<>>, m) = <<m>> /\ <<m>> \in Seq(PeerSegment)
           /\ \A i \in DOMAIN <<m>> : <<m>>[i] = m
<1> QED OBVIOUS

\* A peer opens its connection.
LEMMA LinkOpen ==
    ASSUME LinkInv, NEW p \in Peers, Open(p), UNCHANGED <<vars, got>>
    PROVE  ConnectionsInv'
<1>1. /\ LinkTypeOK /\ PeerOK(p) /\ PeerInv(p)
  BY DEF LinkInv, ConnectionsInv, LinkTypeOK
<1>2. /\ peer[p].st = "closed" /\ NoConn(p) /\ Nothing(p) /\ c2s[p] = <<>>
      /\ peer[p].snd_nxt = Isn[p] /\ peer[p].unacked = <<>>
      /\ peer[p].at = 0 /\ peer[p].answers = 0 /\ peer[p].acked = 0
  BY <1>1 DEF Open, PeerInv
<1> DEFINE x == [peer[p] EXCEPT !.st = "syn_sent"]
<1>3. /\ DOMAIN x = PeerFields /\ x.st = "syn_sent" /\ x.at = peer[p].at
      /\ x.answers = peer[p].answers /\ x.rcv_nxt = peer[p].rcv_nxt
      /\ x.snd_nxt = peer[p].snd_nxt /\ x.unacked = peer[p].unacked
      /\ x.acked = peer[p].acked
  BY <1>1 DEF PeerOK, PeerFields
<1>4. PutKept(p, SynOf(p), 1, x) /\ s2c' = s2c
  BY DEF Open, SynOf
<1> HIDE DEF x
<1>5. /\ Put(p, SynOf(p)) /\ DOMAIN peer' = Peers
      /\ \A q \in Peers \ {p} : peer'[q] = peer[q]
      /\ DOMAIN peer'[p] = PeerFields
      /\ peer'[p].st = "syn_sent" /\ peer'[p].at = 0 /\ peer'[p].answers = 0
      /\ peer'[p].rcv_nxt = peer[p].rcv_nxt /\ peer'[p].acked = 0
      /\ peer'[p].snd_nxt = Plus(Isn[p], 1)
      /\ peer'[p].unacked = Append(<<>>, SynOf(p))
  BY <1>1, <1>2, <1>3, <1>4, PutKeptType
<1>6. SynOf(p) \in PeerSegment /\ From(SynOf(p), p)
  <2>1. 0 \in SeqNum /\ Isn[p] \in SeqNum /\ <<>> \in Seq(Peers \X Nat)
    BY SeqSpaceAssumption, PeersAssumption DEF SeqNum
  <2> QED BY <2>1, PeerSegType DEF SynOf
<1>7. /\ c2s' \in [Peers -> Seq(PeerSegment)]
      /\ \A q \in Peers \ {p} : c2s'[q] = c2s[q]
      /\ c2s'[p] = <<SynOf(p)>>
      /\ \A i \in DOMAIN c2s'[p] : c2s'[p][i] = SynOf(p)
  <2>1. /\ c2s' \in [Peers -> Seq(PeerSegment)]
        /\ \A q \in Peers \ {p} : c2s'[q] = c2s[q]
        /\ c2s'[p] = Append(c2s[p], SynOf(p))
        /\ \A i \in DOMAIN c2s'[p] :
               c2s'[p][i] = SynOf(p) \/ (i \in DOMAIN c2s[p] /\ c2s'[p][i] = c2s[p][i])
    BY <1>1, <1>5, <1>6, PutType
  <2>2. Append(<<>>, SynOf(p)) = <<SynOf(p)>> /\ DOMAIN c2s[p] = {}
    BY <1>2
  <2> QED BY <1>2, <2>1, <2>2
<1>8. Untouched(p)
  BY <1>1, <1>4, <1>5, <1>7 DEF Untouched, LinkTypeOK
<1>9. peer'[p].snd_nxt = Num(p, StreamLength(p, 0)) /\ peer'[p].snd_nxt \in SeqNum
  <2>1. Plus(Isn[p], 1) = Num(p, 0) /\ Num(p, 0) \in SeqNum
    BY NumStep
  <2> QED BY <1>5, <2>1, StreamStep
<1>10. PeerOK(p)'
  BY <1>1, <1>5, <1>9, ScriptType DEF PeerOK, PeerStates
<1>11. /\ state_' = state_ /\ out_port_' = out_port_ /\ txq' = txq
  BY DEF vars, control, address
<1>12. NoConn(p)' /\ \A s \in Sockets : ~Conn(s, p) /\ ~Conn(s, p)'
  BY <1>2, <1>11 DEF NoConn, Conn
<1>13. Nothing(p)'
  BY <1>2, <1>4, <1>11, TransitStill
<1>14. /\ peer'[p].unacked = <<SynOf(p)>> /\ peer'[p].unacked \in Seq(PeerSegment)
       /\ \A i \in DOMAIN peer'[p].unacked : peer'[p].unacked[i] = SynOf(p)
  <2>1. /\ Append(<<>>, SynOf(p)) = <<SynOf(p)>>
        /\ \A i \in DOMAIN <<SynOf(p)>> : <<SynOf(p)>>[i] = SynOf(p)
    OBVIOUS
  <2>2. <<SynOf(p)>> \in Seq(PeerSegment)
    BY <1>6
  <2> QED BY <1>5, <2>1, <2>2
<1>15. PeerInv(p)'
  BY <1>5, <1>6, <1>7, <1>9, <1>12, <1>13, <1>14 DEF PeerInv, From, Lossy
<1>16. \A i \in DOMAIN s2c'[p] : s2c'[p][i].syn => s2c'[p][i].payload = <<>>
  BY <1>1, <1>4 DEF LinkTypeOK
<1> QED BY <1>8, <1>10, <1>12, <1>15, <1>16, PeerFrame

\* A peer repeats its SYN.
LEMMA LinkReopen ==
    ASSUME LinkInv, NEW p \in Peers, Reopen(p), UNCHANGED <<vars, got>>
    PROVE  ConnectionsInv'
<1>1. /\ LinkTypeOK /\ PeerOK(p) /\ PeerInv(p) /\ ConnAddress
  BY DEF LinkInv, ConnectionsInv, LinkTypeOK
<1>2. /\ peer[p].st = "syn_sent" /\ c2s[p] = <<>> /\ peer[p].unacked = <<SynOf(p)>>
      /\ peer' = peer /\ s2c' = s2c /\ Put(p, Head(peer[p].unacked))
      /\ \A s \in Sockets : Conn(s, p) => own[s] = "listen"
  BY <1>1 DEF Reopen, PeerInv
<1>3. NoConn(p)
  <2> SUFFICES ASSUME NEW s \in Sockets, Conn(s, p) PROVE FALSE
    BY DEF NoConn
  <2>1. /\ Live(s) /\ state_[s] # "want_syn"
        /\ ip_[s] = PeerAddress[p].ip /\ out_port_[s] = PeerAddress[p].port
    BY <1>1, <1>2 DEF Live, Conn, ConnAddress
  <2>2. PeerAddress[p] = [ip |-> PeerAddress[p].ip, port |-> PeerAddress[p].port]
    BY PeersAssumption
  <2>3. Holds(s, p)
    BY <2>1, <2>2 DEF Holds
  <2> QED BY <2>3 DEF Reopen
<1>4. Put(p, SynOf(p))
  <2>1. Head(<<SynOf(p)>>) = SynOf(p)
    OBVIOUS
  <2> QED BY <1>2, <2>1
<1>5. SynOf(p) \in PeerSegment /\ From(SynOf(p), p)
  <2>1. 0 \in SeqNum /\ Isn[p] \in SeqNum /\ <<>> \in Seq(Peers \X Nat)
    BY SeqSpaceAssumption, PeersAssumption DEF SeqNum
  <2> QED BY <2>1, PeerSegType DEF SynOf
<1>6. /\ c2s' \in [Peers -> Seq(PeerSegment)]
      /\ \A q \in Peers \ {p} : c2s'[q] = c2s[q]
      /\ c2s'[p] = <<SynOf(p)>>
      /\ \A i \in DOMAIN c2s'[p] : c2s'[p][i] = SynOf(p)
  <2>1. /\ c2s' \in [Peers -> Seq(PeerSegment)]
        /\ \A q \in Peers \ {p} : c2s'[q] = c2s[q]
        /\ c2s'[p] = Append(c2s[p], SynOf(p))
        /\ \A i \in DOMAIN c2s'[p] :
               c2s'[p][i] = SynOf(p) \/ (i \in DOMAIN c2s[p] /\ c2s'[p][i] = c2s[p][i])
    BY <1>1, <1>4, <1>5, PutType
  <2>2. Append(<<>>, SynOf(p)) = <<SynOf(p)>> /\ DOMAIN c2s[p] = {}
    BY <1>2
  <2> QED BY <1>2, <2>1, <2>2
<1>7. Untouched(p)
  BY <1>1, <1>2, <1>6 DEF Untouched, LinkTypeOK
<1>8. PeerOK(p)'
  BY <1>1, <1>2 DEF PeerOK
<1>9. /\ state_' = state_ /\ out_port_' = out_port_ /\ txq' = txq
  BY DEF vars, control, address
<1>10. NoConn(p)' /\ \A s \in Sockets : ~Conn(s, p) /\ ~Conn(s, p)'
  BY <1>3, <1>9 DEF NoConn, Conn
<1>11. Nothing(p) /\ Nothing(p)'
  <2>1. Nothing(p)
    BY <1>1, <1>3 DEF PeerInv
  <2> QED BY <1>2, <1>9, <2>1, TransitStill
<1>12. PeerInv(p)'
  BY <1>1, <1>2, <1>5, <1>6, <1>10, <1>11 DEF PeerInv, From
<1>13. \A i \in DOMAIN s2c'[p] : s2c'[p][i].syn => s2c'[p][i].payload = <<>>
  BY <1>1, <1>2 DEF LinkTypeOK
<1> QED BY <1>7, <1>8, <1>10, <1>12, <1>13, PeerFrame

\* A peer that sends a segment of its stream or its FIN has got the answers to
\* all it has sent: no answer is on the way.
LEMMA Answered ==
    ASSUME PolitePeers, NEW s \in Sockets, NEW p \in Peers, PeerOK(p),
           NEW r \in 0 .. Len(Script[p]), NEW d \in 0 .. Len(Script[p]),
           Requests(p, peer[p].at - 1) <= peer[p].answers,
           peer[p].st = "established",
           \/ peer[p].answers = Requests(p, peer[p].at)
           \/ peer[p].at = 0
           \/ peer[p].at \in 1 .. Len(Script[p]) /\ ~Script[p][peer[p].at].last
    PROVE  /\ Requests(p, peer[p].at) <= peer[p].answers
           /\ ~Outstanding(p, r, d)
<1> DEFINE at == peer[p].at
<1>1. at \in 0 .. Len(Script[p]) /\ peer[p].answers \in Nat /\ Requests(p, at) \in Nat
  BY RequestsStep DEF PeerOK
<1>2. CASE peer[p].answers = Requests(p, at)
  BY <1>1, <1>2 DEF Outstanding
<1>3. CASE at = 0
  <2>1. Requests(p, 0) = 0
    BY RequestsStep
  <2>2. Requests(p, at) <= peer[p].answers
    BY <1>1, <1>3, <2>1
  <2> QED BY <1>1, <2>2 DEF Outstanding
<1>4. CASE at \in 1 .. Len(Script[p]) /\ ~Script[p][at].last
  <2>1. Requests(p, at) = Requests(p, at - 1) + 0
    BY <1>4, RequestsStep
  <2>2. Requests(p, at - 1) \in Nat
    <3>1. at - 1 \in 0 .. Len(Script[p])
      BY <1>4, ScriptType
    <3> QED BY <3>1, RequestsStep
  <2>3. Requests(p, at) <= peer[p].answers
    BY <1>1, <2>1, <2>2
  <2> QED BY <1>1, <2>3 DEF Outstanding
<1> QED BY <1>2, <1>3, <1>4

\* The peer appends a segment to those on their way.
LEMMA RestAppended ==
    ASSUME LinkTypeOK, NEW p \in Peers, NEW m \in PeerSegment, Put(p, m),
           peer[p].st = "established", NEW d \in 0 .. Len(Script[p]), d <= peer[p].at,
           NEW a \in {0, 1}, Rest(p, a, d),
           \/ /\ peer'[p].st = "established" /\ peer'[p].at = peer[p].at + 1
              /\ IsPiece(m, p, peer[p].at + 1)
           \/ /\ peer'[p].st = "fin_sent" /\ peer'[p].at = peer[p].at
              /\ m.fin /\ m.ack
              /\ peer'[p].answers = Requests(p, peer[p].at)
    PROVE  Rest(p, a, d)'
<1> DEFINE n == peer[p].at - d
           l == Len(c2s[p])
<1>1. /\ l \in Nat /\ Len(c2s'[p]) = l + 1
      /\ \A i \in 1 .. l : c2s'[p][i] = c2s[p][i]
      /\ c2s'[p][l + 1] = m
  BY PutType
<1>2. peer[p].at \in Nat /\ d \in Nat /\ n \in Nat /\ a \in Nat /\ d + n = peer[p].at
  BY ScriptType DEF LinkTypeOK, PeerOK
<1>3. l = a + n /\ \A k \in 1 .. n : IsPiece(c2s[p][a + k], p, d + k)
  BY DEF Rest
<1> HIDE DEF n, l
<1>4. \A k \in 1 .. n : IsPiece(c2s'[p][a + k], p, d + k)
  <2> SUFFICES ASSUME NEW k \in 1 .. n PROVE IsPiece(c2s'[p][a + k], p, d + k)
    OBVIOUS
  <2>1. a + k \in 1 .. l
    BY <1>2, <1>3
  <2> QED BY <1>1, <1>3, <2>1
<1>5. CASE /\ peer'[p].st = "established" /\ peer'[p].at = peer[p].at + 1
           /\ IsPiece(m, p, peer[p].at + 1)
  <2> DEFINE b == n + 1
  <2>1. /\ peer'[p].at - d = b /\ a + b = l + 1 /\ d + b = peer[p].at + 1
        /\ \A k \in 1 .. b : k \in 1 .. n \/ k = b
    BY <1>2, <1>3, <1>5
  <2> HIDE DEF b
  <2>2. \A k \in 1 .. b : IsPiece(c2s'[p][a + k], p, d + k)
    BY <1>1, <1>4, <1>5, <2>1
  <2> QED BY <1>1, <1>5, <2>1, <2>2 DEF Rest
<1>6. CASE /\ peer'[p].st = "fin_sent" /\ peer'[p].at = peer[p].at
           /\ m.fin /\ m.ack
           /\ peer'[p].answers = Requests(p, peer[p].at)
  <2>1. peer'[p].at - d = n
    BY <1>6 DEF n
  <2>2. Len(c2s'[p]) = a + n + 1 /\ c2s'[p][a + n + 1] = m
    BY <1>1, <1>3
  <2> QED BY <1>4, <1>6, <2>1, <2>2 DEF Rest
<1> QED BY <1>5, <1>6

\* A peer sends the next piece of its stream, or its FIN.
LEMMA ConnSends ==
    ASSUME LinkInv, PolitePeers, NEW s \in Sockets, NEW p \in Peers, Conn(s, p),
           UNCHANGED <<vars, got>>, s2c' = s2c, NEW m \in PeerSegment, Put(p, m),
           peer[p].st = "established",
           \/ peer[p].answers = Requests(p, peer[p].at)
           \/ peer[p].at = 0
           \/ peer[p].at \in 1 .. Len(Script[p]) /\ ~Script[p][peer[p].at].last,
           peer'[p].answers = peer[p].answers,
           Lossy => /\ peer[p].unacked = <<>> /\ peer'[p].unacked = <<m>>
                    /\ peer'[p].acked = peer[p].acked,
           \/ /\ peer'[p].st = "established" /\ peer'[p].at = peer[p].at + 1
              /\ IsPiece(m, p, peer[p].at + 1)
           \/ /\ peer'[p].st = "fin_sent" /\ peer'[p].at = peer[p].at
              /\ IsFin(m)
              /\ peer[p].answers = Requests(p, peer[p].at)
    PROVE  ConnInv(s, p)'
<1>1. TypeOK /\ LinkTypeOK /\ PeerOK(p) /\ ConnInv(s, p)
  BY DEF LinkInv, ConnectionsInv, LinkTypeOK
<1>2. PICK r \in 0 .. Len(Script[p]), e \in 0 .. Len(Script[p]), d \in 0 .. Len(Script[p]) :
          /\ Facts(s, p, r, e, d)
          /\ Receiving(s) => Flow(s, p, r, d)
          /\ Passive(s) => Ended(p, r, e, d)
  BY <1>1 DEF ConnInv
<1>3. /\ state_' = state_ /\ next_state_' = next_state_ /\ in_seq_' = in_seq_
      /\ recv_queue_' = recv_queue_ /\ disp' = disp /\ txq' = txq /\ got' = got
  BY DEF vars, control, numbers
<1>4. /\ d <= peer[p].at /\ d <= peer'[p].at
  <2>1. d <= peer[p].at /\ peer[p].at \in Nat /\ d \in Nat
    BY <1>1, <1>2, ScriptType DEF Facts, PeerOK
  <2> QED BY <2>1
<1>5. Facts(s, p, r, e, d)'
  <2>1. Holding(s)' <=> Holding(s)
    BY <1>3 DEF Holding
  <2> QED BY <1>2, <1>3, <1>4, <2>1 DEF Facts
<1>6. ASSUME Receiving(s)' PROVE Flow(s, p, r, d)'
  <2>1. Flow(s, p, r, d)
    BY <1>2, <1>3, <1>6 DEF Receiving
  <2>2. /\ Requests(p, peer[p].at) <= peer[p].answers
        /\ ~Outstanding(p, r, d)
    BY <1>1, <2>1, Answered DEF Flow
  <2>3. \A a \in {0, 1} : Rest(p, a, d) => Rest(p, a, d)'
    BY <1>1, <1>4, RestAppended DEF IsFin
  <2>4. Quiet(p) => Quiet(p)'
    BY <1>3, TransitStill
  <2>5. Opened(p, d) => Opened(p, d)'
    BY <2>3, <2>4 DEF Opened
  <2>6. Acked(p, r, d) => Acked(p, r, d)'
    <3>1. /\ Len(c2s[p]) \in Nat /\ Len(c2s'[p]) = Len(c2s[p]) + 1
          /\ \A i \in 1 .. Len(c2s[p]) : c2s'[p][i] = c2s[p][i]
      BY <1>1, PutType
    <3>2. ASSUME Len(c2s[p]) > 0
          PROVE  Len(c2s'[p]) > 0 /\ c2s'[p][1] = c2s[p][1]
      <4> DEFINE l == Len(c2s[p])
      <4>1. l \in Nat /\ l > 0 /\ Len(c2s'[p]) = l + 1
            /\ \A i \in 1 .. l : c2s'[p][i] = c2s[p][i]
        BY <3>1, <3>2
      <4> HIDE DEF l
      <4>2. 1 \in 1 .. l /\ l + 1 > 0
        BY <4>1
      <4> QED BY <4>1, <4>2
    <3> QED BY <2>3, <2>4, <3>2 DEF Acked
  <2>7. Requests(p, peer'[p].at - 1) <= peer'[p].answers
    <3> DEFINE at == peer[p].at
    <3>1. at \in Nat /\ Requests(p, at - 1) <= peer[p].answers
      BY <1>1, <2>1, ScriptType DEF PeerOK, Flow
    <3>2. Requests(p, at) <= peer[p].answers
      BY <2>2
    <3>3. peer'[p].at = at + 1 \/ peer'[p].at = at
      OBVIOUS
    <3> HIDE DEF at
    <3>4. (at + 1) - 1 = at
      BY <3>1
    <3>5. CASE peer'[p].at = at + 1
      BY <3>2, <3>4, <3>5
    <3>6. CASE peer'[p].at = at
      BY <3>1, <3>6
    <3> QED BY <3>3, <3>5, <3>6
  <2>8. peer'[p].answers <= Requests(p, r)
    BY <2>1 DEF Flow
  <2>9. ASSUME ~Lossy PROVE KeptFlow(s, p, r, d)'
    BY <1>3, <2>1, <2>2, <2>5, <2>6, <2>9 DEF Flow, KeptFlow, Waiting
  <2>10. ASSUME Lossy PROVE LossyFlow(s, p, r, d)'
    <3>1. LossyFlow(s, p, r, d)
      BY <2>1, <2>10 DEF Flow
    <3>2. peer[p].at = d /\ peer[p].acked = StreamLength(p, d)
      <4>1. Len(<<>>) = 0
        OBVIOUS
      <4> QED BY <2>10, <3>1, <4>1 DEF LossyFlow, Window, AllLeft, PieceLeft
    <3>3. d \in Nat /\ (d + 1) - 1 = d /\ d + 1 \in Nat /\ d <= d + 1
      BY ScriptType
    <3>4. Quiet(p)'
      BY <2>2, <2>4, <3>1 DEF LossyFlow
    <3>5. Numbered(p, d)'
      BY <1>3, <3>1, TransitStill DEF LossyFlow
    <3>6. OnTheWay(p, d)'
      <4>1. \A i \in DOMAIN c2s'[p] :
                c2s'[p][i] = m \/ (i \in DOMAIN c2s[p] /\ c2s'[p][i] = c2s[p][i])
        BY <1>1, PutType
      <4>2. 1 .. peer[p].at \subseteq 1 .. peer'[p].at
        BY <3>2, <3>3
      <4>3. \A x : Known(x, p, d) => Known(x, p, d)'
        BY <4>2 DEF Known
      <4>4. Known(m, p, d)'
        <5>1. CASE peer'[p].at = peer[p].at + 1 /\ IsPiece(m, p, peer[p].at + 1)
          <6>1. d + 1 \in 1 .. peer'[p].at /\ IsPiece(m, p, d + 1)
            BY <3>2, <3>3, <5>1
          <6> QED BY <6>1 DEF Known
        <5>2. CASE peer'[p].st = "fin_sent" /\ IsFin(m)
          BY <5>2 DEF Known
        <5> QED BY <5>1, <5>2
      <4> QED BY <3>1, <4>1, <4>3, <4>4 DEF OnTheWay, LossyFlow
    <3>7. Window(p, d)'
      <4>1. Len(<<m>>) = 1 /\ <<m>>[1] = m
        OBVIOUS
      <4>2. /\ peer'[p].unacked = <<m>> /\ peer'[p].acked = StreamLength(p, d)
        BY <2>10, <3>2
      <4>3. CASE /\ peer'[p].st = "established" /\ peer'[p].at = d + 1
                 /\ IsPiece(m, p, d + 1)
        <5>1. /\ peer'[p].at > 0 /\ peer'[p].at <= d + 1 /\ peer'[p].at - 1 = d
          BY <3>3, <4>3
        <5>2. PieceLeft(p)'
          BY <4>1, <4>2, <4>3, <5>1 DEF PieceLeft
        <5> QED BY <4>3, <5>1, <5>2 DEF Window
      <4>4. CASE /\ peer'[p].st = "fin_sent" /\ peer'[p].at = d /\ IsFin(m)
                 /\ peer'[p].answers = Requests(p, d)
        <5>1. FinLeft(p)'
          BY <4>1, <4>2, <4>4 DEF FinLeft
        <5>2. peer'[p].at <= d + 1
          BY <3>3, <4>4
        <5> QED BY <4>4, <5>1, <5>2 DEF Window
      <4> QED BY <3>2, <4>3, <4>4
    <3> QED BY <1>3, <3>1, <3>4, <3>5, <3>6, <3>7 DEF LossyFlow
  <2> QED BY <1>3, <2>1, <2>7, <2>8, <2>9, <2>10 DEF Flow, Lossy
<1>7. Passive(s)' => Ended(p, r, e, d)'
  <2>1. Passive(s)' => Passive(s)
    BY <1>3 DEF Passive
  <2>2. ~Finished(p, d)
    BY DEF Finished, Closing
  <2> QED BY <1>2, <2>1, <2>2 DEF Ended, Lossy
<1> QED BY <1>2, <1>5, <1>6, <1>7 DEF ConnInv

\* A peer sends the next segment of its script.
LEMMA LinkSendRequest ==
    ASSUME LinkInv, PolitePeers, NEW p \in Peers, SendRequest(p), UNCHANGED <<vars, got>>
    PROVE  ConnectionsInv'
<1>1. LinkTypeOK /\ PeerOK(p) /\ PeerInv(p)
  BY DEF LinkInv, ConnectionsInv, LinkTypeOK
<1> DEFINE at == peer[p].at
<1>2. PICK k : k = at + 1
  OBVIOUS
<1> DEFINE n == Script[p][k].len
           m == PeerSeg(p, peer[p].snd_nxt, peer[p].rcv_nxt, FALSE, FALSE, TRUE,
                        Stream(p, StreamLength(p, k - 1), StreamLength(p, k - 1) + n))
           x == [peer[p] EXCEPT !.at = k]
<1>3. /\ peer[p].st = "established" /\ k \in DOMAIN Script[p]
      /\ k > 1 /\ Script[p][k - 1].last => Settled(p)
      /\ PutKept(p, m, n, x) /\ s2c' = s2c
      /\ Lossy => peer[p].unacked = <<>>
  BY <1>2 DEF SendRequest, PolitePeers, Lossy
<1>4. /\ k \in 1 .. Len(Script[p]) /\ k - 1 = at
      /\ at \in 0 .. Len(Script[p]) /\ k \in 0 .. Len(Script[p])
  <2>1. DOMAIN Script[p] = 1 .. Len(Script[p]) /\ at \in 0 .. Len(Script[p])
        /\ Len(Script[p]) \in Nat
    BY <1>1, ScriptType DEF PeerOK
  <2> QED BY <1>2, <1>3, <2>1
<1>5. /\ n \in Nat /\ StreamLength(p, k - 1) + n = StreamLength(p, k)
      /\ StreamLength(p, at) \in Nat
  BY <1>4, StreamStep, ScriptType
<1>6. m.payload = Piece(p, k) /\ Piece(p, k) \in Seq(Peers \X Nat)
  BY <1>4, <1>5, PieceType DEF PeerSeg, Piece
<1>7. peer[p].snd_nxt = Num(p, StreamLength(p, at))
  BY <1>1, <1>3 DEF PeerInv
<1>8. m \in PeerSegment /\ From(m, p) /\ ~m.syn
  <2>1. peer[p].snd_nxt \in SeqNum /\ peer[p].rcv_nxt \in SeqNum
    BY <1>1 DEF PeerOK
  <2>2. m = PeerSeg(p, peer[p].snd_nxt, peer[p].rcv_nxt, FALSE, FALSE, TRUE, Piece(p, k))
    BY <1>5 DEF Piece
  <2>3. m \in PeerSegment /\ From(m, p)
    BY <1>6, <2>1, <2>2, PeerSegType
  <2> QED BY <2>3 DEF PeerSeg
<1>9. IsPiece(m, p, at + 1)
  BY <1>2, <1>4, <1>6, <1>7 DEF IsPiece, IsAck, PeerSeg
<1>10. /\ DOMAIN x = PeerFields /\ x.st = "established" /\ x.at = k
       /\ x.answers = peer[p].answers /\ x.rcv_nxt = peer[p].rcv_nxt
       /\ x.snd_nxt = peer[p].snd_nxt /\ x.unacked = peer[p].unacked
       /\ x.acked = peer[p].acked
  BY <1>1, <1>3 DEF PeerOK, PeerFields
<1> HIDE DEF x, m
<1>11. /\ Put(p, m) /\ DOMAIN peer' = Peers
       /\ \A q \in Peers \ {p} : peer'[q] = peer[q]
       /\ DOMAIN peer'[p] = PeerFields
       /\ peer'[p].st = "established" /\ peer'[p].at = k
       /\ peer'[p].answers = peer[p].answers
       /\ peer'[p].rcv_nxt = peer[p].rcv_nxt
       /\ peer'[p].snd_nxt = Plus(peer[p].snd_nxt, n)
       /\ peer'[p].unacked = Append(peer[p].unacked, m)
       /\ peer'[p].acked = peer[p].acked
  BY <1>1, <1>3, <1>10, PutKeptType
<1>12. peer'[p].snd_nxt = Num(p, StreamLength(p, k)) /\ peer'[p].snd_nxt \in SeqNum
  <2> DEFINE b == StreamLength(p, at)
  <2>1. b \in Nat /\ n \in Nat /\ b + n = StreamLength(p, k)
    BY <1>4, <1>5
  <2>2. peer'[p].snd_nxt = Plus(Num(p, b), n)
    BY <1>7, <1>11
  <2> HIDE DEF b, n
  <2>3. Plus(Num(p, b), n) = Num(p, b + n)
    BY <2>1, NumStep
  <2>4. b + n \in Nat
    BY <2>1
  <2>5. Num(p, b + n) \in SeqNum
    BY <2>4, NumStep
  <2> QED BY <2>1, <2>2, <2>3, <2>5
<1>13. /\ c2s' \in [Peers -> Seq(PeerSegment)]
       /\ \A q \in Peers \ {p} : c2s'[q] = c2s[q]
       /\ \A i \in DOMAIN c2s'[p] :
              c2s'[p][i] = m \/ (i \in DOMAIN c2s[p] /\ c2s'[p][i] = c2s[p][i])
  BY <1>1, <1>8, <1>11, PutType
<1>14. Untouched(p)
  BY <1>1, <1>3, <1>11, <1>13 DEF Untouched, LinkTypeOK
<1>15. PeerOK(p)'
  BY <1>1, <1>4, <1>11, <1>12 DEF PeerOK, PeerStates
<1>16. /\ state_' = state_ /\ out_port_' = out_port_
  BY DEF vars, control, address
<1>17. ~NoConn(p) /\ ~NoConn(p)'
  <2>1. ~NoConn(p)
    BY <1>1, <1>3 DEF PeerInv
  <2> QED BY <1>16, <2>1 DEF NoConn, Conn
<1>22. Lossy => peer'[p].unacked = <<m>>
  BY <1>3, <1>8, <1>11, LoneSegment
<1>18. PeerInv(p)'
  <2>1. \A i \in DOMAIN c2s'[p] : From(c2s'[p][i], p) /\ ~c2s'[p][i].syn
    BY <1>1, <1>3, <1>8, <1>13 DEF PeerInv
  <2>2. Lossy => /\ peer'[p].unacked \in Seq(PeerSegment)
                 /\ \A i \in DOMAIN peer'[p].unacked : peer'[p].unacked[i] = m
    BY <1>8, <1>22, LoneSegment
  <2> QED BY <1>8, <1>11, <1>12, <1>17, <2>1, <2>2 DEF PeerInv, From, Lossy
<1>19. \A i \in DOMAIN s2c'[p] : s2c'[p][i].syn => s2c'[p][i].payload = <<>>
  BY <1>1, <1>3 DEF LinkTypeOK
<1>20. \/ peer[p].answers = Requests(p, at)
       \/ at = 0
       \/ at \in 1 .. Len(Script[p]) /\ ~Script[p][at].last
  <2>1. Settled(p) => peer[p].answers = Requests(p, at)
    BY DEF Settled
  <2>2. at # 0 => k > 1 /\ at \in 1 .. Len(Script[p])
    BY <1>2, <1>4, ScriptType
  <2> QED BY <1>3, <1>4, <2>1, <2>2
<1>21. ASSUME NEW s \in Sockets, Conn(s, p) PROVE ConnInv(s, p)'
  BY <1>2, <1>3, <1>8, <1>9, <1>11, <1>20, <1>21, <1>22, ConnSends
<1> QED BY <1>14, <1>15, <1>18, <1>19, <1>21, PeerFrame

\* A peer closes.
LEMMA LinkPeerClose ==
    ASSUME LinkInv, PolitePeers, NEW p \in Peers, PeerClose(p), UNCHANGED <<vars, got>>
    PROVE  ConnectionsInv'
<1>1. LinkTypeOK /\ PeerOK(p) /\ PeerInv(p)
  BY DEF LinkInv, ConnectionsInv, LinkTypeOK
<1> DEFINE m == PeerSeg(p, peer[p].snd_nxt, peer[p].rcv_nxt, FALSE, TRUE, TRUE, <<>>)
           x == [peer[p] EXCEPT !.st = "fin_sent"]
<1>2. /\ peer[p].st = "established" /\ peer[p].unacked = <<>>
      /\ peer[p].answers = Requests(p, peer[p].at)
      /\ PutKept(p, m, 1, x) /\ s2c' = s2c
  BY DEF PeerClose, PolitePeers, Settled
<1>3. peer[p].snd_nxt \in SeqNum /\ peer[p].rcv_nxt \in SeqNum
  BY <1>1 DEF PeerOK
<1>4. m \in PeerSegment /\ From(m, p) /\ IsFin(m)
  <2>1. <<>> \in Seq(Peers \X Nat)
    OBVIOUS
  <2>2. m \in PeerSegment /\ From(m, p)
    BY <1>3, <2>1, PeerSegType
  <2> QED BY <2>2 DEF PeerSeg, IsFin
<1>5. /\ DOMAIN x = PeerFields /\ x.st = "fin_sent" /\ x.at = peer[p].at
      /\ x.answers = peer[p].answers /\ x.rcv_nxt = peer[p].rcv_nxt
      /\ x.snd_nxt = peer[p].snd_nxt /\ x.unacked = peer[p].unacked
      /\ x.acked = peer[p].acked
  BY <1>1 DEF PeerOK, PeerFields
<1> HIDE DEF x, m
<1>6. /\ Put(p, m) /\ DOMAIN peer' = Peers
      /\ \A q \in Peers \ {p} : peer'[q] = peer[q]
      /\ DOMAIN peer'[p] = PeerFields
      /\ peer'[p].st = "fin_sent" /\ peer'[p].at = peer[p].at
      /\ peer'[p].answers = peer[p].answers
      /\ peer'[p].rcv_nxt = peer[p].rcv_nxt
      /\ peer'[p].snd_nxt = Plus(peer[p].snd_nxt, 1)
      /\ peer'[p].unacked = <<m>> /\ peer'[p].acked = peer[p].acked
  BY <1>1, <1>2, <1>4, <1>5, PutKeptType, LoneSegment
<1>7. peer'[p].snd_nxt \in SeqNum
  BY <1>3, <1>6, SeqNext
<1>8. /\ c2s' \in [Peers -> Seq(PeerSegment)]
      /\ \A q \in Peers \ {p} : c2s'[q] = c2s[q]
      /\ \A i \in DOMAIN c2s'[p] :
             c2s'[p][i] = m \/ (i \in DOMAIN c2s[p] /\ c2s'[p][i] = c2s[p][i])
  BY <1>1, <1>4, <1>6, PutType
<1>9. Untouched(p)
  BY <1>1, <1>2, <1>6, <1>8 DEF Untouched, LinkTypeOK
<1>10. PeerOK(p)'
  BY <1>1, <1>6, <1>7 DEF PeerOK, PeerStates
<1>11. /\ state_' = state_ /\ out_port_' = out_port_
  BY DEF vars, control, address
<1>12. ~NoConn(p)'
  <2>1. ~NoConn(p)
    BY <1>1, <1>2 DEF PeerInv
  <2> QED BY <1>11, <2>1 DEF NoConn, Conn
<1>13. PeerInv(p)'
  <2>1. \A i \in DOMAIN c2s'[p] : From(c2s'[p][i], p) /\ ~c2s'[p][i].syn
    BY <1>1, <1>2, <1>4, <1>8 DEF PeerInv, IsFin
  <2>2. /\ peer'[p].unacked \in Seq(PeerSegment)
        /\ \A i \in DOMAIN peer'[p].unacked : peer'[p].unacked[i] = m
    BY <1>4, <1>6, LoneSegment
  <2> QED BY <1>4, <1>6, <1>12, <2>1, <2>2 DEF PeerInv, From, Lossy, IsFin
<1>14. \A i \in DOMAIN s2c'[p] : s2c'[p][i].syn => s2c'[p][i].payload = <<>>
  BY <1>1, <1>2 DEF LinkTypeOK
<1>15. ASSUME NEW s \in Sockets, Conn(s, p) PROVE ConnInv(s, p)'
  BY <1>2, <1>4, <1>6, <1>15, ConnSends
<1> QED BY <1>9, <1>10, <1>13, <1>14, <1>15, PeerFrame

\* The greatest of some of the first numbers is one of them.
LEMMA MaxIs ==
    ASSUME NEW n \in Nat, NEW T, T \subseteq 1 .. n, T # {}
    PROVE  Max(T) \in 1 .. n
<1> DEFINE D == {n - i : i \in T}
<1>1. \A i \in T : i \in 1 .. n /\ n - i \in Nat
  OBVIOUS
<1>2. D \subseteq Nat /\ D # {}
  BY <1>1
<1>3. PICK d \in D : \A e \in D : d <= e
  BY <1>2, MinExists
<1>4. PICK x \in T : d = n - x
  OBVIOUS
<1>5. \A y \in T : x >= y
  <2> TAKE y \in T
  <2>1. n - x <= n - y
    BY <1>3, <1>4
  <2>2. x \in 1 .. n /\ y \in 1 .. n
    BY <1>1
  <2> HIDE DEF D
  <2> QED BY <2>1, <2>2
<1>6. Max(T) \in T
  BY <1>5 DEF Max
<1> QED BY <1>1, <1>6

\* What an acknowledgement leaves of the segments a peer keeps is part of them.
LEMMA StillType ==
    ASSUME NEW u \in Seq(PeerSegment), NEW a
    PROVE  /\ StillUnacked(u, a) \in Seq(PeerSegment)
           /\ \A i \in DOMAIN StillUnacked(u, a) :
                  \E j \in DOMAIN u : StillUnacked(u, a)[i] = u[j]
<1> DEFINE ends == {i \in DOMAIN u : Plus(u[i].seq_num, Span(u[i])) = a}
           n == Len(u)
<1>1. n \in Nat /\ DOMAIN u = 1 .. n /\ \A i \in 1 .. n : u[i] \in PeerSegment
  OBVIOUS
<1>2. StillUnacked(u, a) = IF ends = {} THEN u ELSE SubSeq(u, Max(ends) + 1, n)
  BY DEF StillUnacked
<1>3. CASE ends = {}
  BY <1>2, <1>3
<1>4. CASE ends # {}
  <2> DEFINE m == Max(ends)
  <2>1. m \in 1 .. n
    <3>1. ends \subseteq 1 .. n
      BY <1>1
    <3> HIDE DEF ends
    <3> QED BY <1>1, <1>4, <3>1, MaxIs
  <2>2. StillUnacked(u, a) = SubSeq(u, m + 1, n)
    BY <1>2, <1>4
  <2> HIDE DEF ends, m, n
  <2> DEFINE q == SubSeq(u, m + 1, n)
  <2>3. m + 1 \in Int /\ n \in Int /\ m + 1 \in 1 .. n + 1
    BY <1>1, <2>1
  <2>4. \A i \in m + 1 .. n : u[i] \in PeerSegment
    BY <1>1, <2>1
  <2> DEFINE k == m + 1
  <2> HIDE DEF k
  <2>5. /\ SubSeq(u, k, n) \in Seq(PeerSegment)
        /\ Len(SubSeq(u, k, n)) = IF k <= n THEN n - k + 1 ELSE 0
        /\ \A i \in 1 .. n - k + 1 : SubSeq(u, k, n)[i] = u[k + i - 1]
    BY <2>3, <2>4, SubSeqProperties DEF k
  <2>6. ASSUME NEW i \in DOMAIN q PROVE \E j \in 1 .. n : q[i] = u[j]
    <3>1. q = SubSeq(u, k, n)
      BY DEF k
    <3> DEFINE l == Len(SubSeq(u, k, n))
    <3>2. DOMAIN q = 1 .. l
      BY <2>5, <3>1
    <3>3. l = IF k <= n THEN n - k + 1 ELSE 0
      BY <2>5
    <3> HIDE DEF l, q
    <3>4. k \in 1 .. n + 1 /\ n \in Nat
      BY <1>1, <2>3 DEF k
    <3>5. i \in 1 .. n - k + 1 /\ k + i - 1 \in 1 .. n
      BY <3>2, <3>3, <3>4
    <3> QED BY <2>5, <3>1, <3>5
  <2> QED BY <1>1, <2>2, <2>5, <2>6 DEF k
<1> QED BY <1>3, <1>4

LEMMA SubOne ==
    ASSUME NEW x
    PROVE  /\ SubSeq(<<x>>, 1, 1) = <<x>> /\ SubSeq(<<x>>, 2, 1) = <<>>
           /\ SubSeq(<<x>>, 1, 0) = <<>> /\ SubSeq(<<>>, 1, 0) = <<>>
<1>1. SubSeq(<<x>>, 2, 1) = <<>> /\ SubSeq(<<x>>, 1, 0) = <<>> /\ SubSeq(<<>>, 1, 0) = <<>>
  <2>1. 2 \in Int /\ 1 \in Int /\ 0 \in Int /\ 1 < 2 /\ 0 < 1
    OBVIOUS
  <2> QED BY <2>1, SubSeqEmpty
<1>2. SubSeq(<<x>>, 1, 1) = <<x>>
  <2>1. <<x>> \in Seq({x}) /\ Len(<<x>>) = 1
    OBVIOUS
  <2> QED BY <2>1, SubSeqFull
<1> QED BY <1>1, <1>2

LEMMA MaxOne == Max({1}) = 1
<1>1. \E x \in {1} : \A y \in {1} : x >= y
  OBVIOUS
<1> QED BY <1>1 DEF Max

\* The bytes of no segment, and of one.
LEMMA BytesOfNone == FoldLeft(LAMBDA n, seg : n + Len(seg.payload), 0, <<>>) = 0
<1> DEFINE g == [s \in SUBSET {} |-> 0]
           R(h) == h = [s \in SUBSET {} |->
                           IF s = {} THEN 0
                           ELSE h[s \ {Max(s)}] + Len(<<>>[Max(s)].payload)]
<1>1. DOMAIN <<>> = {}
  OBVIOUS
<1>2. \A s \in SUBSET {} : s = {}
  OBVIOUS
<1>3. R(g)
  BY <1>2
<1>4. R(CHOOSE h : R(h))
  BY <1>3
<1>5. (CHOOSE h : R(h))[{}] = 0
  BY <1>4
<1>6. FoldLeft(LAMBDA n, seg : n + Len(seg.payload), 0, <<>>) = (CHOOSE h : R(h))[{}]
  BY <1>1 DEF FoldLeft, MapThenFoldSet
<1> QED BY <1>5, <1>6

LEMMA BytesOfOne ==
    ASSUME NEW x, Len(x.payload) \in Nat
    PROVE  FoldLeft(LAMBDA n, seg : n + Len(seg.payload), 0, <<x>>) = Len(x.payload)
<1> DEFINE l == Len(x.payload)
           g == [s \in SUBSET {1} |-> IF s = {} THEN 0 ELSE l]
           R(h) == h = [s \in SUBSET {1} |->
                           IF s = {} THEN 0
                           ELSE h[s \ {Max(s)}] + Len(<<x>>[Max(s)].payload)]
<1>1. DOMAIN <<x>> = {1} /\ <<x>>[1] = x
  OBVIOUS
<1>2. \A s \in SUBSET {1} : s = {} \/ s = {1}
  OBVIOUS
<1>3. {1} # {} /\ {1} \ {1} = {} /\ Max({1}) = 1
  BY MaxOne
<1>4. 0 + l = l
  OBVIOUS
<1>5. Len(<<x>>[Max({1})].payload) = l
  BY <1>1, <1>3
<1> HIDE DEF l
<1>6. ASSUME NEW h, R(h)
      PROVE  h[{1}] = l
  <2>1. h[{}] = 0
    BY <1>6
  <2>2. h[{1}] = h[{1} \ {Max({1})}] + Len(<<x>>[Max({1})].payload)
    BY <1>3, <1>6
  <2> QED BY <1>3, <1>4, <1>5, <2>1, <2>2
<1>7. R(g)
  <2> SUFFICES ASSUME NEW s \in SUBSET {1}
               PROVE  g[s] = IF s = {} THEN 0
                             ELSE g[s \ {Max(s)}] + Len(<<x>>[Max(s)].payload)
    BY DEF R
  <2>1. CASE s = {}
    BY <2>1
  <2>2. CASE s = {1}
    <3>1. g[{}] = 0 /\ g[{1}] = l
      BY <1>3
    <3> HIDE DEF g
    <3>2. g[{1} \ {Max({1})}] = 0
      BY <1>3, <3>1
    <3> QED BY <1>3, <1>4, <1>5, <2>2, <3>1, <3>2
  <2> QED BY <1>2, <2>1, <2>2
<1>8. R(CHOOSE h : R(h))
  <2> HIDE DEF R, g
  <2> QED BY <1>7
<1>9. FoldLeft(LAMBDA n, seg : n + Len(seg.payload), 0, <<x>>) = (CHOOSE h : R(h))[{1}]
  BY <1>1 DEF FoldLeft, MapThenFoldSet
<1> QED BY <1>6, <1>8, <1>9 DEF l

\* An acknowledgement of one segment.
LEMMA StillOne ==
    ASSUME NEW x, NEW a
    PROVE  /\ StillUnacked(<<>>, a) = <<>>
           /\ StillUnacked(<<x>>, a) =
                  IF Plus(x.seq_num, Span(x)) = a THEN <<>> ELSE <<x>>
           /\ AckedBytes(<<>>, <<>>) = 0 /\ AckedBytes(<<x>>, <<x>>) = 0
           /\ Len(x.payload) \in Nat => AckedBytes(<<x>>, <<>>) = Len(x.payload)
<1>1. /\ DOMAIN <<>> = {} /\ DOMAIN <<x>> = {1} /\ <<x>>[1] = x
      /\ Len(<<x>>) = 1 /\ Len(<<>>) = 0 /\ 1 - 1 = 0 /\ 1 - 0 = 1 /\ 0 - 0 = 0
      /\ 1 + 1 = 2
  OBVIOUS
<1>2. StillUnacked(<<>>, a) = <<>>
  BY <1>1 DEF StillUnacked
<1> DEFINE ends == {i \in DOMAIN <<x>> : Plus(<<x>>[i].seq_num, Span(<<x>>[i])) = a}
<1>3. IF Plus(x.seq_num, Span(x)) = a THEN ends = {1} ELSE ends = {}
  BY <1>1
<1>4. StillUnacked(<<x>>, a) = IF ends = {} THEN <<x>>
                               ELSE SubSeq(<<x>>, Max(ends) + 1, Len(<<x>>))
  BY DEF StillUnacked
<1> HIDE DEF ends
<1>5. ends = {1} => SubSeq(<<x>>, Max(ends) + 1, Len(<<x>>)) = <<>>
  BY MaxOne, SubOne, <1>1
<1>6. AckedBytes(<<>>, <<>>) = 0 /\ AckedBytes(<<x>>, <<x>>) = 0
  BY BytesOfNone, SubOne, <1>1 DEF AckedBytes
<1>7. Len(x.payload) \in Nat => AckedBytes(<<x>>, <<>>) = Len(x.payload)
  BY BytesOfOne, SubOne, <1>1 DEF AckedBytes
<1> QED BY <1>2, <1>3, <1>4, <1>5, <1>6, <1>7

\* What a peer makes of a segment of the endpoint.
Acknowledges(p) ==
    \E a \in SeqNum :
        Put(p, PeerSeg(p, peer[p].snd_nxt, a, FALSE, FALSE, TRUE, <<>>))

\* The number it expects after that.
Expects(p, m) ==
    IF peer[p].st = "syn_sent" \/ m.seq_num = peer[p].rcv_nxt
    THEN Plus(m.seq_num, Span(m)) ELSE peer[p].rcv_nxt

Received(p, m) ==
    /\ s2c[p] # <<>> /\ s2c'[p] = Tail(s2c[p]) /\ m \in Segment
    /\ m.syn => m.payload = <<>>
    /\ peer'[p].at = peer[p].at
    /\ peer[p].st # "done" => peer'[p].rcv_nxt = Expects(p, m)
    /\ \/ peer'[p].answers = peer[p].answers
       \/ m.payload # <<>> /\ peer'[p].answers = peer[p].answers + 1

Answers(p, m) ==
    \/ Span(m) # 0 /\ Acknowledges(p)
    \/ Span(m) = 0 /\ c2s' = c2s

Left(p, m) == StillUnacked(peer[p].unacked, m.ack_num)

Drops(p, m) ==
    /\ peer'[p].unacked = Left(p, m)
    /\ peer'[p].acked = peer[p].acked + AckedBytes(peer[p].unacked, Left(p, m))

Handshakes(p, m) ==
    /\ peer[p].st = "syn_sent" /\ peer'[p].st = "established" /\ m.syn
    /\ peer'[p].snd_nxt = peer[p].snd_nxt /\ Acknowledges(p) /\ Drops(p, m)

Takes(p, m) ==
    /\ peer[p].st \in {"established", "fin_sent", "last_ack"}
    /\ \/ peer'[p].st = peer[p].st
       \/ peer[p].st = "last_ack" /\ peer'[p].st = "done"
    /\ peer'[p].snd_nxt = peer[p].snd_nxt /\ Answers(p, m) /\ Drops(p, m)

Ends(p, m) ==
    /\ m.fin
    /\ \E seg \in PeerSegment :
           /\ From(seg, p) /\ ~seg.syn /\ Put(p, seg)
           /\ \/ /\ peer[p].st = "established" /\ peer'[p].st = "last_ack"
                 /\ peer'[p].unacked = Append(Left(p, m), seg)
              \/ /\ peer[p].st = "fin_sent" /\ peer'[p].st = "done"
                 /\ Drops(p, m)

Over(p) == peer[p].st = "done" /\ peer'[p] = peer[p] /\ c2s' = c2s

\* The cases of a segment that arrives at a peer.
LEMMA ReceiveShape ==
    ASSUME TypeOK, LinkTypeOK, NEW p \in Peers, PeerReceive(p)
    PROVE  /\ Received(p, Head(s2c[p]))
           /\ s2c' \in [Peers -> Seq(Segment)]
           /\ \A q \in Peers \ {p} : s2c'[q] = s2c[q] /\ peer'[q] = peer[q]
           /\ \A i \in DOMAIN s2c'[p] : s2c'[p][i].syn => s2c'[p][i].payload = <<>>
           /\ DOMAIN peer' = Peers /\ DOMAIN peer'[p] = PeerFields
           /\ peer'[p].snd_nxt \in SeqNum /\ peer'[p].rcv_nxt \in SeqNum
           /\ peer'[p].answers \in Nat
           /\ \/ Handshakes(p, Head(s2c[p]))
              \/ Takes(p, Head(s2c[p]))
              \/ Ends(p, Head(s2c[p]))
              \/ Over(p)
<1> DEFINE m == Head(s2c[p])
           left == StillUnacked(peer[p].unacked, m.ack_num)
           bytes == AckedBytes(peer[p].unacked, left)
           acked == [peer[p] EXCEPT !.unacked = left, !.acked = @ + bytes]
           inOrder == peer[p].st = "syn_sent" \/ m.seq_num = peer[p].rcv_nxt
           took == [acked EXCEPT
                       !.rcv_nxt = IF inOrder THEN Plus(m.seq_num, Span(m)) ELSE @,
                       !.answers = IF inOrder /\ m.payload # <<>> THEN @ + 1 ELSE @]
           ackOf == PeerSeg(p, took.snd_nxt, took.rcv_nxt, FALSE, FALSE, TRUE, <<>>)
           finOf == PeerSeg(p, took.snd_nxt, took.rcv_nxt, FALSE, TRUE, TRUE, <<>>)
           gone == left = <<>>
<1>1. /\ s2c[p] # <<>> /\ s2c' = [s2c EXCEPT ![p] = Tail(@)]
      /\ \/ /\ peer[p].st = "syn_sent" /\ m.syn
            /\ peer' = [peer EXCEPT ![p] = [took EXCEPT !.st = "established"]]
            /\ Put(p, ackOf)
         \/ /\ peer[p].st \in {"established", "fin_sent", "last_ack"}
            /\ ~m.fin \/ ~inOrder
            /\ peer' = [peer EXCEPT ![p] =
                           [took EXCEPT !.st = IF @ = "last_ack" /\ gone
                                               THEN "done" ELSE @]]
            /\ IF Span(m) > 0 THEN Put(p, ackOf) ELSE UNCHANGED c2s
         \/ /\ peer[p].st = "established" /\ m.fin /\ inOrder
            /\ PutKept(p, finOf, 1, [took EXCEPT !.st = "last_ack"])
         \/ /\ peer[p].st = "fin_sent" /\ m.fin /\ inOrder
            /\ peer' = [peer EXCEPT ![p] = [took EXCEPT !.st = "done"]]
            /\ Put(p, ackOf)
         \/ peer[p].st = "done" /\ UNCHANGED <<peer, c2s>>
  BY DEF PeerReceive
<1>2. /\ s2c[p] \in Seq(Segment) /\ DOMAIN s2c = Peers
      /\ DOMAIN peer = Peers /\ PeerOK(p)
  BY DEF LinkTypeOK
<1>3. /\ m \in Segment /\ Tail(s2c[p]) \in Seq(Segment) /\ m = s2c[p][1]
      /\ 1 \in DOMAIN s2c[p]
      /\ \A i \in DOMAIN Tail(s2c[p]) :
             i + 1 \in DOMAIN s2c[p] /\ Tail(s2c[p])[i] = s2c[p][i + 1]
  <2>1. /\ Len(s2c[p]) \in Nat \ {0} /\ DOMAIN s2c[p] = 1 .. Len(s2c[p])
        /\ DOMAIN Tail(s2c[p]) = 1 .. Len(s2c[p]) - 1
        /\ \A i \in 1 .. Len(s2c[p]) - 1 : Tail(s2c[p])[i] = s2c[p][i + 1]
        /\ m \in Segment /\ Tail(s2c[p]) \in Seq(Segment) /\ m = s2c[p][1]
    BY <1>1, <1>2, HeadTail
  <2> QED BY <2>1
<1>4. /\ s2c' \in [Peers -> Seq(Segment)]
      /\ \A q \in Peers \ {p} : s2c'[q] = s2c[q]
      /\ s2c'[p] = Tail(s2c[p])
  BY <1>1, <1>2, <1>3 DEF LinkTypeOK
<1>5. /\ m.syn => m.payload = <<>>
      /\ \A i \in DOMAIN s2c'[p] : s2c'[p][i].syn => s2c'[p][i].payload = <<>>
  BY <1>3, <1>4 DEF LinkTypeOK
<1>6. Span(m) \in Nat /\ (m.syn \/ m.fin => Span(m) # 0) /\ m.seq_num \in SeqNum
  <2>1. m.payload \in Seq(Bytes) /\ m.seq_num \in SeqNum
    BY <1>3 DEF Segment
  <2> QED BY <2>1, SpanType
<1>7. Plus(m.seq_num, Span(m)) \in SeqNum
  <2>1. m.seq_num \in Nat
    BY <1>6, SeqSpaceAssumption DEF SeqNum
  <2> QED BY <1>6, <2>1, PlusType
<1> HIDE DEF left, bytes, gone, inOrder
<1>8. /\ DOMAIN took = PeerFields /\ took.at = peer[p].at /\ took.st = peer[p].st
      /\ took.snd_nxt = peer[p].snd_nxt /\ took.snd_nxt \in SeqNum
      /\ took.rcv_nxt \in SeqNum /\ took.answers \in Nat
      /\ took.unacked = left /\ took.acked = peer[p].acked + bytes
      /\ took.rcv_nxt = Expects(p, m)
      /\ \/ took.answers = peer[p].answers
         \/ m.payload # <<>> /\ took.answers = peer[p].answers + 1
  <2>1. /\ DOMAIN acked = PeerFields /\ acked.at = peer[p].at /\ acked.st = peer[p].st
        /\ acked.snd_nxt = peer[p].snd_nxt /\ acked.rcv_nxt = peer[p].rcv_nxt
        /\ acked.answers = peer[p].answers
        /\ acked.unacked = left /\ acked.acked = peer[p].acked + bytes
    BY <1>2 DEF PeerOK, PeerFields
  <2> HIDE DEF acked
  <2>2. /\ DOMAIN took = PeerFields /\ took.at = acked.at /\ took.st = acked.st
        /\ took.snd_nxt = acked.snd_nxt
        /\ took.unacked = acked.unacked /\ took.acked = acked.acked
        /\ took.rcv_nxt = IF inOrder THEN Plus(m.seq_num, Span(m)) ELSE acked.rcv_nxt
        /\ took.answers = IF inOrder /\ m.payload # <<>>
                          THEN acked.answers + 1 ELSE acked.answers
    BY <2>1 DEF PeerFields
  <2> HIDE DEF took
  <2>3. took.rcv_nxt = Expects(p, m)
    BY <2>1, <2>2 DEF Expects, inOrder
  <2> QED BY <1>2, <1>7, <2>1, <2>2, <2>3 DEF PeerOK
<1>9. /\ ackOf \in PeerSegment /\ From(ackOf, p) /\ ~ackOf.syn
      /\ finOf \in PeerSegment /\ From(finOf, p) /\ ~finOf.syn
  <2>1. <<>> \in Seq(Peers \X Nat)
    OBVIOUS
  <2>2. /\ ackOf \in PeerSegment /\ From(ackOf, p)
        /\ finOf \in PeerSegment /\ From(finOf, p)
    BY <1>8, <2>1, PeerSegType
  <2> QED BY <2>2 DEF PeerSeg
<1>10. Put(p, ackOf) => Acknowledges(p)
  BY <1>8 DEF Acknowledges
<1> HIDE DEF took, m
<1>11. ASSUME NEW st, peer' = [peer EXCEPT ![p] = [took EXCEPT !.st = st]]
       PROVE  /\ DOMAIN peer' = Peers /\ DOMAIN peer'[p] = PeerFields
              /\ \A q \in Peers \ {p} : peer'[q] = peer[q]
              /\ peer'[p].st = st /\ peer'[p].at = peer[p].at
              /\ peer'[p].snd_nxt = peer[p].snd_nxt
              /\ peer'[p].snd_nxt \in SeqNum /\ peer'[p].rcv_nxt \in SeqNum
              /\ peer'[p].rcv_nxt = Expects(p, m)
              /\ peer'[p].answers \in Nat /\ Drops(p, m)
              /\ \/ peer'[p].answers = peer[p].answers
                 \/ m.payload # <<>> /\ peer'[p].answers = peer[p].answers + 1
  <2> DEFINE x == [took EXCEPT !.st = st]
  <2>1. /\ DOMAIN x = PeerFields /\ x.st = st /\ x.at = took.at
        /\ x.snd_nxt = took.snd_nxt /\ x.rcv_nxt = took.rcv_nxt
        /\ x.answers = took.answers /\ x.unacked = took.unacked /\ x.acked = took.acked
    BY <1>8 DEF PeerFields
  <2> HIDE DEF x
  <2>2. peer'[p] = x /\ DOMAIN peer' = Peers /\ \A q \in Peers \ {p} : peer'[q] = peer[q]
    BY <1>2, <1>11 DEF x
  <2>3. Drops(p, m)
    <3>1. left = Left(p, m) /\ bytes = AckedBytes(peer[p].unacked, Left(p, m))
      BY DEF left, bytes, Left
    <3> QED BY <1>8, <2>1, <2>2, <3>1 DEF Drops
  <2> QED BY <1>8, <2>1, <2>2, <2>3
<1>12. CASE /\ peer[p].st = "syn_sent" /\ m.syn
            /\ peer' = [peer EXCEPT ![p] = [took EXCEPT !.st = "established"]]
            /\ Put(p, ackOf)
  <2>1. Handshakes(p, m)
    BY <1>10, <1>11, <1>12 DEF Handshakes
  <2>2. Received(p, m)
    BY <1>1, <1>3, <1>4, <1>5, <1>11, <1>12 DEF Received, m
  <2> QED BY <1>4, <1>5, <1>11, <1>12, <2>1, <2>2 DEF m
<1>13. CASE /\ peer[p].st \in {"established", "fin_sent", "last_ack"}
            /\ peer' = [peer EXCEPT ![p] =
                           [took EXCEPT !.st = IF @ = "last_ack" /\ gone
                                               THEN "done" ELSE @]]
            /\ IF Span(m) > 0 THEN Put(p, ackOf) ELSE UNCHANGED c2s
  <2> DEFINE st == IF took.st = "last_ack" /\ gone THEN "done" ELSE took.st
  <2>1. peer' = [peer EXCEPT ![p] = [took EXCEPT !.st = st]]
    BY <1>13
  <2>2. st = peer[p].st \/ (peer[p].st = "last_ack" /\ st = "done")
    BY <1>8
  <2> HIDE DEF st
  <2>3. Answers(p, m)
    <3> DEFINE n == Span(m)
    <3>1. n \in Nat /\ IF n > 0 THEN Put(p, ackOf) ELSE c2s' = c2s
      BY <1>6, <1>13
    <3> HIDE DEF n, ackOf
    <3>2. (n # 0 /\ Put(p, ackOf)) \/ (n = 0 /\ c2s' = c2s)
      BY <3>1
    <3> QED BY <1>10, <3>2 DEF Answers, n
  <2>4. Takes(p, m)
    BY <1>11, <1>13, <2>1, <2>2, <2>3 DEF Takes
  <2>5. Received(p, m)
    BY <1>1, <1>3, <1>4, <1>5, <1>11, <2>1 DEF Received, m
  <2> QED BY <1>4, <1>5, <1>11, <2>1, <2>4, <2>5 DEF m
<1>14. CASE /\ peer[p].st = "established" /\ m.fin
            /\ PutKept(p, finOf, 1, [took EXCEPT !.st = "last_ack"])
  <2> DEFINE x == [took EXCEPT !.st = "last_ack"]
  <2>1. /\ DOMAIN x = PeerFields /\ x.st = "last_ack" /\ x.at = took.at
        /\ x.snd_nxt = took.snd_nxt /\ x.rcv_nxt = took.rcv_nxt
        /\ x.answers = took.answers /\ x.unacked = took.unacked
    BY <1>8 DEF PeerFields
  <2>2. PutKept(p, finOf, 1, x)
    BY <1>14
  <2> HIDE DEF x, finOf
  <2>3. /\ Put(p, finOf) /\ DOMAIN peer' = Peers /\ DOMAIN peer'[p] = PeerFields
        /\ \A q \in Peers \ {p} : peer'[q] = peer[q]
        /\ peer'[p].st = "last_ack" /\ peer'[p].at = took.at
        /\ peer'[p].answers = took.answers /\ peer'[p].rcv_nxt = took.rcv_nxt
        /\ peer'[p].snd_nxt = Plus(took.snd_nxt, 1)
        /\ peer'[p].unacked = Append(took.unacked, finOf)
    BY <2>1, <2>2, PutKeptType
  <2>4. Plus(took.snd_nxt, 1) \in SeqNum
    BY <1>8, SeqNext
  <2>5. Ends(p, m)
    <3>1. took.unacked = Left(p, m)
      BY <1>8 DEF left, Left
    <3> QED BY <1>9, <1>14, <2>3, <3>1 DEF Ends, finOf
  <2>6. Received(p, m)
    BY <1>1, <1>3, <1>4, <1>5, <1>8, <2>3 DEF Received, m
  <2> QED BY <1>4, <1>5, <1>8, <2>3, <2>4, <2>5, <2>6 DEF m
<1>15. CASE /\ peer[p].st = "fin_sent" /\ m.fin
            /\ peer' = [peer EXCEPT ![p] = [took EXCEPT !.st = "done"]]
            /\ Put(p, ackOf)
  <2>1. Ends(p, m)
    BY <1>9, <1>11, <1>15 DEF Ends
  <2>2. Received(p, m)
    BY <1>1, <1>3, <1>4, <1>5, <1>11, <1>15 DEF Received, m
  <2> QED BY <1>4, <1>5, <1>11, <1>15, <2>1, <2>2 DEF m
<1>16. CASE peer[p].st = "done" /\ UNCHANGED <<peer, c2s>>
  <2>1. Over(p)
    BY <1>16 DEF Over
  <2>2. Received(p, m)
    BY <1>1, <1>3, <1>4, <1>5, <1>16 DEF Received, m
  <2> QED BY <1>2, <1>4, <1>5, <1>16, <2>1, <2>2 DEF m, PeerOK
<1> QED BY <1>1, <1>12, <1>13, <1>14, <1>15, <1>16

\* While the socket still takes what its peer sends, the peer has not seen a
\* FIN: the connection is being opened, or only the peer closes.
LEMMA ReceivingFrom ==
    ASSUME LinkInv, NEW s \in Sockets, NEW p \in Peers, Conn(s, p), Receiving(s)
    PROVE  /\ peer[p].st \in {"syn_sent", "established", "fin_sent"}
           /\ Single(p)
           /\ peer[p].st = "fin_sent" => Quiet(p)
<1>1. TypeOK /\ LinkTypeOK /\ ConnInv(s, p)
  BY DEF LinkInv, ConnectionsInv
<1>2. PICK r \in 0 .. Len(Script[p]), d \in 0 .. Len(Script[p]) : Flow(s, p, r, d)
  BY <1>1 DEF ConnInv
<1>3. CASE Lossy
  <2>1. Quiet(p) \/ Outstanding(p, r, d)
    BY <1>2, <1>3 DEF Flow, LossyFlow
  <2>2. peer[p].st \in {"syn_sent", "established", "fin_sent"}
    BY <1>2, <1>3 DEF Flow, LossyFlow, Window
  <2>3. Quiet(p) => Single(p)
    BY <1>1, QuietNoFin
  <2> QED BY <2>1, <2>2, <2>3 DEF Outstanding
<1>4. CASE ~Lossy
  <2>1. Waiting(p, r, d) \/ Acked(p, r, d) \/ Opened(p, d)
    BY <1>2, <1>4 DEF Flow, KeptFlow, Receiving
  <2>2. CASE Waiting(p, r, d)
    BY <2>2 DEF Waiting, Outstanding
  <2>3. CASE Acked(p, r, d) \/ Opened(p, d)
    BY <1>1, <2>3, QuietNoFin DEF Acked, Opened, Rest
  <2> QED BY <2>1, <2>2, <2>3
<1> QED BY <1>3, <1>4

\* A sequence of one element.
LEMMA One ==
    ASSUME NEW S, NEW q \in Seq(S), Len(q) = 1
    PROVE  q = <<q[1]>> /\ q[1] \in S
<1> DEFINE x == q[1]
<1>1. Len(q) \in Nat /\ 1 \in 1 .. Len(q) /\ x \in S
  OBVIOUS
<1>2. <<x>> \in Seq(S) /\ Len(<<x>>) = 1 /\ <<x>>[1] = x
  BY <1>1
<1> HIDE DEF x
<1>3. \A i \in 1 .. Len(q) : q[i] = <<x>>[i]
  <2>1. \A i \in 1 .. Len(q) : i = 1
    OBVIOUS
  <2> QED BY <1>2, <2>1 DEF x
<1>4. q = <<x>>
  BY <1>2, <1>3, SeqEqual
<1> QED BY <1>1, <1>4 DEF x

\* What a peer with its FIN, or nothing, to be acknowledged keeps.
LEMMA FinStays ==
    ASSUME NEW p \in Peers, NEW m, Drops(p, m), FinLeft(p), PeerOK(p),
           peer[p].unacked \in Seq(PeerSegment), peer'[p].at = peer[p].at
    PROVE  FinLeft(p)'
<1> DEFINE u == peer[p].unacked
           x == u[1]
<1>1. peer[p].acked = StreamLength(p, peer[p].at) /\ peer[p].acked \in Nat
  BY StreamStep DEF FinLeft, PeerOK
<1>2. CASE u = <<>>
  <2>1. Left(p, m) = <<>> /\ AckedBytes(u, Left(p, m)) = 0
    BY <1>2, StillOne DEF Left
  <2>2. peer'[p].unacked = <<>> /\ peer'[p].acked = peer[p].acked
    BY <1>1, <2>1 DEF Drops
  <2> QED BY <1>1, <2>2 DEF FinLeft
<1>3. CASE Len(u) = 1 /\ IsFin(x)
  <2>1. u = <<x>>
    BY <1>3, One
  <2>2. Len(x.payload) = 0 /\ 0 \in Nat
    <3>1. x.payload = <<>>
      BY <1>3 DEF IsFin
    <3> QED BY <3>1
  <2> HIDE DEF x
  <2>3. \/ Left(p, m) = <<>> /\ AckedBytes(u, Left(p, m)) = 0
        \/ Left(p, m) = u /\ AckedBytes(u, Left(p, m)) = 0
    BY <2>1, <2>2, StillOne DEF Left
  <2>4. /\ peer'[p].unacked = <<>> \/ peer'[p].unacked = u
        /\ peer'[p].acked = peer[p].acked
    <3>1. peer[p].acked + 0 = peer[p].acked
      BY <1>1
    <3> QED BY <2>3, <3>1 DEF Drops
  <2> QED BY <1>1, <1>3, <2>4 DEF FinLeft, x
<1> QED BY <1>2, <1>3 DEF FinLeft

\* A peer that is opening, or has sent a segment of its stream, when the
\* endpoint's segment arrives.
LEMMA WindowTaken ==
    ASSUME PolitePeers, Lossy, NEW p \in Peers, PeerOK(p), PeerInv(p), NEW m, Drops(p, m),
           peer'[p].at = peer[p].at, NEW d \in 0 .. Len(Script[p]), d <= peer[p].at,
           Covers(m, p, d)
    PROVE  /\ peer[p].st = "syn_sent" /\ d = peer[p].at => AllLeft(p, d)'
           /\ AllLeft(p, d) => AllLeft(p, d)'
           /\ PieceLeft(p) => PieceLeft(p)' \/ (AllLeft(p, d)' /\ peer[p].at = d)
<1> DEFINE u == peer[p].unacked
           at == peer[p].at
           x == u[1]
<1>1. PICK k \in 0 .. d : m.ack_num = Num(p, StreamLength(p, k))
  BY DEF Covers
<1>2. /\ at \in 0 .. Len(Script[p]) /\ k \in 0 .. Len(Script[p]) /\ Len(Script[p]) \in Nat
      /\ StreamLength(p, at) \in Nat
  BY ScriptType, StreamStep DEF PeerOK
<1>3. ASSUME peer[p].st = "syn_sent", d = at PROVE AllLeft(p, d)'
  <2>1. u = <<SynOf(p)>> /\ at = 0 /\ peer[p].acked = 0
    BY <1>3 DEF PeerInv
  <2>2. k = 0 /\ StreamLength(p, 0) = 0
    BY <1>3, <2>1, StreamStep
  <2>3. Plus(SynOf(p).seq_num, Span(SynOf(p))) = m.ack_num
    <3>1. Plus(Isn[p], 1) = Num(p, 0) /\ m.ack_num = Num(p, 0)
      BY <1>1, <2>2, NumStep
    <3>2. Span(SynOf(p)) = 1 /\ SynOf(p).seq_num = Isn[p]
      <4>1. Len(<<>>) = 0
        OBVIOUS
      <4> QED BY <4>1 DEF SynOf, PeerSeg, Span
    <3> QED BY <3>1, <3>2
  <2>4. Len(SynOf(p).payload) = 0
    <3>1. SynOf(p).payload = <<>>
      BY DEF SynOf, PeerSeg
    <3> QED BY <3>1
  <2>5. Left(p, m) = <<>> /\ AckedBytes(u, Left(p, m)) = 0
    BY <2>1, <2>3, <2>4, StillOne DEF Left
  <2>6. peer'[p].unacked = <<>> /\ peer'[p].acked = 0
    BY <2>1, <2>5 DEF Drops
  <2> QED BY <1>3, <2>1, <2>2, <2>6 DEF AllLeft
<1>4. ASSUME AllLeft(p, d) PROVE AllLeft(p, d)'
  <2>1. u = <<>> /\ at = d /\ peer[p].acked = StreamLength(p, at)
    BY <1>4 DEF AllLeft
  <2>2. Left(p, m) = <<>> /\ AckedBytes(u, Left(p, m)) = 0
    BY <2>1, StillOne DEF Left
  <2>3. peer'[p].unacked = <<>> /\ peer'[p].acked = peer[p].acked
    BY <1>2, <2>1, <2>2 DEF Drops
  <2> QED BY <2>1, <2>3 DEF AllLeft
<1>5. ASSUME PieceLeft(p) PROVE PieceLeft(p)' \/ (AllLeft(p, d)' /\ at = d)
  <2> DEFINE a == StreamLength(p, at - 1)
             l == Len(Piece(p, at))
  <2>1. /\ at \in 1 .. Len(Script[p]) /\ at - 1 \in 0 .. Len(Script[p])
        /\ Len(u) = 1 /\ IsPiece(x, p, at) /\ peer[p].acked = a
    BY <1>2, <1>5 DEF PieceLeft
  <2>2. u = <<x>>
    BY <2>1, One DEF PeerInv
  <2>3. /\ Len(x.payload) = l /\ x.seq_num = Num(p, a) /\ ~x.syn /\ ~x.fin
    BY <2>1 DEF IsPiece, IsAck
  <2>4. l \in Nat /\ a \in Nat /\ a + l = StreamLength(p, at)
    BY <2>1, PieceType, StreamStep, ScriptType
  <2>5. Plus(x.seq_num, Span(x)) = Num(p, StreamLength(p, at))
    <3>1. Span(x) = l
      BY <2>3, <2>4 DEF Span
    <3> HIDE DEF l, a
    <3>2. Plus(Num(p, a), l) = Num(p, a + l)
      BY <2>4, NumStep
    <3> QED BY <2>3, <2>4, <3>1, <3>2
  <2> HIDE DEF x, l, a
  <2>6. CASE m.ack_num = Num(p, StreamLength(p, at))
    <3>1. k = at
      <4>1. k < at => Num(p, StreamLength(p, k)) + 2 <= Num(p, StreamLength(p, at))
        BY <1>2, Numbers
      <4>2. Num(p, StreamLength(p, at)) \in Nat
        BY <1>2, Numbers
      <4>3. k <= at
        BY <1>2
      <4> QED BY <1>1, <1>2, <2>6, <4>1, <4>2, <4>3
    <3>2. d = at
      BY <1>2, <3>1
    <3>3. Left(p, m) = <<>> /\ AckedBytes(u, Left(p, m)) = l
      BY <2>2, <2>3, <2>4, <2>5, <2>6, StillOne DEF Left
    <3>4. peer'[p].unacked = <<>> /\ peer'[p].acked = StreamLength(p, at)
      BY <2>1, <2>4, <3>3 DEF Drops
    <3> QED BY <3>2, <3>4 DEF AllLeft
  <2>7. CASE m.ack_num # Num(p, StreamLength(p, at))
    <3>1. Left(p, m) = u /\ AckedBytes(u, Left(p, m)) = 0
      BY <2>2, <2>5, <2>7, StillOne DEF Left
    <3>2. peer'[p].unacked = u /\ peer'[p].acked = peer[p].acked
      BY <2>1, <2>4, <3>1 DEF Drops
    <3> QED BY <1>5, <3>2 DEF PieceLeft
  <2> QED BY <2>6, <2>7
<1> QED BY <1>3, <1>4, <1>5

\* What is on its way when a segment arrives at a peer, on a network that loses
\* some.
LEMMA LossyReceives ==
    ASSUME TypeOK, LinkTypeOK, PolitePeers, Lossy, NEW s \in Sockets, NEW p \in Peers,
           PeerOK(p), PeerInv(p), UNCHANGED <<vars, got>>,
           NEW m, m = Head(s2c[p]), Received(p, m), Drops(p, m), Answers(p, m),
           peer'[p].snd_nxt = peer[p].snd_nxt,
           \/ peer[p].st = "syn_sent" /\ m.syn
           \/ peer[p].st # "syn_sent" /\ peer'[p].st = peer[p].st,
           peer[p].st = "syn_sent" => peer'[p].st = "established",
           NEW r \in 0 .. Len(Script[p]), NEW d \in 0 .. Len(Script[p]), d <= peer[p].at,
           LossyFlow(s, p, r, d)
    PROVE  LossyFlow(s, p, r, d)'
<1>1. /\ state_' = state_ /\ txq' = txq
  BY DEF vars, control
<1>2. /\ Span(m) \in Nat /\ (m.syn => Span(m) # 0)
      /\ (m.payload # <<>> => Span(m) # 0)
  <2>1. m.payload \in Seq(Bytes)
    BY DEF Received, Segment
  <2> QED BY <2>1, SpanType
<1>3. /\ Quiet(p) => Quiet(p)' /\ Span(m) = 0
      /\ Single(p) => Single(p)'
      /\ Single(p) /\ Span(m) # 0 => Quiet(p)'
      /\ Numbered(p, d)' /\ Covers(m, p, d)
      /\ peer'[p].at = peer[p].at
  BY <1>1, TransitTaken DEF Received, LossyFlow
<1>4. /\ Quiet(p) \/ Outstanding(p, r, d)
      /\ OnTheWay(p, d) /\ Window(p, d)
  BY DEF LossyFlow
<1>5. Span(m) = 0 => /\ c2s' = c2s /\ peer'[p].st = peer[p].st
                     /\ peer'[p].answers = peer[p].answers
  BY <1>2 DEF Answers, Received
<1>6. Quiet(p)' \/ Outstanding(p, r, d)'
  <2>1. CASE Quiet(p)
    BY <1>3, <2>1
  <2>2. CASE Outstanding(p, r, d) /\ Span(m) # 0
    BY <1>3, <2>2 DEF Outstanding
  <2>3. CASE Outstanding(p, r, d) /\ Span(m) = 0
    BY <1>3, <1>5, <2>3 DEF Outstanding
  <2> QED BY <1>4, <2>1, <2>2, <2>3
<1>7. OnTheWay(p, d)'
  <2>1. peer[p].st = "fin_sent" => peer'[p].st = "fin_sent"
    OBVIOUS
  <2>2. \A x : Known(x, p, d) => Known(x, p, d)'
    BY <1>3, <2>1 DEF Known
  <2>3. CASE Span(m) = 0
    BY <1>4, <1>5, <2>2, <2>3 DEF OnTheWay
  <2>4. CASE Span(m) # 0
    <3>1. Outstanding(p, r, d)
      BY <1>3, <1>4, <2>4
    <3>2. PICK a \in SeqNum :
              Put(p, PeerSeg(p, peer[p].snd_nxt, a, FALSE, FALSE, TRUE, <<>>))
      BY <2>4 DEF Answers, Acknowledges
    <3>9. PICK seg : seg = PeerSeg(p, peer[p].snd_nxt, a, FALSE, FALSE, TRUE, <<>>)
      OBVIOUS
    <3>3. d = peer[p].at /\ peer[p].st \in {"syn_sent", "established"}
      BY <3>1 DEF Outstanding
    <3>4. peer[p].snd_nxt = Num(p, StreamLength(p, d))
      BY <3>3 DEF PeerInv
    <3>5. d \in 0 .. d
      BY ScriptType
    <3>6. Known(seg, p, d)'
      <4>1. IsAck(seg, Num(p, StreamLength(p, d))) /\ seg.payload = <<>>
        BY <3>4, <3>9 DEF IsAck, PeerSeg
      <4> QED BY <3>5, <4>1 DEF Known
    <3>7. seg \in PeerSegment
      <4>1. <<>> \in Seq(Peers \X Nat) /\ peer[p].snd_nxt \in SeqNum
        BY DEF PeerOK
      <4> QED BY <3>9, <4>1, PeerSegType
    <3>8. \A i \in DOMAIN c2s'[p] :
              c2s'[p][i] = seg \/ (i \in DOMAIN c2s[p] /\ c2s'[p][i] = c2s[p][i])
      BY <3>2, <3>7, <3>9, PutType
    <3> QED BY <1>4, <2>2, <3>6, <3>8 DEF OnTheWay
  <2> QED BY <2>3, <2>4
<1>8. Window(p, d)'
  <2>1. /\ peer[p].st = "syn_sent" /\ d = peer[p].at => AllLeft(p, d)'
        /\ AllLeft(p, d) => AllLeft(p, d)'
        /\ PieceLeft(p) => PieceLeft(p)' \/ AllLeft(p, d)'
    BY <1>3, WindowTaken
  <2>2. CASE peer[p].st = "syn_sent"
    <3>1. d = peer[p].at /\ peer'[p].st = "established"
      BY <1>2, <1>3, <1>4, <2>2 DEF Outstanding
    <3> QED BY <1>3, <1>4, <2>1, <2>2, <3>1 DEF Window
  <2>3. CASE peer[p].st = "established"
    BY <1>3, <1>4, <2>1, <2>3 DEF Window
  <2>4. CASE peer[p].st = "fin_sent"
    <3>1. Span(m) = 0
      BY <1>3, <1>4, <2>4 DEF Outstanding
    <3>2. FinLeft(p)
      BY <1>4, <2>4 DEF Window
    <3>3. FinLeft(p)'
      BY <1>3, <3>2, FinStays DEF PeerInv
    <3> QED BY <1>3, <1>4, <1>5, <2>4, <3>1, <3>3 DEF Window
  <2> QED BY <1>4, <2>2, <2>3, <2>4 DEF Window
<1> QED BY <1>1, <1>3, <1>6, <1>7, <1>8 DEF LossyFlow

\* The peer of a socket that still receives takes a SYN-ACK, an answer or an
\* acknowledgement.
LEMMA ConnReceives ==
    ASSUME LinkInv, PolitePeers, NEW s \in Sockets, NEW p \in Peers, Conn(s, p), Receiving(s),
           UNCHANGED <<vars, got>>, NEW m, m = Head(s2c[p]), Received(p, m),
           PeerOK(p)', peer'[p].snd_nxt = peer[p].snd_nxt,
           \/ peer[p].st = "syn_sent" /\ m.syn
           \/ peer[p].st # "syn_sent" /\ peer'[p].st = peer[p].st,
           peer[p].st = "syn_sent" => peer'[p].st = "established",
           Answers(p, m), Drops(p, m)
    PROVE  ConnInv(s, p)'
<1>1. /\ TypeOK /\ LinkTypeOK /\ PeerOK(p) /\ PeerInv(p) /\ ConnInv(s, p)
      /\ Span(m) \in Nat /\ (m.syn => Span(m) # 0)
      /\ (m.payload # <<>> => Span(m) # 0)
  <2>1. m.payload \in Seq(Bytes)
    BY DEF Received, Segment
  <2> QED BY <2>1, SpanType DEF LinkInv, ConnectionsInv, LinkTypeOK
<1>2. PICK r \in 0 .. Len(Script[p]), e \in 0 .. Len(Script[p]), d \in 0 .. Len(Script[p]) :
          /\ Facts(s, p, r, e, d)
          /\ Flow(s, p, r, d)
          /\ Passive(s) => Ended(p, r, e, d)
  BY <1>1 DEF ConnInv
<1>3. /\ state_' = state_ /\ next_state_' = next_state_ /\ in_seq_' = in_seq_
      /\ recv_queue_' = recv_queue_ /\ disp' = disp /\ txq' = txq /\ got' = got
  BY DEF vars, control, numbers
<1>4. /\ Quiet(p) => Quiet(p)' /\ Span(m) = 0
      /\ Single(p) => Single(p)'
      /\ Single(p) /\ Span(m) # 0 => Quiet(p)'
      /\ peer'[p].at = peer[p].at
  BY <1>1, <1>3, TransitTaken DEF Received
<1>5. Facts(s, p, r, e, d)'
  <2>1. Holding(s)' <=> Holding(s)
    BY <1>3 DEF Holding
  <2> QED BY <1>2, <1>3, <1>4, <2>1 DEF Facts
<1>6. Requests(p, peer'[p].at - 1) <= peer'[p].answers
      /\ peer'[p].answers <= Requests(p, r)
  <2> DEFINE x == peer[p].answers
             y == peer'[p].answers
             low == Requests(p, peer[p].at - 1)
             high == Requests(p, r)
  <2>1. low <= x /\ x <= high /\ x \in Nat
    BY <1>1, <1>2 DEF Flow, PeerOK
  <2>2. low \in Nat /\ high \in Nat
    <3> DEFINE at == peer[p].at
    <3>1. at \in 0 .. Len(Script[p]) /\ Len(Script[p]) \in Nat
      BY <1>1, ScriptType DEF PeerOK
    <3> HIDE DEF at
    <3>2. at = 0 \/ at - 1 \in 0 .. Len(Script[p])
      BY <3>1
    <3>3. Requests(p, at - 1) \in Nat
      BY <3>2, RequestsStep
    <3> QED BY <3>3, RequestsStep DEF at
  <2>3. y = x \/ (y = x + 1 /\ x < high)
    <3>1. CASE m.payload = <<>>
      BY <3>1 DEF Received
    <3>2. CASE m.payload # <<>>
      <4>1. Outstanding(p, r, d) /\ ~m.syn
        BY <1>1, <1>2, <1>4, <3>2, FlowSays DEF Received
      <4>2. x < high
        BY <4>1 DEF Outstanding
      <4> QED BY <4>2 DEF Received
    <3> QED BY <3>1, <3>2
  <2>4. low = Requests(p, peer'[p].at - 1)
    BY <1>4
  <2> HIDE DEF x, y, low, high
  <2>5. low <= y /\ y <= high
    BY <2>1, <2>2, <2>3
  <2> QED BY <2>4, <2>5 DEF y, high
<1>7. ASSUME ~Lossy PROVE KeptFlow(s, p, r, d)'
  <2>0. KeptFlow(s, p, r, d)
    BY <1>2, <1>7 DEF Flow
  <2>1. CASE Span(m) = 0
    <3>1. /\ c2s' = c2s /\ peer'[p].answers = peer[p].answers
          /\ peer'[p].st = peer[p].st
      BY <1>1, <2>1 DEF Answers, Received
    <3>2. Waiting(p, r, d) => Waiting(p, r, d)'
      BY <1>4, <3>1 DEF Waiting, Outstanding
    <3>3. \A a \in {0, 1} : Rest(p, a, d) => Rest(p, a, d)'
      BY <1>4, <3>1 DEF Rest
    <3>4. Acked(p, r, d) => Acked(p, r, d)'
      BY <1>4, <3>1, <3>3 DEF Acked
    <3>5. Opened(p, d) => Opened(p, d)'
      BY <1>4, <3>3 DEF Opened
    <3> QED BY <1>3, <2>0, <3>2, <3>4, <3>5 DEF KeptFlow
  <2>2. CASE Span(m) # 0
    <3>1. state_[s] = "want_ack" /\ Waiting(p, r, d)
      BY <1>4, <2>0, <2>2 DEF KeptFlow, Receiving, Acked, Opened
    <3>2. /\ c2s[p] = <<>> /\ Single(p) /\ r = d /\ d = peer[p].at
          /\ peer'[p].st = "established"
          /\ peer[p].st \in {"syn_sent", "established"}
      BY <3>1 DEF Waiting, Outstanding
    <3>3. Quiet(p)'
      BY <1>4, <2>2, <3>2
    <3>4. PICK a \in SeqNum :
              Put(p, PeerSeg(p, peer[p].snd_nxt, a, FALSE, FALSE, TRUE, <<>>))
      BY <2>2 DEF Answers, Acknowledges
    <3> DEFINE seg == PeerSeg(p, peer[p].snd_nxt, a, FALSE, FALSE, TRUE, <<>>)
    <3>5. peer[p].snd_nxt = Num(p, StreamLength(p, d))
      BY <1>1, <3>2 DEF PeerInv
    <3>6. IsAck(seg, Num(p, StreamLength(p, d)))
      BY <3>5 DEF IsAck, PeerSeg
    <3>7. Len(c2s'[p]) = 1 /\ c2s'[p][1] = seg
      <4>1. c2s'[p] = Append(c2s[p], seg)
        BY <1>1, <3>4 DEF Put, LinkTypeOK
      <4> HIDE DEF seg
      <4> QED BY <3>2, <4>1
    <3> HIDE DEF seg
    <3>8. Rest(p, 1, d)'
      <4>1. d \in Nat /\ peer'[p].at = d
        BY <1>1, <1>4, <3>2, ScriptType DEF PeerOK
      <4>2. d - d = 0 /\ 1 .. 0 = {} /\ 1 + 0 = 1
        BY <4>1
      <4> QED BY <3>2, <3>7, <4>1, <4>2 DEF Rest
    <3>9. Acked(p, r, d)'
      BY <3>2, <3>3, <3>6, <3>7, <3>8 DEF Acked
    <3> QED BY <1>3, <3>1, <3>9 DEF KeptFlow
  <2> QED BY <1>1, <2>1, <2>2
<1>8. ASSUME Lossy PROVE LossyFlow(s, p, r, d)'
  <2>1. LossyFlow(s, p, r, d) /\ d <= peer[p].at
    BY <1>2, <1>8 DEF Flow, Facts
  <2> QED BY <1>1, <1>8, <2>1, LossyReceives
<1>9. Flow(s, p, r, d)'
  BY <1>2, <1>3, <1>6, <1>7, <1>8 DEF Flow, Lossy
<1>10. Passive(s)' <=> Passive(s)
  BY <1>3 DEF Passive
<1>11. Passive(s) => ~Receiving(s)
  BY DEF Passive, Receiving
<1> QED BY <1>2, <1>5, <1>9, <1>10, <1>11 DEF ConnInv

\* A peer that has got its SYN-ACK has no SYN left.
LEMMA LossyOpens ==
    ASSUME LinkInv, UNCHANGED <<vars, got>>, Lossy, NEW p \in Peers, PeerOK(p), PeerInv(p),
           ~NoConn(p), peer[p].st = "syn_sent", peer'[p].at = peer[p].at,
           peer'[p].st = "established",
           \A s \in Sockets : Conn(s, p) => ConnInv(s, p)'
    PROVE  peer'[p].unacked = <<>>
<1>1. PICK s \in Sockets : Conn(s, p)
  BY DEF NoConn
<1>2. own[s] = "listen" /\ OwnerInv(s)
  BY <1>1 DEF PeerInv, LinkInv, ActorsAgree
<1>3. Receiving(s)'
  <2>1. state_' = state_ /\ next_state_' = next_state_
    BY DEF vars, control
  <2> QED BY <1>1, <1>2, <2>1 DEF OwnerInv, Conn, Receiving, Working
<1>4. PICK d \in 0 .. Len(Script[p]) : Window(p, d)'
  <2>1. ConnInv(s, p)' /\ Lossy'
    BY <1>1 DEF Lossy
  <2> QED BY <1>3, <2>1 DEF ConnInv, Flow, LossyFlow
<1>5. peer'[p].at = 0
  BY DEF PeerInv
<1> QED BY <1>4, <1>5 DEF Window, AllLeft, PieceLeft

\* A segment of the endpoint arrives at a peer.
LEMMA LinkPeerReceive ==
    ASSUME LinkInv, PolitePeers, NEW p \in Peers, PeerReceive(p), UNCHANGED <<vars, got>>
    PROVE  ConnectionsInv'
<1>1. TypeOK /\ LinkTypeOK /\ PeerOK(p) /\ PeerInv(p)
  BY DEF LinkInv, ConnectionsInv, LinkTypeOK
<1>2. PICK m : m = Head(s2c[p])
  OBVIOUS
<1>3. /\ Received(p, m)
      /\ s2c' \in [Peers -> Seq(Segment)]
      /\ \A q \in Peers \ {p} : s2c'[q] = s2c[q] /\ peer'[q] = peer[q]
      /\ \A i \in DOMAIN s2c'[p] : s2c'[p][i].syn => s2c'[p][i].payload = <<>>
      /\ DOMAIN peer' = Peers /\ DOMAIN peer'[p] = PeerFields
      /\ peer'[p].snd_nxt \in SeqNum /\ peer'[p].rcv_nxt \in SeqNum
      /\ peer'[p].answers \in Nat
      /\ Handshakes(p, m) \/ Takes(p, m) \/ Ends(p, m) \/ Over(p)
  BY <1>1, <1>2, ReceiveShape
<1>4. /\ state_' = state_ /\ next_state_' = next_state_ /\ in_seq_' = in_seq_
      /\ recv_queue_' = recv_queue_ /\ disp' = disp /\ txq' = txq /\ got' = got
      /\ out_port_' = out_port_
  BY DEF vars, control, numbers, address
<1>5. ~NoConn(p) /\ ~NoConn(p)'
  <2>1. ~NoConn(p)
    BY <1>1, <1>3 DEF PeerInv, Nothing, Received
  <2> QED BY <1>4, <2>1 DEF NoConn, Conn
<1>6. /\ peer'[p].st \in {"established", "fin_sent", "last_ack", "done"}
      /\ peer'[p].at = peer[p].at
  BY <1>3 DEF Handshakes, Takes, Ends, Over, Received
<1>7. PeerOK(p)'
  BY <1>1, <1>3, <1>6 DEF PeerOK, PeerStates
<1>8. \/ c2s' = c2s
      \/ \E seg \in PeerSegment : From(seg, p) /\ ~seg.syn /\ Put(p, seg)
  <2>1. Acknowledges(p) =>
            \E seg \in PeerSegment : From(seg, p) /\ ~seg.syn /\ Put(p, seg)
    <3> SUFFICES ASSUME NEW a \in SeqNum,
                        Put(p, PeerSeg(p, peer[p].snd_nxt, a, FALSE, FALSE, TRUE, <<>>))
                 PROVE  \E seg \in PeerSegment : From(seg, p) /\ ~seg.syn /\ Put(p, seg)
      BY DEF Acknowledges
    <3> DEFINE seg == PeerSeg(p, peer[p].snd_nxt, a, FALSE, FALSE, TRUE, <<>>)
    <3>1. peer[p].snd_nxt \in SeqNum /\ <<>> \in Seq(Peers \X Nat)
      BY <1>1 DEF PeerOK
    <3>2. seg \in PeerSegment /\ From(seg, p)
      BY <3>1, PeerSegType
    <3>3. ~seg.syn
      BY DEF PeerSeg
    <3> QED BY <3>2, <3>3
  <2> QED BY <1>3, <2>1 DEF Handshakes, Takes, Answers, Ends, Over
<1>9. /\ c2s' \in [Peers -> Seq(PeerSegment)]
      /\ \A q \in Peers \ {p} : c2s'[q] = c2s[q]
      /\ \A i \in DOMAIN c2s'[p] :
             \/ From(c2s'[p][i], p) /\ ~c2s'[p][i].syn
             \/ i \in DOMAIN c2s[p] /\ c2s'[p][i] = c2s[p][i]
  <2>1. CASE c2s' = c2s
    BY <1>1, <2>1 DEF LinkTypeOK
  <2>2. ASSUME NEW seg \in PeerSegment, From(seg, p), ~seg.syn, Put(p, seg)
        PROVE  /\ c2s' \in [Peers -> Seq(PeerSegment)]
               /\ \A q \in Peers \ {p} : c2s'[q] = c2s[q]
               /\ \A i \in DOMAIN c2s'[p] :
                      \/ From(c2s'[p][i], p) /\ ~c2s'[p][i].syn
                      \/ i \in DOMAIN c2s[p] /\ c2s'[p][i] = c2s[p][i]
    BY <1>1, <2>2, PutType
  <2> QED BY <1>8, <2>1, <2>2
<1>10. Untouched(p)
  BY <1>3, <1>9 DEF Untouched
<1>12. ASSUME NEW s \in Sockets, Conn(s, p) PROVE ConnInv(s, p)'
  <2>1. CASE ~Receiving(s)
    <3>1. ConnInv(s, p)
      BY <1>12 DEF LinkInv, ConnectionsInv
    <3>4. ASSUME Lossy, Closing(p) PROVE Closing(p)'
      <4>1. peer[p].unacked \in Seq(PeerSegment)
        BY <1>1, <3>4 DEF PeerInv
      <4>2. CASE Over(p)
        BY <3>4, <4>2 DEF Over, Closing, FinLeft
      <4>3. CASE /\ Drops(p, m) /\ peer'[p].st \in {"fin_sent", "done"}
        BY <1>1, <1>6, <3>4, <4>1, <4>3, FinStays DEF Closing
      <4> QED BY <1>3, <3>4, <4>2, <4>3 DEF Closing, Handshakes, Takes, Ends
    <3>2. Keeps(s, p)
      BY <1>4, <1>6, <3>4 DEF Keeps, Holding
    <3>3. (Receiving(s)' <=> Receiving(s)) /\ (Passive(s)' <=> Passive(s))
      BY <1>4 DEF Receiving, Passive
    <3> QED BY <2>1, <3>1, <3>2, <3>3, ConnFrame
  <2>2. CASE Receiving(s)
    <3>1. /\ peer[p].st \in {"syn_sent", "established", "fin_sent"} /\ Single(p)
      BY <1>12, <2>2, ReceivingFrom
    <3>2. ~m.fin /\ Span(m) \in Nat /\ (m.syn => Span(m) # 0)
      <4>1. m.payload \in Seq(Bytes)
        BY <1>3 DEF Received, Segment
      <4>2. ~m.fin
        BY <1>1, <1>2, <1>3, <1>4, <3>1, TransitTaken DEF Received
      <4> QED BY <4>1, <4>2, SpanType
    <3>3. Handshakes(p, m) \/ Takes(p, m)
      BY <1>3, <3>1, <3>2 DEF Ends, Over
    <3>4. CASE Handshakes(p, m)
      BY <1>2, <1>3, <1>7, <1>12, <2>2, <3>2, <3>4, ConnReceives DEF Handshakes, Answers
    <3>5. CASE Takes(p, m)
      BY <1>2, <1>3, <1>7, <1>12, <2>2, <3>1, <3>5, ConnReceives DEF Takes
    <3> QED BY <3>3, <3>4, <3>5
  <2> QED BY <2>1, <2>2
<1>11. PeerInv(p)'
  <2>1. \A i \in DOMAIN c2s'[p] : From(c2s'[p][i], p) /\ ~c2s'[p][i].syn
    <3>1. \A i \in DOMAIN c2s[p] : From(c2s[p][i], p) /\ ~c2s[p][i].syn
      <4>1. CASE peer[p].st = "syn_sent"
        <5>1. c2s[p] = <<>>
          BY <1>1, <1>5, <4>1 DEF PeerInv
        <5> QED BY <5>1
      <4>2. CASE peer[p].st # "syn_sent"
        BY <1>1, <4>2 DEF PeerInv
      <4> QED BY <4>1, <4>2
    <3> QED BY <1>9, <3>1
  <2>2. peer'[p].st = "established" =>
            peer'[p].snd_nxt = Num(p, StreamLength(p, peer'[p].at))
    BY <1>1, <1>3, <1>6 DEF PeerInv, Handshakes, Takes, Ends, Over
  <2>3. ASSUME Lossy
        PROVE  /\ peer'[p].unacked \in Seq(PeerSegment)
               /\ \A i \in DOMAIN peer'[p].unacked :
                      From(peer'[p].unacked[i], p) /\ ~peer'[p].unacked[i].syn
    <3> DEFINE u == peer[p].unacked
               left == Left(p, m)
    <3>1. u \in Seq(PeerSegment) /\ \A i \in DOMAIN u : From(u[i], p)
      BY <1>1, <2>3 DEF PeerInv
    <3>2. /\ left \in Seq(PeerSegment)
          /\ \A i \in DOMAIN left : \E j \in DOMAIN u : left[i] = u[j]
      BY <3>1, StillType DEF Left
    <3>3. CASE Handshakes(p, m)
      <4>1. peer'[p].unacked = <<>>
        BY <1>1, <1>5, <1>6, <1>12, <2>3, <3>3, LossyOpens DEF Handshakes
      <4> QED BY <4>1
    <3>4. CASE Takes(p, m) \/ Ends(p, m)
      <4>1. \A i \in DOMAIN u : ~u[i].syn
        BY <1>1, <2>3, <3>4 DEF PeerInv, Takes, Ends
      <4>2. \A i \in DOMAIN left : From(left[i], p) /\ ~left[i].syn
        BY <3>1, <3>2, <4>1
      <4>3. CASE peer'[p].unacked = left
        BY <3>2, <4>2, <4>3
      <4>4. ASSUME NEW seg \in PeerSegment, From(seg, p), ~seg.syn,
                   peer'[p].unacked = Append(left, seg)
            PROVE  /\ peer'[p].unacked \in Seq(PeerSegment)
                   /\ \A i \in DOMAIN peer'[p].unacked :
                          From(peer'[p].unacked[i], p) /\ ~peer'[p].unacked[i].syn
        <5> HIDE DEF left
        <5> DEFINE q == Append(left, seg)
        <5>1. /\ Len(left) \in Nat /\ DOMAIN left = 1 .. Len(left)
              /\ q \in Seq(PeerSegment) /\ DOMAIN q = 1 .. Len(left) + 1
              /\ \A i \in 1 .. Len(left) : q[i] = left[i]
              /\ q[Len(left) + 1] = seg
          BY <3>2, AppendLast
        <5>2. \A i \in DOMAIN q : i \in DOMAIN left \/ i = Len(left) + 1
          BY <5>1
        <5>3. peer'[p].unacked = q
          BY <4>4
        <5> HIDE DEF q
        <5> QED BY <4>2, <4>4, <5>1, <5>2, <5>3
      <4> QED BY <3>4, <4>3, <4>4 DEF Takes, Ends, Drops
    <3>5. CASE Over(p)
      <4>1. peer'[p] = peer[p] /\ peer[p].st = "done"
        BY <3>5 DEF Over
      <4> QED BY <1>1, <2>3, <4>1 DEF PeerInv
    <3> QED BY <1>3, <3>3, <3>4, <3>5
  <2> QED BY <1>5, <1>6, <2>1, <2>2, <2>3 DEF PeerInv, From, Lossy
<1> QED BY <1>3, <1>7, <1>10, <1>11, <1>12, PeerFrame

\* A peer repeats the first segment that is not acknowledged: on a network that
\* loses some.
LEMMA LinkRetransmit ==
    ASSUME LinkInv, PolitePeers, Lossy, NEW p \in Peers, Retransmit(p),
           UNCHANGED <<vars, got>>
    PROVE  ConnectionsInv'
<1>1. TypeOK /\ LinkTypeOK /\ PeerOK(p) /\ PeerInv(p)
  BY DEF LinkInv, ConnectionsInv, LinkTypeOK
<1> DEFINE u == peer[p].unacked
<1>2. PICK m : m = Head(u)
  OBVIOUS
<1>3. /\ peer[p].st \in {"established", "fin_sent", "last_ack"} /\ u # <<>>
      /\ Put(p, m) /\ peer' = peer /\ s2c' = s2c
  BY <1>2 DEF Retransmit
<1>4. u \in Seq(PeerSegment) /\ m = u[1] /\ m \in PeerSegment /\ 1 \in DOMAIN u
  <2>1. u \in Seq(PeerSegment)
    BY <1>1 DEF PeerInv
  <2> HIDE DEF u
  <2>2. Head(u) = u[1] /\ Head(u) \in PeerSegment /\ DOMAIN u = 1 .. Len(u)
        /\ Len(u) \in Nat \ {0}
    BY <1>3, <2>1, HeadTail
  <2> QED BY <1>2, <2>1, <2>2
<1>5. From(m, p) /\ ~m.syn
  BY <1>1, <1>3, <1>4 DEF PeerInv
<1>6. /\ c2s' \in [Peers -> Seq(PeerSegment)]
      /\ \A q \in Peers \ {p} : c2s'[q] = c2s[q]
      /\ \A i \in DOMAIN c2s'[p] :
             c2s'[p][i] = m \/ (i \in DOMAIN c2s[p] /\ c2s'[p][i] = c2s[p][i])
  BY <1>1, <1>3, <1>4, PutType
<1>7. /\ state_' = state_ /\ next_state_' = next_state_ /\ in_seq_' = in_seq_
      /\ recv_queue_' = recv_queue_ /\ disp' = disp /\ txq' = txq /\ got' = got
      /\ out_port_' = out_port_
  BY DEF vars, control, numbers, address
<1>8. Untouched(p)
  BY <1>1, <1>3, <1>6 DEF Untouched, LinkTypeOK
<1>9. PeerOK(p)'
  BY <1>1, <1>3 DEF PeerOK
<1>10. ~NoConn(p) /\ ~NoConn(p)'
  <2>1. ~NoConn(p)
    BY <1>1, <1>3 DEF PeerInv
  <2> QED BY <1>7, <2>1 DEF NoConn, Conn
<1>11. PeerInv(p)'
  <2>1. \A i \in DOMAIN c2s'[p] : From(c2s'[p][i], p) /\ ~c2s'[p][i].syn
    BY <1>1, <1>3, <1>5, <1>6 DEF PeerInv
  <2> QED BY <1>1, <1>3, <1>10, <2>1 DEF PeerInv, From, Lossy
<1>12. \A i \in DOMAIN s2c'[p] : s2c'[p][i].syn => s2c'[p][i].payload = <<>>
  BY <1>1, <1>3 DEF LinkTypeOK
<1>13. ASSUME NEW s \in Sockets, Conn(s, p) PROVE ConnInv(s, p)'
  <2>1. ConnInv(s, p)
    BY <1>13 DEF LinkInv, ConnectionsInv
  <2>2. PICK r \in 0 .. Len(Script[p]), e \in 0 .. Len(Script[p]), d \in 0 .. Len(Script[p]) :
            /\ Facts(s, p, r, e, d)
            /\ Receiving(s) => Flow(s, p, r, d)
            /\ Passive(s) => Ended(p, r, e, d)
    BY <2>1 DEF ConnInv
  <2>3. Facts(s, p, r, e, d)'
    <3>1. Holding(s)' <=> Holding(s)
      BY <1>7 DEF Holding
    <3> QED BY <1>3, <1>7, <2>2, <3>1 DEF Facts
  <2>4. ASSUME Receiving(s)' PROVE Flow(s, p, r, d)'
    <3>1. Flow(s, p, r, d) /\ LossyFlow(s, p, r, d)
      BY <1>7, <2>2, <2>4 DEF Receiving, Flow
    <3>2. Known(m, p, d)
      <4>1. CASE PieceLeft(p)
        <5>1. peer[p].at \in 1 .. peer[p].at /\ IsPiece(m, p, peer[p].at)
          BY <1>1, <1>4, <4>1, ScriptType DEF PieceLeft, PeerOK
        <5> QED BY <5>1 DEF Known
      <4>2. CASE peer[p].st = "fin_sent" /\ FinLeft(p)
        BY <1>3, <1>4, <4>2 DEF FinLeft, Known
      <4> QED BY <1>3, <3>1, <4>1, <4>2 DEF LossyFlow, Window, AllLeft
    <3>3. OnTheWay(p, d)'
      <4>1. \A x : Known(x, p, d) => Known(x, p, d)'
        BY <1>3 DEF Known
      <4> QED BY <1>6, <3>1, <3>2, <4>1 DEF OnTheWay, LossyFlow
    <3>4. Quiet(p)' \/ Outstanding(p, r, d)'
      BY <1>3, <1>7, <3>1, TransitStill DEF LossyFlow, Outstanding
    <3>5. Numbered(p, d)'
      BY <1>3, <1>7, <3>1, TransitStill DEF LossyFlow
    <3>6. Window(p, d)'
      BY <1>3, <3>1 DEF LossyFlow, Window, AllLeft, PieceLeft, FinLeft
    <3>7. LossyFlow(s, p, r, d)'
      BY <1>7, <3>1, <3>3, <3>4, <3>5, <3>6 DEF LossyFlow
    <3> QED BY <1>3, <1>7, <3>1, <3>7 DEF Flow, Lossy
  <2>5. Passive(s)' => Ended(p, r, e, d)'
    BY <1>3, <1>7, <2>2 DEF Passive, Ended, Finished, Closing, FinLeft, Lossy
  <2> QED BY <2>3, <2>4, <2>5 DEF ConnInv
<1> QED BY <1>8, <1>9, <1>11, <1>12, <1>13, PeerFrame

\* The network loses a segment, in either direction.
LEMMA LinkLose ==
    ASSUME LinkInv, Lossy, NEW p \in Peers, Lose(p)
    PROVE  ConnectionsInv'
<1>1. TypeOK /\ LinkTypeOK /\ PeerOK(p) /\ PeerInv(p)
  BY DEF LinkInv, ConnectionsInv, LinkTypeOK
<1>2. UNCHANGED <<vars, got>> /\ peer' = peer
  BY DEF Lose
<1>3. CASE /\ c2s[p] # <<>> /\ c2s' = [c2s EXCEPT ![p] = Tail(@)] /\ s2c' = s2c
  BY <1>2, <1>3, LinkDrop DEF vars
<1>4. CASE /\ s2c[p] # <<>> /\ s2c' = [s2c EXCEPT ![p] = Tail(@)] /\ c2s' = c2s
  <2>1. /\ s2c' \in [Peers -> Seq(Segment)]
        /\ \A q \in Peers \ {p} : s2c'[q] = s2c[q]
        /\ s2c'[p] = Tail(s2c[p])
        /\ \A i \in DOMAIN s2c'[p] : i + 1 \in DOMAIN s2c[p] /\ s2c'[p][i] = s2c[p][i + 1]
    <3> DEFINE q == s2c[p]
    <3>1. q \in Seq(Segment) /\ q # <<>> /\ DOMAIN s2c = Peers
      BY <1>1, <1>4 DEF LinkTypeOK
    <3> HIDE DEF q
    <3>2. /\ Len(q) \in Nat \ {0} /\ DOMAIN q = 1 .. Len(q)
          /\ DOMAIN Tail(q) = 1 .. Len(q) - 1 /\ Tail(q) \in Seq(Segment)
          /\ \A i \in 1 .. Len(q) - 1 : Tail(q)[i] = q[i + 1]
      BY <3>1, HeadTail
    <3>3. s2c'[p] = Tail(q) /\ s2c' \in [Peers -> Seq(Segment)]
      BY <1>1, <1>4, <3>1, <3>2 DEF LinkTypeOK, q
    <3>4. \A i \in DOMAIN Tail(q) : i + 1 \in DOMAIN q /\ Tail(q)[i] = q[i + 1]
      BY <3>2
    <3>5. \A x \in Peers \ {p} : s2c'[x] = s2c[x]
      BY <1>4, <3>1
    <3> QED BY <3>3, <3>4, <3>5 DEF q
  <2>2. /\ state_' = state_ /\ next_state_' = next_state_ /\ in_seq_' = in_seq_
        /\ recv_queue_' = recv_queue_ /\ disp' = disp /\ txq' = txq /\ got' = got
        /\ out_port_' = out_port_
    BY <1>2 DEF vars, control, numbers, address
  <2>3. Untouched(p)
    BY <1>1, <1>2, <1>4, <2>1 DEF Untouched, LinkTypeOK
  <2>4. PeerOK(p)'
    BY <1>1, <1>2 DEF PeerOK
  <2>5. ~NoConn(p) /\ ~NoConn(p)'
    <3>1. ~NoConn(p)
      BY <1>1, <1>4 DEF PeerInv, Nothing
    <3> QED BY <2>2, <3>1 DEF NoConn, Conn
  <2>6. \A s : Conn(s, p)' <=> Conn(s, p)
    BY <2>2 DEF Conn
  <2>7. own' = own
    BY <1>2 DEF vars
  <2>8. PeerInv(p)'
    BY <1>1, <1>2, <1>4, <2>5, <2>6, <2>7 DEF PeerInv, From, Lossy
  <2>9. \A i \in DOMAIN s2c'[p] : s2c'[p][i].syn => s2c'[p][i].payload = <<>>
    BY <1>1, <2>1 DEF LinkTypeOK
  <2>10. ASSUME NEW s \in Sockets, Conn(s, p) PROVE ConnInv(s, p)'
    <3>1. ConnInv(s, p)
      BY <2>10 DEF LinkInv, ConnectionsInv
    <3>2. Keeps(s, p)
      BY <1>2, <2>2 DEF Keeps, Closing, FinLeft, Holding
    <3>3. KeepsFlow(s, p)
      BY <1>1, <1>2, <1>4, <2>1, <2>2, TransitTaken DEF KeepsFlow
    <3>4. (Receiving(s)' <=> Receiving(s)) /\ (Passive(s)' <=> Passive(s))
      BY <2>2 DEF Receiving, Passive
    <3> QED BY <3>1, <3>2, <3>3, <3>4, ConnFrame
  <2> QED BY <2>3, <2>4, <2>8, <2>9, <2>10, PeerFrame
<1> QED BY <1>3, <1>4 DEF Lose
-----------------------------------------------------------------------------
(***************************************************************************)
(* The invariant holds at first and in every step.                         *)
(***************************************************************************)
\* The bounds on what the network loses and the peers repeat.
BudgetOK == losses \in Nat /\ retries \in Nat

\* The budgets are counted in numbers.
LEMMA BudgetNext ==
    ASSUME BudgetOK, [LinkNext]_linkVars
    PROVE  BudgetOK'
<1>1. CASE UNCHANGED linkVars
  BY <1>1 DEF linkVars, net, BudgetOK
<1>2. ASSUME NEW p \in Peers, PeerStep(p) PROVE BudgetOK'
  <2>1. CASE Open(p) \/ Reopen(p)
    BY <2>1 DEF Open, Reopen, BudgetOK
  <2>2. CASE SendRequest(p)
    <3>1. UNCHANGED <<losses, retries>>
      BY <2>2 DEF SendRequest
    <3> QED BY <3>1 DEF BudgetOK
  <2>3. CASE PeerClose(p)
    BY <2>3 DEF PeerClose, BudgetOK
  <2>4. CASE Retransmit(p)
    <3>1. losses' = losses
      BY <1>2, <2>4 DEF Retransmit, PeerStep
    <3> QED BY <2>4, <3>1 DEF Retransmit, BudgetOK
  <2>5. CASE PeerReceive(p)
    <3>1. UNCHANGED <<losses, retries>>
      BY <2>5 DEF PeerReceive
    <3> QED BY <3>1 DEF BudgetOK
  <2> QED BY <1>2, <2>1, <2>2, <2>3, <2>4, <2>5 DEF PeerStep
<1>3. ASSUME NEW p \in Peers, Lose(p) PROVE BudgetOK'
  BY <1>3 DEF Lose, BudgetOK
<1>4. ASSUME NEW p \in Peers, Deliver(p) PROVE BudgetOK'
  BY <1>4 DEF Deliver, BudgetOK
<1>5. CASE ServerTx \/ Reply \/ LinkListen
  BY <1>5 DEF ServerTx, Reply, LinkListen, net, BudgetOK
<1>6. ASSUME NEW s \in Sockets, LinkWorker(s) PROVE BudgetOK'
  BY <1>6 DEF LinkWorker, net, BudgetOK
<1> QED BY <1>1, <1>2, <1>3, <1>4, <1>5, <1>6 DEF LinkNext

\* A peer takes a step, or the network loses a segment: not without a budget.
LEMMA LinkPeer ==
    ASSUME LinkInv, BudgetOK, PolitePeers, NEW p \in Peers, PeerStep(p) \/ Lose(p)
    PROVE  ConnectionsInv' /\ failed' = "no"
<1>1. Lose(p) \/ Retransmit(p) => Lossy
  <2>1. losses \in Nat /\ retries \in Nat
    BY DEF BudgetOK
  <2>2. NothingLost => ~Lose(p) /\ ~Retransmit(p)
    BY <2>1 DEF NothingLost, Lose, Retransmit
  <2> QED BY <2>2 DEF PolitePeers
<1>2. UNCHANGED <<vars, got>> /\ failed' = failed
  BY DEF PeerStep, Lose, vars
<1>3. \/ Open(p) \/ Reopen(p) \/ SendRequest(p) \/ PeerClose(p) \/ PeerReceive(p)
      \/ Retransmit(p) \/ Lose(p)
  BY DEF PeerStep
<1>4. ConnectionsInv'
  BY <1>1, <1>2, <1>3, LinkOpen, LinkReopen, LinkSendRequest, LinkPeerClose,
     LinkPeerReceive, LinkRetransmit, LinkLose
<1> QED BY <1>2, <1>4 DEF LinkInv

\* At first there are no connections.
LEMMA LinkInvInit == LinkInit => LinkInv /\ BudgetOK
<1> SUFFICES ASSUME LinkInit PROVE LinkInv /\ BudgetOK
  OBVIOUS
<1>1. Init
  BY DEF LinkInit
<1>2. TypeOK /\ ActorsAgree /\ failed = "no"
  <2>1. failed = "no"
    BY <1>1 DEF Init
  <2> QED BY <1>1, <2>1, TypeInit, AgreeInit
<1>3. /\ state_ = [s \in Sockets |-> "none"] /\ own = [s \in Sockets |-> "unborn"]
      /\ recv_queue_ = [s \in Sockets |-> <<>>] /\ txq = <<>>
  BY <1>1 DEF Init
<1>4. /\ got = [s \in Sockets |-> <<>>]
      /\ c2s = [p \in Peers |-> <<>>] /\ s2c = [p \in Peers |-> <<>>]
  BY DEF LinkInit
<1>5. /\ DOMAIN peer = Peers
      /\ \A p \in Peers :
             /\ DOMAIN peer[p] = PeerFields
             /\ peer[p].st = "closed" /\ peer[p].snd_nxt = Isn[p]
             /\ peer[p].rcv_nxt = 0 /\ peer[p].at = 0 /\ peer[p].answers = 0
             /\ peer[p].unacked = <<>> /\ peer[p].acked = 0
  BY DEF LinkInit, PeerFields
<1>6. \A s \in Sockets, p \in Peers : ~Conn(s, p)
  BY <1>3 DEF Conn
<1>7. LinkTypeOK
  <2>1. ASSUME NEW p \in Peers PROVE PeerOK(p)
    <3>1. 0 \in SeqNum /\ Isn[p] \in SeqNum
      BY SeqSpaceAssumption, PeersAssumption DEF SeqNum
    <3>2. 0 \in 0 .. Len(Script[p])
      BY ScriptType
    <3> QED BY <1>5, <3>1, <3>2 DEF PeerOK, PeerStates
  <2>2. c2s \in [Peers -> Seq(PeerSegment)] /\ s2c \in [Peers -> Seq(Segment)]
    <3>1. <<>> \in Seq(PeerSegment) /\ <<>> \in Seq(Segment)
      OBVIOUS
    <3> QED BY <1>4, <3>1
  <2>3. DOMAIN txq = {} /\ \A p \in Peers : DOMAIN s2c[p] = {}
    BY <1>3, <1>4
  <2> QED BY <1>5, <2>1, <2>2, <2>3 DEF LinkTypeOK
<1>8. (\A s \in Sockets : SocketInv(s)) /\ OneListens
  BY <1>3, <1>4 DEF SocketInv, Live, OneListens
<1>9. ConnAddress
  BY <1>3, <1>6 DEF ConnAddress
<1>10. ASSUME NEW p \in Peers PROVE PeerInv(p)
  <2>1. NoConn(p)
    BY <1>6 DEF NoConn
  <2>2. /\ c2s[p] = <<>> /\ s2c[p] = <<>>
        /\ DOMAIN c2s[p] = {} /\ DOMAIN txq = {}
    BY <1>3, <1>4
  <2>3. Nothing(p)
    BY <2>2 DEF Nothing
  <2>4. peer[p].unacked \in Seq(PeerSegment) /\ DOMAIN peer[p].unacked = {}
    <3>1. <<>> \in Seq(PeerSegment) /\ DOMAIN <<>> = {}
      OBVIOUS
    <3> QED BY <1>5, <3>1
  <2> QED BY <1>5, <2>1, <2>2, <2>3, <2>4 DEF PeerInv
<1>11. ConnectionsInv
  BY <1>6, <1>7, <1>8, <1>9, <1>10 DEF ConnectionsInv
<1>12. BudgetOK
  BY DEF LinkInit, BudgetOK
<1> QED BY <1>2, <1>11, <1>12 DEF LinkInv

\* A step that changes nothing.
LEMMA LinkStill ==
    ASSUME LinkInv, UNCHANGED linkVars
    PROVE  ConnectionsInv' /\ failed' = "no"
<1>0. /\ LinkTypeOK /\ ConnAddress /\ OneListens
      /\ \A q \in Peers : PeerInv(q)
      /\ \A t \in Sockets : SocketInv(t)
      /\ \A t \in Sockets, q \in Peers : Conn(t, q) => ConnInv(t, q)
  BY DEF LinkInv, ConnectionsInv
<1>1. /\ sockets_' = sockets_ /\ state_' = state_ /\ next_state_' = next_state_
      /\ in_seq_' = in_seq_ /\ recv_queue_' = recv_queue_ /\ disp' = disp
      /\ own' = own /\ in_port_' = in_port_ /\ out_port_' = out_port_ /\ ip_' = ip_
      /\ txq' = txq /\ got' = got /\ failed' = failed
      /\ peer' = peer /\ c2s' = c2s /\ s2c' = s2c
  BY DEF linkVars, net, vars, control, numbers, address
<1>2. \A t, q : Conn(t, q)' <=> Conn(t, q)
  BY <1>1 DEF Conn
<1>3. LinkTypeOK' /\ ConnAddress' /\ OneListens' /\ \A t \in Sockets : SocketInv(t)'
  BY <1>0, <1>1, <1>2
     DEF LinkTypeOK, PeerOK, ConnAddress, OneListens, SocketInv, Live
<1>4. ASSUME NEW q \in Peers PROVE PeerInv(q)'
  <2>1. NoConn(q)' <=> NoConn(q)
    BY <1>2 DEF NoConn
  <2>2. Nothing(q) => Nothing(q)'
    BY <1>1, TransitStill
  <2>3. PeerInv(q)
    BY <1>0
  <2> QED BY <1>1, <1>2, <2>1, <2>2, <2>3 DEF PeerInv, From
<1>5. ASSUME NEW t \in Sockets, NEW q \in Peers, Conn(t, q)' PROVE ConnInv(t, q)'
  <2>1. ConnInv(t, q)
    BY <1>0, <1>2, <1>5
  <2>2. Keeps(t, q)
    BY <1>1 DEF Keeps, Closing, FinLeft, Holding
  <2>3. KeepsFlow(t, q)
    BY <1>1, TransitStill DEF KeepsFlow
  <2>4. (Receiving(t)' <=> Receiving(t)) /\ (Passive(t)' <=> Passive(t))
    BY <1>1 DEF Receiving, Passive
  <2> QED BY <2>1, <2>2, <2>3, <2>4, ConnFrame
<1> QED BY <1>1, <1>3, <1>4, <1>5 DEF ConnectionsInv, LinkInv

\* Every step keeps the invariant.
LEMMA LinkInvNext ==
    ASSUME PolitePeers, LinkInv, BudgetOK, [LinkNext]_linkVars
    PROVE  LinkInv' /\ BudgetOK'
<1>1. BudgetOK'
  BY BudgetNext
<1>2. TypeOK' /\ ActorsAgree'
  <2>1. [Next]_vars
    BY LinkStep DEF linkVars
  <2> QED BY <2>1, TypeNext, AgreeNext DEF LinkInv
<1>3. ConnectionsInv' /\ failed' = "no"
  <2>1. CASE UNCHANGED linkVars
    BY <2>1, LinkStill
  <2>2. ASSUME NEW p \in Peers, PeerStep(p) \/ Lose(p)
        PROVE  ConnectionsInv' /\ failed' = "no"
    BY <2>2, LinkPeer
  <2>3. ASSUME NEW p \in Peers, Deliver(p) PROVE ConnectionsInv' /\ failed' = "no"
    BY <2>3, LinkDeliver
  <2>4. CASE ServerTx
    BY <2>4, LinkTransmitted
  <2>5. CASE Reply
    BY <2>5, LinkReply
  <2>6. CASE LinkListen
    BY <2>6, LinkListens
  <2>7. ASSUME NEW s \in Sockets, LinkWorker(s) PROVE ConnectionsInv' /\ failed' = "no"
    BY <2>7, LinkWorks
  <2> QED BY <2>1, <2>2, <2>3, <2>4, <2>5, <2>6, <2>7 DEF LinkNext
<1> QED BY <1>1, <1>2, <1>3 DEF LinkInv

(***************************************************************************)
(* What the connections deliver.                                           *)
(***************************************************************************)
LEMMA StreamHolds == LinkInv => StreamInOrder
<1> SUFFICES ASSUME LinkInv, NEW s \in Sockets, Accepted(s), NEW p \in PeersOf(s)
             PROVE  got[s] = Stream(p, 0, Len(got[s]))
  BY DEF StreamInOrder
<1>1. state_[s] \notin {"none", "want_syn"}
  <2>1. own[s] \in OwnerPcs \ {"unborn", "listen"} /\ OwnerInv(s) /\ SocketInv(s)
    BY DEF LinkInv, TypeOK, ActorsAgree, ConnectionsInv, Accepted
  <2> QED BY <2>1 DEF OwnerPcs, OwnerInv, SocketInv, Working
<1>2. p \in Peers /\ out_port_[s] = PeerAddress[p].port
  BY DEF PeersOf
<1>3. ConnInv(s, p)
  BY <1>1, <1>2 DEF LinkInv, ConnectionsInv, Conn
<1>4. PICK e \in 0 .. Len(Script[p]) : got[s] = Stream(p, 0, StreamLength(p, e))
  BY <1>3 DEF ConnInv, Facts
<1> DEFINE n == StreamLength(p, e)
<1>5. n \in Nat
  BY <1>2, StreamStep
<1> HIDE DEF n
<1>6. 0 \in Nat /\ 0 <= n /\ n - 0 = n
  BY <1>5
<1>7. Len(Stream(p, 0, n)) = n
  BY <1>2, <1>5, <1>6, StreamType
<1> QED BY <1>4, <1>7 DEF n

(***************************************************************************)
(* What the endpoint acknowledges.                                         *)
(***************************************************************************)
\* The cancellation event of a socket stays raised, and close() raises it.
ClosingPcs == {"close_fin", "close_wait", "close_woken", "deleted"}

CloseCancels == \A s \in Sockets : own[s] \in ClosingPcs => cancel_closed_[s]

LEMMA CancelKept ==
    ASSUME CloseCancels,
           \A s \in Sockets : own'[s] \in ClosingPcs => own[s] \in ClosingPcs,
           \A s \in Sockets : cancel_closed_[s] => cancel_closed_'[s]
    PROVE  CloseCancels'
BY DEF CloseCancels

LEMMA CancelRaise ==
    ASSUME TypeOK, NEW s \in Sockets, NEW a, NEW b, Raise(s, a, b),
           b \in ClosingPcs => a \in ClosingPcs
    PROVE  \A t \in Sockets : own'[t] \in ClosingPcs => own[t] \in ClosingPcs
<1>1. own \in [Sockets -> OwnerPcs]
  BY DEF TypeOK
<1> QED BY <1>1 DEF Raise

LEMMA CancelOwner ==
    ASSUME TypeOK, NEW s \in Sockets, NEW pc, own' = [own EXCEPT ![s] = pc],
           pc \in ClosingPcs => own[s] \in ClosingPcs
    PROVE  \A t \in Sockets : own'[t] \in ClosingPcs => own[t] \in ClosingPcs
<1>1. own \in [Sockets -> OwnerPcs]
  BY DEF TypeOK
<1> QED BY <1>1

LEMMA CancelTakeAck ==
    ASSUME TypeOK, CloseCancels, NEW s \in Sockets, TakeAck(s)
    PROVE  CloseCancels'
<1>1. own \in [Sockets -> OwnerPcs] /\ cancel_closed_ \in [Sockets -> BOOLEAN]
  BY DEF TypeOK
<1>2. \A t \in Sockets : own'[t] \in ClosingPcs => own[t] \in ClosingPcs
  <2>1. \/ Raise(s, "listen", "notified")
        \/ Raise(s, "close_wait", "close_woken")
        \/ own' = own
    BY DEF TakeAck, RaiseAfterAck
  <2> QED BY <2>1, CancelRaise DEF ClosingPcs
<1>3. ASSUME NEW t \in Sockets, cancel_closed_[t] PROVE cancel_closed_'[t]
  <2>1. cancel_closed_' = [cancel_closed_ EXCEPT ![s] = @ \/ next_state_[s] = "closed"]
    BY DEF TakeAck
  <2>2. CASE t = s
    BY <1>1, <1>3, <2>1, <2>2
  <2>3. CASE t # s
    BY <1>1, <1>3, <2>1, <2>3
  <2> QED BY <2>2, <2>3
<1> QED BY <1>2, <1>3, CancelKept

LEMMA CancelSend ==
    ASSUME TypeOK, CloseCancels, NEW s \in Sockets, NEW data, Send(s, data)
    PROVE  CloseCancels'
<1>1. cancel_closed_' = cancel_closed_
  BY DEF Send
<1>2. \/ own' = [own EXCEPT ![s] = "loop"] \/ own' = [own EXCEPT ![s] = "send"]
      \/ own' = own
  BY DEF Send
<1>3. \A t \in Sockets : own'[t] \in ClosingPcs => own[t] \in ClosingPcs
  BY <1>2, CancelOwner DEF ClosingPcs
<1> QED BY <1>1, <1>3, CancelKept

LEMMA CancelDestroy ==
    ASSUME TypeOK, CloseCancels, NEW s \in Sockets, Destroy(s),
           cancel_closed_' = cancel_closed_, own[s] \in ClosingPcs
    PROVE  CloseCancels'
<1>1. \A t \in Sockets : own'[t] \in ClosingPcs => own[t] \in ClosingPcs
  BY CancelOwner DEF Destroy
<1> QED BY <1>1, CancelKept

LEMMA CancelClose ==
    ASSUME TypeOK, CloseCancels, NEW s \in Sockets, Close(s)
    PROVE  CloseCancels'
<1>1. own \in [Sockets -> OwnerPcs] /\ cancel_closed_ \in [Sockets -> BOOLEAN]
  BY DEF TypeOK
<1>2. cancel_closed_' = [cancel_closed_ EXCEPT ![s] = TRUE]
  BY DEF Close
<1>3. \E pc : own' = [own EXCEPT ![s] = pc]
  BY DEF Close, Destroy
<1>4. ASSUME NEW t \in Sockets, own'[t] \in ClosingPcs PROVE cancel_closed_'[t]
  <2>1. CASE t = s
    BY <1>1, <1>2, <2>1
  <2>2. CASE t # s
    BY <1>1, <1>2, <1>3, <1>4, <2>2 DEF CloseCancels
  <2> QED BY <2>1, <2>2
<1> QED BY <1>4 DEF CloseCancels

LEMMA CancelWorker ==
    ASSUME TypeOK, CloseCancels, NEW s \in Sockets, Worker(s)
    PROVE  CloseCancels'
<1>1. own \in [Sockets -> OwnerPcs]
  BY DEF TypeOK
<1>2. CASE Accept(s)
  <2>1. /\ cancel_closed_' = cancel_closed_
        /\ \/ \E t \in Sockets : own' = [own EXCEPT ![s] = "loop", ![t] = "listen"]
           \/ own' = [own EXCEPT ![s] = "loop"]
    BY <1>2 DEF Accept
  <2>2. \A t \in Sockets : own'[t] \in ClosingPcs => own[t] \in ClosingPcs
    BY <1>1, <2>1 DEF ClosingPcs
  <2> QED BY <2>1, <2>2, CancelKept
<1>3. CASE RecvWait(s) \/ Cancelled(s) \/ Ignore(s) \/ SendDone(s)
  <2>1. /\ cancel_closed_' = cancel_closed_
        /\ own' = [own EXCEPT ![s] = "loop"] \/ own' = [own EXCEPT ![s] = "recv"]
    BY <1>3 DEF RecvWait, Cancelled, Ignore, SendDone
  <2>2. \A t \in Sockets : own'[t] \in ClosingPcs => own[t] \in ClosingPcs
    BY <2>1, CancelOwner DEF ClosingPcs
  <2> QED BY <2>1, <2>2, CancelKept
<1>4. CASE Answer(s)
  BY <1>4, CancelSend DEF Answer
<1>5. CASE Close(s)
  BY <1>5, CancelClose
<1>6. CASE FinSent(s)
  <2>1. own[s] \in ClosingPcs /\ cancel_closed_' = cancel_closed_
    BY <1>6 DEF FinSent, ClosingPcs
  <2>2. CASE own' = [own EXCEPT ![s] = "close_wait"]
    <3>1. \A t \in Sockets : own'[t] \in ClosingPcs => own[t] \in ClosingPcs
      BY <2>1, <2>2, CancelOwner
    <3> QED BY <2>1, <3>1, CancelKept
  <2>3. CASE Destroy(s)
    BY <2>1, <2>3, CancelDestroy
  <2> QED BY <1>6, <2>2, <2>3 DEF FinSent
<1>7. CASE Closed(s)
  <2>1. own[s] \in ClosingPcs /\ cancel_closed_' = cancel_closed_ /\ Destroy(s)
    BY <1>7 DEF Closed, ClosingPcs
  <2> QED BY <2>1, CancelDestroy
<1> QED BY <1>2, <1>3, <1>4, <1>5, <1>6, <1>7 DEF Worker

LEMMA CancelNext ==
    ASSUME TypeOK, CloseCancels, [Next]_vars
    PROVE  CloseCancels'
<1>1. ASSUME own' = own, cancel_closed_' = cancel_closed_ PROVE CloseCancels'
  BY <1>1, CancelKept
<1>2. CASE UNCHANGED vars
  BY <1>1, <1>2 DEF vars
<1>3. ASSUME NEW s, NEW pkt, LastBranch(s, pkt)
      PROVE  own' = own /\ cancel_closed_' = cancel_closed_
  BY <1>3 DEF LastBranch, TakeFinAck
<1>4. ASSUME NEW s, NEW pkt, LaterBranches(s, pkt)
      PROVE  own' = own /\ cancel_closed_' = cancel_closed_
  BY <1>3, <1>4 DEF LaterBranches, AssertAckFails, TakeFin, TakeData
<1>5. ASSUME NEW pkt \in Packets, PushPacket(pkt) PROVE CloseCancels'
  <2>1. CASE UNCHANGED vars
    BY <1>2, <2>1
  <2>2. ASSUME NEW i \in DOMAIN sockets_, ProcessPacket(sockets_[i], pkt)
        PROVE  CloseCancels'
    <3>1. sockets_[i] \in Sockets
      BY <2>2 DEF TypeOK
    <3>2. CASE TakeAck(sockets_[i])
      BY <3>1, <3>2, CancelTakeAck
    <3>3. CASE TakeSyn(sockets_[i], pkt)
      BY <1>1, <3>3 DEF TakeSyn
    <3>4. CASE LaterBranches(sockets_[i], pkt)
      BY <1>1, <1>4, <3>4
    <3> QED BY <2>2, <3>2, <3>3, <3>4 DEF ProcessPacket
  <2> QED BY <1>5, <2>1, <2>2 DEF PushPacket, Candidates
<1>6. CASE AfterReply
  <2>1. CASE AfterSynAck
    BY <1>1, <1>4, <2>1 DEF AfterSynAck
  <2>2. CASE AfterFinAck \/ AfterDataAck
    BY <1>1, <1>3, <2>2 DEF AfterFinAck, AfterDataAck
  <2>3. CASE AfterLastAck
    <3>1. disp.sock \in Sockets
      BY <2>3 DEF AfterLastAck, Resumed, TypeOK, Idle
    <3>2. \A t \in Sockets : own'[t] \in ClosingPcs => own[t] \in ClosingPcs
      BY <2>3, <3>1, CancelRaise DEF AfterLastAck, ClosingPcs
    <3> QED BY <2>3, <3>2, CancelKept DEF AfterLastAck
  <2> QED BY <1>6, <2>1, <2>2, <2>3 DEF AfterReply
<1>7. CASE TxDone
  BY <1>1, <1>7 DEF TxDone
<1>8. ASSUME NEW s \in Sockets, NEW p \in Ports, Listen(s, p) PROVE CloseCancels'
  <2>1. own' = [own EXCEPT ![s] = "listen"] /\ cancel_closed_' = cancel_closed_
    BY <1>8 DEF Listen
  <2>2. \A t \in Sockets : own'[t] \in ClosingPcs => own[t] \in ClosingPcs
    BY <2>1, CancelOwner DEF ClosingPcs
  <2> QED BY <2>1, <2>2, CancelKept
<1>9. ASSUME NEW s \in Sockets, Worker(s) PROVE CloseCancels'
  BY <1>9, CancelWorker
<1> QED BY <1>2, <1>5, <1>6, <1>7, <1>8, <1>9 DEF Next

\* What a peer has an acknowledgement of, the receive queue has got or the
\* dispatcher is about to put in.
LEMMA AckedHolds ==
    ASSUME LinkInv, CloseCancels, PolitePeers, Lossy
    PROVE  AckedIsDelivered
<1> SUFFICES ASSUME NEW s \in Sockets, Accepted(s), ~cancel_closed_[s],
                    NEW p \in PeersOf(s)
             PROVE  peer[p].acked <= Len(got[s])
                        + (IF disp.sock = s /\ disp.pc = "data_ack"
                           THEN Len(disp.pkt.payload) ELSE 0)
  BY DEF AckedIsDelivered
<1>1. Receiving(s) \/ Passive(s)
  <2>1. own[s] \in OwnerPcs /\ OwnerInv(s) /\ own[s] \notin ClosingPcs
    BY DEF LinkInv, TypeOK, ActorsAgree, CloseCancels
  <2>2. own[s] \in Working
    BY <2>1 DEF Accepted, OwnerPcs, ClosingPcs, Working
  <2> QED BY <2>1, <2>2 DEF OwnerInv, Receiving, Passive
<1>2. p \in Peers /\ out_port_[s] = PeerAddress[p].port
  BY DEF PeersOf
<1>3. ConnInv(s, p) /\ PeerInv(p) /\ PeerOK(p)
  BY <1>1, <1>2 DEF LinkInv, ConnectionsInv, Conn, Receiving, Passive, LinkTypeOK
<1>4. PICK r \in 0 .. Len(Script[p]), e \in 0 .. Len(Script[p]), d \in 0 .. Len(Script[p]) :
          /\ Facts(s, p, r, e, d)
          /\ Receiving(s) => Flow(s, p, r, d)
          /\ Passive(s) => Ended(p, r, e, d)
  BY <1>3 DEF ConnInv
<1> DEFINE S(k) == StreamLength(p, k)
           at == peer[p].at
<1>5. /\ at \in 0 .. Len(Script[p]) /\ Len(Script[p]) \in Nat
      /\ \A k \in 0 .. Len(Script[p]) : S(k) \in Nat
      /\ \A j, k \in 0 .. Len(Script[p]) : j < k => S(j) < S(k)
      /\ S(0) = 0
  BY <1>2, <1>3, ScriptType, StreamStep, StreamMonotonic DEF PeerOK
<1>6. Len(got[s]) = S(e)
  <2>1. got[s] = Stream(p, 0, S(e)) /\ S(e) \in Nat
    BY <1>4, <1>5 DEF Facts
  <2> HIDE DEF S
  <2>2. 0 \in Nat /\ 0 <= S(e) /\ S(e) - 0 = S(e)
    BY <2>1
  <2> QED BY <1>2, <2>1, <2>2, StreamType
<1>7. /\ Holding(s) => /\ d = e + 1 /\ d \in 1 .. Len(Script[p])
                       /\ S(e) + Len(disp.pkt.payload) = S(d)
      /\ ~Holding(s) => d = e
  <2>1. ASSUME Holding(s)
        PROVE  /\ d = e + 1 /\ d \in 1 .. Len(Script[p])
               /\ S(e) + Len(disp.pkt.payload) = S(d)
    <3>1. d = e + 1 /\ disp.pkt.payload = Piece(p, d)
      BY <1>4, <2>1 DEF Facts
    <3>2. d \in 1 .. Len(Script[p]) /\ d - 1 = e
      <4>1. Len(Script[p]) \in Nat
        BY <1>5
      <4> HIDE DEF S, at
      <4>2. d \in Nat /\ e \in Nat /\ d <= Len(Script[p])
        BY <4>1
      <4> QED BY <4>1, <4>2, <3>1
    <3>3. S(d - 1) + Len(Piece(p, d)) = S(d)
      BY <1>2, <3>2, PieceType
    <3> QED BY <3>1, <3>2, <3>3
  <2> QED BY <1>4, <2>1 DEF Facts
<1>8. peer[p].acked \in Nat /\ peer[p].acked <= S(d)
  <2>1. CASE Receiving(s)
    <3>1. Window(p, d)
      BY <1>4, <2>1 DEF Flow, LossyFlow
    <3>2. \/ peer[p].acked = 0
          \/ peer[p].acked = S(d)
          \/ peer[p].acked = S(at - 1) /\ at > 0 /\ at <= d + 1
      BY <1>3, <3>1 DEF Window, AllLeft, PieceLeft, FinLeft, PeerInv
    <3> DEFINE x == at - 1
    <3> HIDE DEF S, at
    <3>3. ASSUME at > 0, at <= d + 1 PROVE S(x) \in Nat /\ S(x) <= S(d)
      <4>1. x \in 0 .. Len(Script[p]) /\ (x < d \/ x = d)
        BY <1>5, <3>3
      <4> HIDE DEF x
      <4> QED BY <1>5, <4>1
    <3>4. S(d) \in Nat
      BY <1>5
    <3> QED BY <3>2, <3>3, <3>4
  <2>2. CASE Passive(s)
    <3>1. peer[p].acked = S(d)
      BY <1>4, <2>2 DEF Ended, Finished, Closing, FinLeft
    <3> QED BY <1>5, <3>1
  <2> QED BY <1>1, <2>1, <2>2
<1> HIDE DEF S
<1>9. CASE Holding(s)
  <2>1. disp.sock = s /\ disp.pc = "data_ack"
    BY <1>9 DEF Holding
  <2> QED BY <1>6, <1>7, <1>8, <1>9, <2>1
<1>10. CASE ~Holding(s)
  <2>1. disp.sock = s /\ disp.pc = "data_ack" => Len(disp.pkt.payload) = 0
    <3>1. Len(<<>>) = 0
      OBVIOUS
    <3> QED BY <1>10, <3>1 DEF Holding
  <2>2. S(e) \in Nat /\ S(e) + 0 = S(e)
    BY <1>5
  <2> QED BY <1>6, <1>7, <1>8, <1>10, <2>1, <2>2
<1> QED BY <1>9, <1>10

-----------------------------------------------------------------------------
(***************************************************************************)
(* The sequence numbers of the endpoint, on a network that loses nothing.  *)
(* The segments on their way to a peer, first those of the network, then   *)
(* those of the NIC, follow on each other: f and g are the numbers between *)
(* them, from what the peer expects to what the socket will send next.     *)
(***************************************************************************)
Follows(m, a, b) == (Span(m) # 0 => m.seq_num = a) /\ b = Plus(a, Span(m))

\* The NIC sends to others between the segments to p.
Passes(m, p, a, b) ==
    IF m.dest_port = PeerAddress[p].port
    THEN m.ip = PeerAddress[p].ip /\ Follows(m, a, b)
    ELSE b = a

\* A peer that expects a number.
Synced(p) == peer[p].st \in {"established", "fin_sent", "last_ack"}

Chain(p, f, g) ==
    /\ f \in [0 .. Len(s2c[p]) -> SeqNum] /\ g \in [0 .. Len(txq) -> SeqNum]
    /\ f[Len(s2c[p])] = g[0]
    /\ Synced(p) => f[0] = peer[p].rcv_nxt
    /\ \A i \in 1 .. Len(s2c[p]) : Follows(s2c[p][i], f[i - 1], f[i])
    /\ \A i \in 1 .. Len(txq) : Passes(txq[i].seg, p, g[i - 1], g[i])

\* The number of the first byte after all that was sent, acknowledged or not.
NextOut(s) == IF state_[s] = "connected" THEN out_seq_[s] ELSE next_out_seq_[s]

InSequence(s, p) ==
    \E f \in [0 .. Len(s2c[p]) -> SeqNum], g \in [0 .. Len(txq) -> SeqNum] :
        Chain(p, f, g) /\ (Receiving(s) => g[Len(txq)] = NextOut(s))

\* A socket that has sent an answer may close, and sends a FIN then.
Counted(s) ==
    state_[s] = "want_ack" /\ next_state_[s] = "connected" /\ own[s] # "listen"
        => out_seq_[s] = next_out_seq_[s]

SequenceInv ==
    /\ \A s \in Sockets, p \in Peers : Conn(s, p) => InSequence(s, p)
    /\ \A s \in Sockets : Counted(s)

\* The number after a segment.
LEMMA PlusSpan ==
    ASSUME NEW m \in Segment, NEW a \in SeqNum
    PROVE  Plus(a, Span(m)) \in SeqNum /\ (Span(m) = 0 => Plus(a, Span(m)) = a)
<1>1. Span(m) \in Nat
  BY SpanType DEF Segment
<1>2. Plus(a, Span(m)) \in SeqNum
  <2>1. a \in Nat
    BY SeqSpaceAssumption DEF SeqNum
  <2> QED BY <1>1, <2>1, PlusType
<1>3. Plus(a, 0) = a
  <2>1. a \in 0 .. SeqSpace - 1 /\ SeqSpace \in Nat \ {0}
    BY SeqSpaceAssumption DEF SeqNum
  <2> QED BY <2>1 DEF Plus
<1> QED BY <1>2, <1>3

\* Nothing is sent or arrives, and the peer expects what it did.
LEMMA ChainStill ==
    ASSUME NEW p \in Peers, NEW f, NEW g, Chain(p, f, g),
           txq' = txq, s2c'[p] = s2c[p],
           Synced(p)' => Synced(p) /\ peer'[p].rcv_nxt = peer[p].rcv_nxt
    PROVE  Chain(p, f, g)'
BY DEF Chain, Passes, Follows, Span

\* The types of what is on its way.
LEMMA ChainTypes ==
    ASSUME TypeOK, LinkTypeOK, NEW p \in Peers
    PROVE  /\ Len(txq) \in Nat /\ DOMAIN txq = 1 .. Len(txq)
           /\ \A i \in 1 .. Len(txq) : txq[i].seg \in Segment
           /\ Len(s2c[p]) \in Nat /\ DOMAIN s2c[p] = 1 .. Len(s2c[p])
           /\ \A i \in 1 .. Len(s2c[p]) : s2c[p][i] \in Segment
<1> DEFINE T == [by : Sockets \cup {Dispatcher}, seg : Segment]
<1>1. txq \in Seq(T) /\ (\A x \in T : x.seg \in Segment) /\ s2c[p] \in Seq(Segment)
  BY DEF TypeOK, LinkTypeOK
<1> HIDE DEF T
<1> QED BY <1>1

\* A frame is given to the NIC.
LEMMA ChainSent ==
    ASSUME TypeOK, LinkTypeOK, NEW p \in Peers, NEW f, NEW g, Chain(p, f, g),
           NEW task \in Sockets \cup {Dispatcher}, NEW seg \in Segment,
           Transmit(task, seg), s2c'[p] = s2c[p], peer'[p] = peer[p],
           NEW b \in SeqNum, Passes(seg, p, g[Len(txq)], b)
    PROVE  \E h \in [0 .. Len(txq') -> SeqNum] : Chain(p, f, h)' /\ h[Len(txq')] = b
<1> DEFINE n == Len(txq)
           x == [by |-> task, seg |-> seg]
           T == [by : Sockets \cup {Dispatcher}, seg : Segment]
<1>1. n \in Nat /\ x.seg = seg
  BY ChainTypes
<1>2. /\ Len(txq') = n + 1 /\ txq'[n + 1] = x
      /\ \A i \in 1 .. n : txq'[i] = txq[i]
  <2>1. txq \in Seq(T) /\ x \in T /\ txq' = Append(txq, x)
    BY DEF TypeOK, Transmit
  <2> HIDE DEF T, x
  <2> QED BY <2>1
<1>3. g \in [0 .. n -> SeqNum] /\ Passes(seg, p, g[n], b)
  BY DEF Chain
<1> HIDE DEF n, x
<1>4. PICK h \in [0 .. n + 1 -> SeqNum] :
          h[0] = g[0] /\ h[n + 1] = b /\ \A i \in 0 .. n : h[i] = g[i]
  <2> DEFINE H == [i \in 0 .. n + 1 |-> IF i = n + 1 THEN b ELSE g[i]]
  <2>1. /\ H \in [0 .. n + 1 -> SeqNum] /\ H[0] = g[0] /\ H[n + 1] = b
        /\ \A i \in 0 .. n : H[i] = g[i]
    BY <1>1, <1>3
  <2> HIDE DEF H
  <2> QED BY <2>1
<1>5. ASSUME NEW i \in 1 .. Len(txq') PROVE Passes(txq'[i].seg, p, h[i - 1], h[i])
  <2>1. CASE i = n + 1
    <3>1. h[i - 1] = g[n] /\ h[i] = b /\ txq'[i] = x
      <4>1. i - 1 = n
        BY <1>1, <2>1
      <4> QED BY <1>1, <1>2, <1>4, <2>1, <4>1
    <3> QED BY <1>1, <1>3, <3>1
  <2>2. CASE i \in 1 .. n
    <3>1. i - 1 \in 0 .. n /\ i \in 0 .. n
      BY <1>1, <2>2
    <3>2. Passes(txq[i].seg, p, g[i - 1], g[i])
      BY <2>2 DEF Chain, n
    <3> QED BY <1>2, <1>4, <2>2, <3>1, <3>2
  <2> QED BY <1>1, <1>2, <2>1, <2>2
<1>6. Chain(p, f, h)'
  <2>1. \A i \in 1 .. Len(txq') : Passes(txq'[i].seg, p, h[i - 1], h[i])
    BY <1>5
  <2> QED BY <1>2, <1>4, <2>1 DEF Chain, Synced, Passes, Follows, Span
<1> QED BY <1>2, <1>4, <1>6

\* A frame leaves the NIC: for p, or for another peer.
LEMMA ChainMoved ==
    ASSUME TypeOK, LinkTypeOK, NEW p \in Peers, NEW f, NEW g, Chain(p, f, g), ServerTx
    PROVE  \E e \in [0 .. Len(s2c'[p]) -> SeqNum], h \in [0 .. Len(txq') -> SeqNum] :
               Chain(p, e, h)' /\ h[Len(txq')] = g[Len(txq)]
<1> DEFINE n == Len(txq) - 1
           k == Len(s2c[p])
           m == txq[1].seg
           T == [by : Sockets \cup {Dispatcher}, seg : Segment]
<1>1. /\ n \in Nat /\ Len(txq) = n + 1 /\ Len(txq') = n /\ m \in Segment
      /\ Head(txq) = txq[1]
      /\ \A i \in 1 .. n : txq'[i] = txq[i + 1]
  <2>1. txq \in Seq(T) /\ txq # <<>> /\ txq' = Tail(txq)
    BY DEF TypeOK, ServerTx, TxDone
  <2>2. /\ Len(txq) \in Nat \ {0} /\ Head(txq) = txq[1] /\ txq[1] \in T
        /\ Len(txq') = Len(txq) - 1
        /\ \A i \in 1 .. Len(txq) - 1 : txq'[i] = txq[i + 1]
    <3> HIDE DEF T
    <3> QED BY <2>1, HeadTail
  <2> QED BY <2>2
<1>2. /\ k \in Nat /\ s2c[p] \in Seq(Segment)
      /\ f \in [0 .. k -> SeqNum] /\ g \in [0 .. n + 1 -> SeqNum] /\ f[k] = g[0]
      /\ Synced(p) => f[0] = peer[p].rcv_nxt
      /\ \A i \in 1 .. k : Follows(s2c[p][i], f[i - 1], f[i])
      /\ \A i \in 1 .. n + 1 : Passes(txq[i].seg, p, g[i - 1], g[i])
  <2>1. k \in Nat /\ s2c[p] \in Seq(Segment)
    BY ChainTypes DEF LinkTypeOK
  <2> HIDE DEF n, m
  <2> QED BY <1>1, <2>1 DEF Chain
<1>3. peer' = peer
  BY DEF ServerTx
<1>4. s2c'[p] = IF PeerAddress[p] = [ip |-> m.ip, port |-> m.dest_port]
                THEN Append(s2c[p], m) ELSE s2c[p]
  BY <1>1 DEF ServerTx
<1>5. Passes(m, p, g[0], g[1])
  <2>1. 1 \in 1 .. n + 1 /\ 1 - 1 = 0
    BY <1>1
  <2> QED BY <1>2, <2>1
<1> HIDE DEF n, k, m
<1>6. PICK h \in [0 .. n -> SeqNum] :
          /\ h[0] = g[1] /\ h[n] = g[n + 1]
          /\ \A i \in 1 .. n : h[i - 1] = g[i] /\ h[i] = g[i + 1]
  <2> DEFINE H == [i \in 0 .. n |-> g[i + 1]]
  <2>1. /\ H \in [0 .. n -> SeqNum] /\ H[0] = g[1] /\ H[n] = g[n + 1]
        /\ \A i \in 1 .. n : H[i - 1] = g[i] /\ H[i] = g[i + 1]
    BY <1>1, <1>2
  <2> HIDE DEF H
  <2> QED BY <2>1
<1>7. ASSUME NEW i \in 1 .. n PROVE Passes(txq'[i].seg, p, h[i - 1], h[i])
  <2>1. i + 1 \in 1 .. n + 1 /\ (i + 1) - 1 = i
    BY <1>1
  <2>2. Passes(txq[i + 1].seg, p, g[i], g[i + 1])
    BY <1>2, <2>1
  <2> QED BY <1>1, <1>6, <2>2
<1>8. CASE m.dest_port = PeerAddress[p].port
  <2>1. Follows(m, g[0], g[1]) /\ s2c'[p] = Append(s2c[p], m)
    <3>1. m.ip = PeerAddress[p].ip /\ Follows(m, g[0], g[1])
      BY <1>5, <1>8 DEF Passes
    <3>2. PeerAddress[p] = [ip |-> PeerAddress[p].ip, port |-> PeerAddress[p].port]
      BY PeersAssumption
    <3> QED BY <1>4, <1>8, <3>1, <3>2
  <2>2. /\ Len(s2c'[p]) = k + 1 /\ s2c'[p][k + 1] = m
        /\ \A i \in 1 .. k : s2c'[p][i] = s2c[p][i]
    BY <1>1, <1>2, <2>1 DEF k
  <2>3. PICK e \in [0 .. k + 1 -> SeqNum] :
            e[0] = f[0] /\ e[k + 1] = g[1] /\ \A i \in 0 .. k : e[i] = f[i]
    <3> DEFINE E == [i \in 0 .. k + 1 |-> IF i = k + 1 THEN g[1] ELSE f[i]]
    <3>1. g[1] \in SeqNum
      BY <1>1, <1>2
    <3>2. /\ E \in [0 .. k + 1 -> SeqNum] /\ E[0] = f[0] /\ E[k + 1] = g[1]
          /\ \A i \in 0 .. k : E[i] = f[i]
      BY <1>2, <3>1
    <3> HIDE DEF E
    <3> QED BY <3>2
  <2>4. ASSUME NEW i \in 1 .. k + 1 PROVE Follows(s2c'[p][i], e[i - 1], e[i])
    <3>1. CASE i = k + 1
      <4>1. i - 1 = k /\ k \in 0 .. k
        BY <1>2, <3>1
      <4> QED BY <1>2, <2>1, <2>2, <2>3, <3>1, <4>1
    <3>2. CASE i \in 1 .. k
      <4>1. i - 1 \in 0 .. k /\ i \in 0 .. k
        BY <1>2, <3>2
      <4> QED BY <1>2, <2>2, <2>3, <3>2, <4>1
    <3> QED BY <1>2, <3>1, <3>2
  <2>5. Chain(p, e, h)'
    BY <1>1, <1>2, <1>3, <1>6, <1>7, <2>2, <2>3, <2>4
       DEF Chain, Synced, Passes, Follows, Span
  <2> QED BY <1>1, <1>6, <2>2, <2>3, <2>5
<1>9. CASE m.dest_port # PeerAddress[p].port
  <2>1. g[1] = g[0] /\ s2c'[p] = s2c[p]
    BY <1>4, <1>5, <1>9 DEF Passes
  <2>2. Len(s2c'[p]) = k
    BY <2>1 DEF k
  <2>3. Chain(p, f, h)'
    BY <1>1, <1>2, <1>3, <1>6, <1>7, <2>1, <2>2
       DEF Chain, Synced, Passes, Follows, Span
  <2> QED BY <1>1, <1>2, <1>6, <2>2, <2>3
<1> QED BY <1>8, <1>9

\* A segment arrives at its peer, which expects what follows.
LEMMA ChainTaken ==
    ASSUME TypeOK, LinkTypeOK, NEW p \in Peers, NEW f, NEW g, Chain(p, f, g),
           Received(p, Head(s2c[p])), txq' = txq,
           Synced(p)' => \/ Synced(p)
                         \/ peer[p].st = "syn_sent" /\ Head(s2c[p]).syn
    PROVE  \E e \in [0 .. Len(s2c'[p]) -> SeqNum] : Chain(p, e, g)'
<1> DEFINE n == Len(s2c[p]) - 1
           m == Head(s2c[p])
<1>1. /\ n \in Nat /\ Len(s2c[p]) = n + 1 /\ Len(s2c'[p]) = n
      /\ m \in Segment /\ m = s2c[p][1]
      /\ \A i \in 1 .. n : s2c'[p][i] = s2c[p][i + 1]
  <2>1. s2c[p] \in Seq(Segment) /\ s2c[p] # <<>> /\ s2c'[p] = Tail(s2c[p])
    BY DEF LinkTypeOK, Received
  <2>2. /\ Len(s2c[p]) \in Nat \ {0} /\ m = s2c[p][1] /\ m \in Segment
        /\ Len(s2c'[p]) = Len(s2c[p]) - 1
        /\ \A i \in 1 .. Len(s2c[p]) - 1 : s2c'[p][i] = s2c[p][i + 1]
    BY <2>1, HeadTail
  <2> QED BY <2>2
<1>2. /\ f \in [0 .. n + 1 -> SeqNum] /\ f[n + 1] = g[0]
      /\ Synced(p) => f[0] = peer[p].rcv_nxt
      /\ \A i \in 1 .. n + 1 : Follows(s2c[p][i], f[i - 1], f[i])
  BY <1>1 DEF Chain
<1>3. Follows(m, f[0], f[1]) /\ f[0] \in SeqNum
  <2>1. 1 \in 1 .. n + 1 /\ 1 - 1 = 0 /\ 0 \in 0 .. n + 1
    BY <1>1
  <2> QED BY <1>1, <1>2, <2>1
<1>4. peer[p].st # "done" => peer'[p].rcv_nxt = Expects(p, m)
  BY DEF Received
<1>5. PICK e \in [0 .. n -> SeqNum] :
          /\ e[0] = f[1] /\ e[n] = f[n + 1]
          /\ \A i \in 1 .. n : e[i - 1] = f[i] /\ e[i] = f[i + 1]
  <2> DEFINE E == [i \in 0 .. n |-> f[i + 1]]
  <2>1. /\ E \in [0 .. n -> SeqNum] /\ E[0] = f[1] /\ E[n] = f[n + 1]
        /\ \A i \in 1 .. n : E[i - 1] = f[i] /\ E[i] = f[i + 1]
    BY <1>1, <1>2
  <2> HIDE DEF E
  <2> QED BY <2>1
<1> HIDE DEF n
<1>6. Synced(p)' => e[0] = peer'[p].rcv_nxt
  <2>1. CASE Synced(p)
    <3>1. /\ peer'[p].rcv_nxt = Expects(p, m) /\ f[0] = peer[p].rcv_nxt
          /\ peer[p].st # "syn_sent"
      BY <1>2, <1>4, <2>1 DEF Synced
    <3>2. CASE m.seq_num = peer[p].rcv_nxt
      BY <1>3, <1>5, <2>1, <3>1, <3>2 DEF Expects, Follows
    <3>3. CASE m.seq_num # peer[p].rcv_nxt
      <4>1. Span(m) = 0 /\ f[1] = Plus(f[0], Span(m))
        BY <1>3, <3>1, <3>3 DEF Follows
      <4>2. f[1] = f[0]
        BY <1>1, <1>3, <4>1, PlusSpan
      <4> QED BY <1>5, <2>1, <3>1, <3>3, <4>2 DEF Expects
    <3> QED BY <3>2, <3>3
  <2>2. CASE peer[p].st = "syn_sent" /\ m.syn
    <3>1. Span(m) # 0
      BY <1>1, <2>2, SpanType DEF Segment
    <3> QED BY <1>3, <1>4, <1>5, <2>2, <3>1 DEF Expects, Follows
  <2> QED BY <2>1, <2>2
<1>7. ASSUME NEW i \in 1 .. n PROVE Follows(s2c'[p][i], e[i - 1], e[i])
  <2>1. i + 1 \in 1 .. n + 1 /\ (i + 1) - 1 = i
    BY <1>1
  <2>2. Follows(s2c[p][i + 1], f[i], f[i + 1])
    BY <1>2, <2>1
  <2> QED BY <1>1, <1>5, <2>2
<1>8. Chain(p, e, g)'
  <2>1. /\ g \in [0 .. Len(txq) -> SeqNum]
        /\ \A i \in 1 .. Len(txq) : Passes(txq[i].seg, p, g[i - 1], g[i])
    BY DEF Chain
  <2> QED BY <1>1, <1>2, <1>5, <1>6, <1>7, <2>1 DEF Chain, Passes, Follows, Span
<1> QED BY <1>1, <1>5, <1>8

\* Nothing is on its way to a peer that has no connection: what the endpoint
\* sends it first starts the sequence.
LEMMA ChainEmpty ==
    ASSUME TypeOK, LinkTypeOK, NEW p \in Peers, Nothing(p), ~Synced(p),
           NEW a \in SeqNum
    PROVE  \E f \in [0 .. Len(s2c[p]) -> SeqNum], g \in [0 .. Len(txq) -> SeqNum] :
               Chain(p, f, g) /\ g[Len(txq)] = a
<1> DEFINE n == Len(txq)
           f == [i \in 0 .. 0 |-> a]
           g == [i \in 0 .. n |-> a]
<1>1. n \in Nat /\ Len(s2c[p]) = 0 /\ DOMAIN txq = 1 .. n
  BY ChainTypes DEF Nothing
<1>2. /\ f \in [0 .. Len(s2c[p]) -> SeqNum] /\ g \in [0 .. n -> SeqNum]
      /\ f[0] = a /\ g[n] = a /\ \A i \in 0 .. n : g[i] = a
  BY <1>1
<1>3. ASSUME NEW i \in 1 .. n PROVE Passes(txq[i].seg, p, g[i - 1], g[i])
  <2>1. i - 1 \in 0 .. n /\ i \in 0 .. n
    BY <1>1
  <2>2. txq[i].seg.dest_port # PeerAddress[p].port
    BY <1>1 DEF Nothing, Bound
  <2> QED BY <1>2, <2>1, <2>2 DEF Passes
<1> HIDE DEF f, g
<1>4. 0 \in 0 .. n /\ 1 .. Len(s2c[p]) = {}
  BY <1>1
<1>5. Chain(p, f, g)
  BY <1>1, <1>2, <1>3, <1>4 DEF Chain
<1> QED BY <1>2, <1>5

(***************************************************************************)
(* A step of the endpoint: the other sockets keep their numbers.           *)
(***************************************************************************)
Besides(t) ==
    \A u \in Sockets \ {t} :
        /\ state_'[u] = state_[u] /\ next_state_'[u] = next_state_[u]
        /\ out_seq_'[u] = out_seq_[u] /\ next_out_seq_'[u] = next_out_seq_[u]
        /\ out_port_'[u] = out_port_[u]
        /\ own'[u] = "listen" \/ own[u] # "listen"

\* The other sockets' part of the invariant.
LEMMA BesidesKept ==
    ASSUME SequenceInv, NEW t \in Sockets, Besides(t), NEW u \in Sockets \ {t}
    PROVE  /\ Counted(u)'
           /\ \A p \in Peers : Conn(u, p)' => Conn(u, p) /\ InSequence(u, p)
           /\ Receiving(u)' => Receiving(u)
           /\ NextOut(u)' = NextOut(u)
<1>1. Counted(u) /\ \A p \in Peers : Conn(u, p) => InSequence(u, p)
  BY DEF SequenceInv
<1>2. Counted(u)'
  BY <1>1 DEF Besides, Counted
<1>3. \A p \in Peers : Conn(u, p)' => Conn(u, p)
  BY DEF Besides, Conn
<1>4. Receiving(u)' => Receiving(u)
  BY DEF Besides, Receiving
<1>5. NextOut(u)' = NextOut(u)
  BY DEF Besides, NextOut
<1> QED BY <1>1, <1>2, <1>3, <1>4, <1>5

\* The endpoint sends nothing.
LEMMA SequenceStays ==
    ASSUME SequenceInv, NEW t \in Sockets, Besides(t), Counted(t)',
           UNCHANGED <<peer, s2c, txq>>,
           \A p \in Peers : Conn(t, p)' => Conn(t, p),
           Receiving(t)' => Receiving(t) /\ NextOut(t)' = NextOut(t)
    PROVE  SequenceInv'
<1>1. \A s \in Sockets : Counted(s)'
  BY BesidesKept
<1>2. ASSUME NEW s \in Sockets, NEW p \in Peers, Conn(s, p)' PROVE InSequence(s, p)'
  <2>1. /\ InSequence(s, p)
        /\ Receiving(s)' => Receiving(s) /\ NextOut(s)' = NextOut(s)
    BY <1>2, BesidesKept DEF SequenceInv
  <2>2. PICK f \in [0 .. Len(s2c[p]) -> SeqNum], g \in [0 .. Len(txq) -> SeqNum] :
            Chain(p, f, g) /\ (Receiving(s) => g[Len(txq)] = NextOut(s))
    BY <2>1 DEF InSequence
  <2>3. Chain(p, f, g)'
    BY <2>2, ChainStill DEF Synced
  <2>4. Receiving(s)' => g[Len(txq')] = NextOut(s)'
    BY <2>1, <2>2
  <2> QED BY <2>2, <2>3, <2>4 DEF InSequence
<1> QED BY <1>1, <1>2 DEF SequenceInv

\* The sequence goes on with what is sent.
LEMMA SentInSequence ==
    ASSUME TypeOK, LinkTypeOK, NEW s, NEW p \in Peers,
           NEW task \in Sockets \cup {Dispatcher}, NEW seg \in Segment,
           Transmit(task, seg), s2c'[p] = s2c[p], peer'[p] = peer[p],
           NEW f \in [0 .. Len(s2c[p]) -> SeqNum], NEW g \in [0 .. Len(txq) -> SeqNum],
           Chain(p, f, g), NEW b \in SeqNum, Passes(seg, p, g[Len(txq)], b),
           Receiving(s)' => b = NextOut(s)'
    PROVE  InSequence(s, p)'
<1>1. PICK h \in [0 .. Len(txq') -> SeqNum] : Chain(p, f, h)' /\ h[Len(txq')] = b
  BY ChainSent
<1>2. Receiving(s)' => h[Len(txq')] = NextOut(s)'
  BY <1>1
<1>3. Len(s2c'[p]) = Len(s2c[p])
  OBVIOUS
<1> QED BY <1>1, <1>2, <1>3 DEF InSequence

\* It sends a segment, where the sequence of the socket's peer has come to a.
LEMMA SequenceSent ==
    ASSUME LinkInv, LinkInv', SequenceInv, NEW t \in Sockets, Besides(t), Counted(t)',
           UNCHANGED <<peer, s2c>>,
           NEW task \in Sockets \cup {Dispatcher}, NEW seg \in Segment,
           Transmit(task, seg), seg.dest_port = out_port_'[t], seg.ip = ip_'[t],
           state_'[t] \notin {"none", "want_syn"}, NEW a,
           \A p \in Peers : Conn(t, p)' =>
               \E f \in [0 .. Len(s2c[p]) -> SeqNum], g \in [0 .. Len(txq) -> SeqNum] :
                   /\ Chain(p, f, g)
                   /\ Span(seg) # 0 \/ Receiving(t)' => g[Len(txq)] = a,
           Span(seg) # 0 => seg.seq_num = a,
           Receiving(t)' => NextOut(t)' = Plus(a, Span(seg))
    PROVE  SequenceInv'
<1>0. TypeOK /\ LinkTypeOK /\ ConnAddress'
  BY DEF LinkInv, ConnectionsInv
<1>1. \A s \in Sockets : Counted(s)'
  BY BesidesKept
<1>2. \A p \in Peers : Len(txq) \in Nat
  BY <1>0, ChainTypes
<1>3. ASSUME NEW s \in Sockets, NEW p \in Peers, NEW b \in SeqNum,
             NEW f \in [0 .. Len(s2c[p]) -> SeqNum], NEW g \in [0 .. Len(txq) -> SeqNum],
             Chain(p, f, g), Passes(seg, p, g[Len(txq)], b),
             Receiving(s)' => b = NextOut(s)'
      PROVE  InSequence(s, p)'
  <2>1. s2c'[p] = s2c[p] /\ peer'[p] = peer[p]
    OBVIOUS
  <2> QED BY <1>0, <1>3, <2>1, SentInSequence
<1>4. ASSUME NEW p \in Peers, Conn(t, p)' PROVE InSequence(t, p)'
  <2>1. PICK f \in [0 .. Len(s2c[p]) -> SeqNum], g \in [0 .. Len(txq) -> SeqNum] :
            /\ Chain(p, f, g)
            /\ Span(seg) # 0 \/ Receiving(t)' => g[Len(txq)] = a
    BY <1>4
  <2>2. seg.dest_port = PeerAddress[p].port /\ seg.ip = PeerAddress[p].ip
    BY <1>0, <1>4 DEF Conn, ConnAddress
  <2>3. PICK n \in SeqNum : n = g[Len(txq)]
    BY <1>2
  <2>4. PICK b \in SeqNum : b = Plus(n, Span(seg))
    BY PlusSpan
  <2>5. Passes(seg, p, g[Len(txq)], b)
    BY <2>1, <2>2, <2>3, <2>4 DEF Passes, Follows
  <2>6. Receiving(t)' => b = NextOut(t)'
    BY <2>1, <2>3, <2>4
  <2> QED BY <1>3, <2>1, <2>4, <2>5, <2>6
<1>5. ASSUME NEW s \in Sockets \ {t}, NEW p \in Peers, Conn(s, p)'
      PROVE  InSequence(s, p)'
  <2>1. /\ InSequence(s, p)
        /\ Receiving(s)' => Receiving(s) /\ NextOut(s)' = NextOut(s)
    BY <1>5, BesidesKept
  <2>2. PICK f \in [0 .. Len(s2c[p]) -> SeqNum], g \in [0 .. Len(txq) -> SeqNum] :
            Chain(p, f, g) /\ (Receiving(s) => g[Len(txq)] = NextOut(s))
    BY <2>1 DEF InSequence
  <2>3. seg.dest_port # PeerAddress[p].port
    BY <1>0, <1>5 DEF Conn, ConnAddress
  <2>4. PICK b \in SeqNum : b = g[Len(txq)]
    BY <1>2
  <2>5. Passes(seg, p, g[Len(txq)], b)
    BY <2>3, <2>4 DEF Passes
  <2>6. Receiving(s)' => b = NextOut(s)'
    BY <2>1, <2>2, <2>4
  <2> QED BY <1>3, <2>2, <2>4, <2>5, <2>6
<1>6. \A s \in Sockets, p \in Peers : Conn(s, p)' => InSequence(s, p)'
  BY <1>4, <1>5
<1> QED BY <1>1, <1>6 DEF SequenceInv

\* A connected socket sends, and what takes a number has the next one.
LEMMA SequenceGoesOn ==
    ASSUME LinkInv, LinkInv', SequenceInv, NEW t \in Sockets, Besides(t), Counted(t)',
           UNCHANGED <<peer, s2c>>,
           NEW task \in Sockets \cup {Dispatcher}, NEW seg \in Segment,
           Transmit(task, seg), seg.dest_port = out_port_'[t], seg.ip = ip_'[t],
           state_'[t] \notin {"none", "want_syn"},
           \A p \in Peers : Conn(t, p)' => Conn(t, p),
           Span(seg) # 0 => Receiving(t) /\ seg.seq_num = NextOut(t),
           Receiving(t)' => /\ Receiving(t)
                            /\ NextOut(t)' = Plus(NextOut(t), Span(seg))
    PROVE  SequenceInv'
<1>1. PICK a : a = NextOut(t)
  OBVIOUS
<1>2. ASSUME NEW p \in Peers, Conn(t, p)'
      PROVE  \E f \in [0 .. Len(s2c[p]) -> SeqNum], g \in [0 .. Len(txq) -> SeqNum] :
                 /\ Chain(p, f, g)
                 /\ Span(seg) # 0 \/ Receiving(t)' => g[Len(txq)] = a
  BY <1>1, <1>2 DEF SequenceInv, InSequence
<1> QED BY <1>1, <1>2, SequenceSent

\* The frames of a socket.
LEMMA FrameType ==
    ASSUME TypeOK, TypeOK', NEW s \in Sockets, NEW seq \in SeqNum,
           NEW syn \in BOOLEAN, NEW fin \in BOOLEAN, NEW payload \in Seq(Bytes)
    PROVE  /\ Frame(s, seq, syn, fin, payload) \in Segment
           /\ Ack(s) \in Segment /\ FinAck(s) \in Segment /\ SynAck(s) \in Segment
<1>1. /\ in_port_[s] \in Ports /\ out_port_'[s] \in RemotePorts /\ ip_'[s] \in Hosts
      /\ in_seq_'[s] \in SeqNum /\ out_seq_'[s] \in SeqNum
  BY DEF TypeOK
<1> QED BY <1>1, ReplyType DEF Frame, Segment

LEMMA FrameSpan ==
    ASSUME NEW s, NEW seq, NEW payload \in Seq(Bytes)
    PROVE  /\ Span(Ack(s)) = 0 /\ Span(FinAck(s)) = 1 /\ Span(SynAck(s)) = 1
           /\ Span(Frame(s, seq, FALSE, FALSE, payload)) = Len(payload)
<1>1. Len(payload) \in Nat /\ Len(<<>>) = 0
  OBVIOUS
<1>2. Len(payload) + 0 = Len(payload)
  BY <1>1
<1> QED BY <1>1, <1>2 DEF Span, Ack, FinAck, SynAck, Frame

\* A connection begins.
LEMMA SequenceTakeSyn ==
    ASSUME LinkInv, LinkInv', SequenceInv, NEW s \in Sockets, NEW pkt,
           state_[s] = "want_syn", TakeSyn(s, pkt), UNCHANGED <<peer, s2c>>
    PROVE  SequenceInv'
<1>0. /\ TypeOK /\ TypeOK' /\ LinkTypeOK /\ ConnAddress' /\ SocketInv(s) /\ OwnerInv(s)
      /\ \A p \in Peers : PeerInv(p)
  BY DEF LinkInv, ConnectionsInv, ActorsAgree
<1>1. own[s] = "listen" /\ own' = own
  <2>1. own[s] \in OwnerPcs
    BY <1>0 DEF TypeOK
  <2> QED BY <1>0, <2>1 DEF OwnerInv, SocketInv, OwnerPcs, Working, TakeSyn
<1>2. /\ state_'[s] = "want_ack" /\ next_state_'[s] = "connected"
      /\ out_seq_' = out_seq_ /\ next_out_seq_'[s] = Plus(out_seq_[s], 1)
      /\ Transmit(Dispatcher, SynAck(s))
  BY <1>0 DEF TakeSyn, TypeOK
<1>3. Besides(s) /\ Counted(s)'
  <2>1. \A u \in Sockets \ {s} :
            /\ state_'[u] = state_[u] /\ next_state_'[u] = next_state_[u]
            /\ next_out_seq_'[u] = next_out_seq_[u] /\ out_port_'[u] = out_port_[u]
    BY <1>0 DEF TakeSyn, TypeOK
  <2> QED BY <1>1, <1>2, <2>1 DEF Besides, Counted
<1>4. ASSUME NEW p \in Peers, Conn(s, p)'
      PROVE  \E f \in [0 .. Len(s2c[p]) -> SeqNum], g \in [0 .. Len(txq) -> SeqNum] :
                 Chain(p, f, g) /\ g[Len(txq)] = out_seq_[s]
  <2>1. \A t \in Sockets : Conn(t, p) => Conn(t, p)' /\ t # s
    BY <1>3 DEF Besides, Conn
  <2>2. NoConn(p)
    BY <1>0, <1>4, <2>1 DEF NoConn, ConnAddress
  <2>3. Nothing(p) /\ ~Synced(p)
    BY <1>0, <2>2 DEF PeerInv, Synced
  <2>4. out_seq_[s] \in SeqNum
    BY <1>0 DEF TypeOK
  <2> QED BY <1>0, <2>3, <2>4, ChainEmpty
<1>5. /\ SynAck(s) \in Segment /\ SynAck(s).dest_port = out_port_'[s]
      /\ SynAck(s).ip = ip_'[s] /\ SynAck(s).seq_num = out_seq_[s]
      /\ Span(SynAck(s)) = 1
  <2>1. out_seq_[s] \in SeqNum /\ <<>> \in Seq(Bytes)
    BY <1>0 DEF TypeOK
  <2>2. SynAck(s) \in Segment /\ Span(SynAck(s)) = 1
    BY <1>0, <2>1, FrameType, FrameSpan
  <2> QED BY <1>2, <2>2 DEF SynAck, Frame
<1>6. NextOut(s)' = Plus(out_seq_[s], Span(SynAck(s)))
  BY <1>2, <1>5 DEF NextOut
<1> DEFINE seg == SynAck(s)
           a == out_seq_[s]
<1>7. /\ seg \in Segment /\ Transmit(Dispatcher, seg)
      /\ seg.dest_port = out_port_'[s] /\ seg.ip = ip_'[s] /\ seg.seq_num = a
      /\ NextOut(s)' = Plus(a, Span(seg))
      /\ \A p \in Peers : Conn(s, p)' =>
             \E f \in [0 .. Len(s2c[p]) -> SeqNum], g \in [0 .. Len(txq) -> SeqNum] :
                 /\ Chain(p, f, g)
                 /\ Span(seg) # 0 \/ Receiving(s)' => g[Len(txq)] = a
  BY <1>2, <1>4, <1>5, <1>6
<1>8. state_'[s] \notin {"none", "want_syn"}
  BY <1>2
<1> HIDE DEF seg, a
<1> QED BY <1>3, <1>7, <1>8, SequenceSent

\* The last branch: an acknowledgement of the peer's FIN, or nothing.
LEMMA SequenceLast ==
    ASSUME LinkInv, LinkInv', SequenceInv, NEW s \in Sockets, NEW pkt,
           LastBranch(s, pkt), UNCHANGED <<peer, s2c>>
    PROVE  SequenceInv'
<1>0. TypeOK /\ TypeOK' /\ Counted(s)
  BY DEF LinkInv, SequenceInv
<1>1. /\ UNCHANGED <<address, control, next_out_seq_, own>>
      /\ state_' = state_ /\ next_state_' = next_state_ /\ out_port_' = out_port_
  BY DEF LastBranch, TakeFinAck, control, numbers, address
<1>2. \A p \in Peers : Conn(s, p)' => Conn(s, p)
  BY <1>1 DEF Conn
<1>3. CASE IsFinAck(s, pkt) /\ TakeFinAck(s, pkt)
  <2>1. \A u \in Sockets \ {s} : out_seq_'[u] = out_seq_[u]
    BY <1>0, <1>3 DEF TakeFinAck, TypeOK
  <2>2. /\ state_'[s] = "want_fin_ack" /\ ~Receiving(s)' /\ Counted(s)'
        /\ state_'[s] \notin {"none", "want_syn"}
    BY <1>1, <1>3 DEF IsFinAck, Receiving, Counted
  <2>3. Besides(s)
    BY <1>1, <2>1 DEF Besides
  <2> DEFINE seg == Ack(s)
  <2>4. /\ seg \in Segment /\ Transmit(Dispatcher, seg) /\ Span(seg) = 0
        /\ seg.dest_port = out_port_'[s] /\ seg.ip = ip_'[s]
    <3>1. out_seq_[s] \in SeqNum /\ <<>> \in Seq(Bytes)
      BY <1>0 DEF TypeOK
    <3>2. seg \in Segment /\ Span(seg) = 0
      BY <1>0, <3>1, FrameType, FrameSpan
    <3> QED BY <1>3, <3>2 DEF TakeFinAck, Ack, Frame
  <2> HIDE DEF seg
  <2> QED BY <1>2, <2>2, <2>3, <2>4, SequenceGoesOn
<1>4. CASE UNCHANGED <<sockets_, address, control, numbers, cancel_closed_, own, txq,
                       failed>>
  <2>1. out_seq_' = out_seq_ /\ next_out_seq_' = next_out_seq_ /\ txq' = txq /\ own' = own
    BY <1>4 DEF numbers
  <2>2. Besides(s) /\ Counted(s)' /\ (Receiving(s)' <=> Receiving(s))
        /\ NextOut(s)' = NextOut(s)
    BY <1>0, <1>1, <2>1 DEF Besides, Counted, Receiving, NextOut
  <2> QED BY <1>2, <2>1, <2>2, SequenceStays
<1> QED BY <1>3, <1>4 DEF LastBranch

\* The branches of a socket whose handshake is over.
LEMMA SequenceLater ==
    ASSUME LinkInv, LinkInv', SequenceInv, NEW s \in Sockets, NEW pkt,
           LaterBranches(s, pkt), UNCHANGED <<peer, s2c>>
    PROVE  SequenceInv'
<1>0. TypeOK /\ TypeOK' /\ Counted(s) /\ failed' = "no"
  BY DEF LinkInv, SequenceInv
<1>1. CASE LastBranch(s, pkt)
  BY <1>1, SequenceLast
<1>2. CASE AssertAckFails
  BY <1>0, <1>2 DEF AssertAckFails
<1>3. CASE state_[s] = "connected" /\ (TakeFin(s, pkt) \/ TakeData(s, pkt))
  <2>1. /\ out_seq_' = out_seq_ /\ next_out_seq_' = next_out_seq_ /\ own' = own
        /\ out_port_' = out_port_
    BY <1>3 DEF TakeFin, TakeData, address
  <2>2. /\ \A u \in Sockets \ {s} :
               state_'[u] = state_[u] /\ next_state_'[u] = next_state_[u]
        /\ TakeFin(s, pkt) => state_'[s] = "want_ack" /\ next_state_'[s] = "closed"
        /\ TakeData(s, pkt) => state_' = state_ /\ next_state_' = next_state_
    BY <1>0, <1>3 DEF TakeFin, TakeData, AfterFinClosed, control, TypeOK
  <2>3. Besides(s) /\ Counted(s)' /\ \A p \in Peers : Conn(s, p)' => Conn(s, p)
    BY <1>3, <2>1, <2>2 DEF Besides, Counted, Conn
  <2>4. Receiving(s) /\ NextOut(s) = out_seq_[s] /\ state_'[s] \notin {"none", "want_syn"}
    BY <1>3, <2>2 DEF Receiving, NextOut
  <2>5. out_seq_[s] \in SeqNum /\ <<>> \in Seq(Bytes)
    BY <1>0 DEF TypeOK
  <2>6. /\ Ack(s) \in Segment /\ FinAck(s) \in Segment
        /\ Span(Ack(s)) = 0 /\ Span(FinAck(s)) = 1
    BY <1>0, <2>5, FrameType, FrameSpan
  <2>7. CASE TakeFin(s, pkt)
    <3> DEFINE seg == FinAck(s)
    <3>1. /\ seg \in Segment /\ Transmit(Dispatcher, seg)
          /\ seg.dest_port = out_port_'[s] /\ seg.ip = ip_'[s]
          /\ seg.seq_num = NextOut(s)
      BY <2>1, <2>4, <2>6, <2>7 DEF TakeFin, FinAck, Frame
    <3>2. ~Receiving(s)'
      BY <2>2, <2>7 DEF Receiving
    <3> HIDE DEF seg
    <3> QED BY <2>3, <2>4, <3>1, <3>2, SequenceGoesOn
  <2>8. CASE TakeData(s, pkt)
    <3> DEFINE seg == Ack(s)
    <3>1. /\ seg \in Segment /\ Transmit(Dispatcher, seg) /\ Span(seg) = 0
          /\ seg.dest_port = out_port_'[s] /\ seg.ip = ip_'[s]
      BY <2>6, <2>8 DEF TakeData, Ack, Frame
    <3> HIDE DEF seg
    <3>2. NextOut(s)' = Plus(NextOut(s), Span(seg))
      <4>1. NextOut(s)' = NextOut(s) /\ NextOut(s) \in SeqNum
        BY <2>1, <2>2, <2>4, <2>5, <2>8 DEF NextOut
      <4> QED BY <3>1, <4>1, PlusSpan
    <3> QED BY <2>3, <2>4, <3>1, <3>2, SequenceGoesOn
  <2> QED BY <1>3, <2>7, <2>8
<1> QED BY <1>1, <1>2, <1>3 DEF LaterBranches

\* The awaited acknowledgement: the numbers it acknowledges are used up.
LEMMA SequenceTakeAck ==
    ASSUME LinkInv, SequenceInv, NEW s \in Sockets, state_[s] = "want_ack", TakeAck(s),
           UNCHANGED <<peer, s2c>>
    PROVE  SequenceInv'
<1>0. TypeOK
  BY DEF LinkInv
<1>1. /\ out_seq_'[s] = next_out_seq_[s] /\ state_'[s] = next_state_[s]
      /\ next_state_'[s] = "none" /\ state_'[s] \in {"none", "connected", "closed"}
      /\ out_port_' = out_port_ /\ next_out_seq_' = next_out_seq_ /\ txq' = txq
      /\ \A u \in Sockets \ {s} :
             /\ state_'[u] = state_[u] /\ next_state_'[u] = next_state_[u]
             /\ out_seq_'[u] = out_seq_[u]
  BY <1>0 DEF TakeAck, AdvanceOutSeq, TypeOK, address
<1>2. \A u \in Sockets \ {s} : own'[u] = own[u]
  <2>1. CASE next_state_[s] = "connected"
    BY <1>0, <2>1 DEF TakeAck, RaiseAfterAck, Raise, TypeOK
  <2>2. CASE next_state_[s] = "closed"
    BY <1>0, <2>2 DEF TakeAck, RaiseAfterAck, Raise, TypeOK
  <2>3. CASE next_state_[s] # "connected" /\ next_state_[s] # "closed"
    <3>1. own' = own
      BY <2>3, Zenon DEF TakeAck, RaiseAfterAck
    <3> QED BY <3>1
  <2> QED BY <2>1, <2>2, <2>3
<1>3. Besides(s)
  BY <1>1, <1>2 DEF Besides
<1>4. Counted(s)' /\ \A p \in Peers : Conn(s, p)' => Conn(s, p)
  BY <1>1 DEF Counted, Conn
<1>5. Receiving(s)' => Receiving(s) /\ NextOut(s)' = NextOut(s)
  BY <1>1 DEF Receiving, NextOut
<1> QED BY <1>1, <1>3, <1>4, <1>5, SequenceStays

\* The endpoint takes no step; what is on its way to the peers may be received.
LEMMA SequenceHeard ==
    ASSUME SequenceInv, UNCHANGED vars,
           \A q \in Peers : \A f, g : Chain(q, f, g) =>
               \E e \in [0 .. Len(s2c'[q]) -> SeqNum] : Chain(q, e, g)'
    PROVE  SequenceInv'
<1>1. /\ state_' = state_ /\ next_state_' = next_state_ /\ out_port_' = out_port_
      /\ out_seq_' = out_seq_ /\ next_out_seq_' = next_out_seq_ /\ own' = own
      /\ txq' = txq
  BY DEF vars, control, numbers, address
<1>2. \A s \in Sockets : Counted(s)'
  BY <1>1 DEF SequenceInv, Counted
<1>3. ASSUME NEW s \in Sockets, NEW p \in Peers, Conn(s, p)' PROVE InSequence(s, p)'
  <2>1. InSequence(s, p) /\ (Receiving(s)' <=> Receiving(s)) /\ NextOut(s)' = NextOut(s)
    BY <1>1, <1>3 DEF SequenceInv, Conn, Receiving, NextOut
  <2>2. PICK f \in [0 .. Len(s2c[p]) -> SeqNum], g \in [0 .. Len(txq) -> SeqNum] :
            Chain(p, f, g) /\ (Receiving(s) => g[Len(txq)] = NextOut(s))
    BY <2>1 DEF InSequence
  <2>3. PICK e \in [0 .. Len(s2c'[p]) -> SeqNum] : Chain(p, e, g)'
    BY <2>2
  <2>4. Receiving(s)' => g[Len(txq')] = NextOut(s)'
    BY <1>1, <2>1, <2>2
  <2> QED BY <1>1, <2>3, <2>4 DEF InSequence
<1> QED BY <1>2, <1>3 DEF SequenceInv

\* A peer sends.
LEMMA SequenceSays ==
    ASSUME LinkInv, NEW p \in Peers,
           Open(p) \/ Reopen(p) \/ SendRequest(p) \/ PeerClose(p)
    PROVE  /\ s2c' = s2c
           /\ \A q \in Peers : Synced(q)' => Synced(q) /\ peer'[q].rcv_nxt = peer[q].rcv_nxt
<1>0. LinkTypeOK /\ DOMAIN peer[p] = PeerFields
  BY DEF LinkInv, ConnectionsInv, LinkTypeOK, PeerOK
<1>1. CASE Reopen(p)
  BY <1>1 DEF Reopen, Synced
<1>2. ASSUME NEW m, NEW n, NEW changed, DOMAIN changed = PeerFields,
             PutKept(p, m, n, changed), changed.rcv_nxt = peer[p].rcv_nxt,
             changed.st \in {"established", "fin_sent"} => peer[p].st = "established",
             changed.st \in {"syn_sent", "established", "fin_sent"}
      PROVE  \A q \in Peers :
                 Synced(q)' => Synced(q) /\ peer'[q].rcv_nxt = peer[q].rcv_nxt
  <2>1. /\ \A q \in Peers \ {p} : peer'[q] = peer[q]
        /\ peer'[p].st = changed.st /\ peer'[p].rcv_nxt = changed.rcv_nxt
    BY <1>0, <1>2, PutKeptType
  <2> QED BY <1>2, <2>1 DEF Synced
<1>3. CASE Open(p)
  <2> DEFINE c == [peer[p] EXCEPT !.st = "syn_sent"]
  <2>1. DOMAIN c = PeerFields /\ c.st = "syn_sent" /\ c.rcv_nxt = peer[p].rcv_nxt
    BY <1>0 DEF PeerFields
  <2>2. \E m, n : PutKept(p, m, n, c)
    BY <1>3 DEF Open
  <2> HIDE DEF c
  <2> QED BY <1>2, <1>3, <2>1, <2>2 DEF Open
<1>4. CASE PeerClose(p)
  <2> DEFINE c == [peer[p] EXCEPT !.st = "fin_sent"]
  <2>1. DOMAIN c = PeerFields /\ c.st = "fin_sent" /\ c.rcv_nxt = peer[p].rcv_nxt
    BY <1>0 DEF PeerFields
  <2>2. (\E m, n : PutKept(p, m, n, c)) /\ peer[p].st = "established"
    BY <1>4 DEF PeerClose
  <2> HIDE DEF c
  <2> QED BY <1>2, <1>4, <2>1, <2>2 DEF PeerClose
<1>5. CASE SendRequest(p)
  <2> DEFINE c == [peer[p] EXCEPT !.at = peer[p].at + 1]
  <2>1. DOMAIN c = PeerFields /\ c.st = peer[p].st /\ c.rcv_nxt = peer[p].rcv_nxt
    BY <1>0 DEF PeerFields
  <2>2. (\E m, n : PutKept(p, m, n, c)) /\ peer[p].st = "established"
    BY <1>5 DEF SendRequest
  <2>3. s2c' = s2c
    BY <1>5 DEF SendRequest
  <2> HIDE DEF c
  <2> QED BY <1>2, <2>1, <2>2, <2>3
<1> QED BY <1>1, <1>3, <1>4, <1>5

\* A step of a peer.
LEMMA SequencePeer ==
    ASSUME LinkInv, BudgetOK, SequenceInv, NothingLost, NEW p \in Peers,
           PeerStep(p) \/ Lose(p)
    PROVE  SequenceInv'
<1>0. TypeOK /\ LinkTypeOK
  BY DEF LinkInv, ConnectionsInv
<1>1. ~Lose(p) /\ ~Retransmit(p)
  <2>1. losses \in Nat /\ retries \in Nat
    BY DEF BudgetOK
  <2> QED BY <2>1 DEF NothingLost, Lose, Retransmit
<1>2. UNCHANGED vars /\ txq' = txq
  BY DEF PeerStep, Lose, vars
<1>3. CASE Open(p) \/ Reopen(p) \/ SendRequest(p) \/ PeerClose(p)
  <2>1. /\ s2c' = s2c
        /\ \A q \in Peers :
               Synced(q)' => Synced(q) /\ peer'[q].rcv_nxt = peer[q].rcv_nxt
    BY <1>3, SequenceSays
  <2>2. ASSUME NEW q \in Peers, NEW f, NEW g, Chain(q, f, g)
        PROVE  \E e \in [0 .. Len(s2c'[q]) -> SeqNum] : Chain(q, e, g)'
    <3>1. Chain(q, f, g)'
      BY <1>2, <2>1, <2>2, ChainStill
    <3>2. f \in [0 .. Len(s2c'[q]) -> SeqNum]
      BY <2>1, <2>2 DEF Chain
    <3> QED BY <3>1, <3>2
  <2> QED BY <1>2, <2>2, SequenceHeard
<1>4. CASE PeerReceive(p)
  <2>1. /\ Received(p, Head(s2c[p]))
        /\ \A q \in Peers \ {p} : s2c'[q] = s2c[q] /\ peer'[q] = peer[q]
        /\ \/ Handshakes(p, Head(s2c[p])) \/ Takes(p, Head(s2c[p]))
           \/ Ends(p, Head(s2c[p])) \/ Over(p)
    BY <1>0, <1>4, ReceiveShape
  <2>2. Synced(p)' => Synced(p) \/ (peer[p].st = "syn_sent" /\ Head(s2c[p]).syn)
    BY <2>1 DEF Synced, Handshakes, Takes, Ends, Over
  <2>3. ASSUME NEW q \in Peers, NEW f, NEW g, Chain(q, f, g)
        PROVE  \E e \in [0 .. Len(s2c'[q]) -> SeqNum] : Chain(q, e, g)'
    <3>1. CASE q = p
      BY <1>0, <1>2, <2>1, <2>2, <2>3, <3>1, ChainTaken
    <3>2. CASE q # p
      <4>1. s2c'[q] = s2c[q] /\ peer'[q] = peer[q]
        BY <2>1, <3>2
      <4>2. Chain(q, f, g)'
        BY <1>2, <2>3, <4>1, ChainStill DEF Synced
      <4>3. f \in [0 .. Len(s2c'[q]) -> SeqNum]
        BY <2>3, <4>1 DEF Chain
      <4> QED BY <4>2, <4>3
    <3> QED BY <3>1, <3>2
  <2> QED BY <1>2, <2>3, SequenceHeard
<1> QED BY <1>1, <1>3, <1>4 DEF PeerStep

\* A segment of a peer arrives at the endpoint.
LEMMA SequenceDeliver ==
    ASSUME LinkInv, LinkInv', SequenceInv, PolitePeers, NEW p \in Peers, Deliver(p)
    PROVE  SequenceInv'
<1>1. TypeOK /\ LinkTypeOK /\ PeerInv(p)
  BY DEF LinkInv, ConnectionsInv
<1>2. PICK m : m = Head(c2s[p])
  OBVIOUS
<1>3. c2s[p] # <<>> /\ PushPacket(m) /\ UNCHANGED <<peer, s2c>>
  BY <1>2 DEF Deliver
<1>4. From(m, p)
  <2>1. /\ m = c2s[p][1] /\ Len(c2s[p]) \in Nat /\ Len(c2s[p]) > 0
        /\ DOMAIN c2s[p] = 1 .. Len(c2s[p])
    BY <1>1, <1>2, <1>3, HeadTaken DEF Deliver
  <2>2. 1 \in 1 .. Len(c2s[p])
    BY <2>1
  <2> QED BY <1>1, <2>1, <2>2 DEF PeerInv
<1>5. CASE Candidates(m) = {} /\ UNCHANGED vars
  <2>1. txq' = txq
    BY <1>5 DEF vars
  <2>2. ASSUME NEW q \in Peers, NEW f, NEW g, Chain(q, f, g)
        PROVE  \E e \in [0 .. Len(s2c'[q]) -> SeqNum] : Chain(q, e, g)'
    <3>1. Chain(q, f, g)' /\ f \in [0 .. Len(s2c'[q]) -> SeqNum]
      BY <1>3, <2>1, <2>2, ChainStill DEF Synced, Chain
    <3> QED BY <3>1
  <2> QED BY <1>5, <2>2, SequenceHeard
<1>6. ASSUME NEW i \in Candidates(m), ProcessPacket(sockets_[i], m) PROVE SequenceInv'
  <2>1. PICK s \in Sockets : s = sockets_[i]
    BY <1>4, <1>6, Target
  <2>2. \/ IsAwaitedAck(s, m) /\ TakeAck(s)
        \/ IsSyn(s, m) /\ TakeSyn(s, m)
        \/ LaterBranches(s, m)
    BY <1>6, <2>1 DEF ProcessPacket
  <2>3. CASE IsAwaitedAck(s, m) /\ TakeAck(s)
    BY <1>3, <2>3, SequenceTakeAck DEF IsAwaitedAck
  <2>4. CASE IsSyn(s, m) /\ TakeSyn(s, m)
    BY <1>3, <2>4, SequenceTakeSyn DEF IsSyn
  <2>5. CASE LaterBranches(s, m)
    BY <1>3, <2>5, SequenceLater
  <2> QED BY <2>2, <2>3, <2>4, <2>5
<1> QED BY <1>3, <1>5, <1>6 DEF PushPacket

\* The dispatcher goes on after its reply.
LEMMA SequenceReply ==
    ASSUME LinkInv, LinkInv', SequenceInv, Reply
    PROVE  SequenceInv'
<1>1. AfterReply /\ UNCHANGED <<peer, s2c>>
  BY DEF Reply, net
<1>2. TypeOK
  BY DEF LinkInv
<1>3. PICK s \in Sockets : s = disp.sock
  <2>1. disp.pc # "idle"
    BY <1>1 DEF AfterReply, AfterSynAck, AfterFinAck, AfterDataAck, AfterLastAck, Resumed
  <2> QED BY <1>2, <2>1 DEF TypeOK, Idle
<1>4. CASE AfterSynAck
  BY <1>1, <1>3, <1>4, SequenceLater DEF AfterSynAck
<1>5. CASE AfterFinAck \/ AfterDataAck
  BY <1>1, <1>3, <1>5, SequenceLast DEF AfterFinAck, AfterDataAck
<1>6. CASE AfterLastAck
  <2>1. /\ state_' = [state_ EXCEPT ![s] = "closed"] /\ Raise(s, "close_wait", "close_woken")
        /\ next_state_' = next_state_ /\ out_port_' = out_port_ /\ txq' = txq
        /\ out_seq_' = out_seq_ /\ next_out_seq_' = next_out_seq_
        /\ disp.pc = "last_ack"
    BY <1>3, <1>6 DEF AfterLastAck, numbers, address, Resumed
  <2>2. /\ state_'[s] = "closed"
        /\ \A u \in Sockets \ {s} : state_'[u] = state_[u] /\ own'[u] = own[u]
    BY <1>2, <2>1 DEF TypeOK, Raise
  <2>3. Besides(s) /\ Counted(s)' /\ ~Receiving(s)'
    BY <2>1, <2>2 DEF Besides, Counted, Receiving
  <2>4. state_[s] = "want_fin_ack"
    BY <1>3, <2>1 DEF LinkInv, ActorsAgree, DispatcherInv
  <2>5. \A p \in Peers : Conn(s, p)' => Conn(s, p)
    BY <2>1, <2>4 DEF Conn
  <2> QED BY <1>1, <2>1, <2>3, <2>5, SequenceStays
<1> QED BY <1>1, <1>4, <1>5, <1>6 DEF AfterReply

\* A frame leaves the NIC.
LEMMA SequenceTransmitted ==
    ASSUME LinkInv, SequenceInv, ServerTx
    PROVE  SequenceInv'
<1>0. TypeOK /\ LinkTypeOK
  BY DEF LinkInv, ConnectionsInv
<1>1. /\ state_' = state_ /\ next_state_' = next_state_ /\ out_port_' = out_port_
      /\ out_seq_' = out_seq_ /\ next_out_seq_' = next_out_seq_ /\ own' = own
  BY DEF ServerTx, TxDone, control, numbers, address
<1>2. \A s \in Sockets : Counted(s)'
  BY <1>1 DEF SequenceInv, Counted
<1>3. ASSUME NEW s \in Sockets, NEW p \in Peers, Conn(s, p)' PROVE InSequence(s, p)'
  <2>1. InSequence(s, p) /\ (Receiving(s)' <=> Receiving(s)) /\ NextOut(s)' = NextOut(s)
    BY <1>1, <1>3 DEF SequenceInv, Conn, Receiving, NextOut
  <2>2. PICK f \in [0 .. Len(s2c[p]) -> SeqNum], g \in [0 .. Len(txq) -> SeqNum] :
            Chain(p, f, g) /\ (Receiving(s) => g[Len(txq)] = NextOut(s))
    BY <2>1 DEF InSequence
  <2>3. PICK e \in [0 .. Len(s2c'[p]) -> SeqNum], h \in [0 .. Len(txq') -> SeqNum] :
            Chain(p, e, h)' /\ h[Len(txq')] = g[Len(txq)]
    BY <1>0, <2>2, ChainMoved
  <2>4. Receiving(s)' => h[Len(txq')] = NextOut(s)'
    BY <2>1, <2>2, <2>3
  <2> QED BY <2>3, <2>4 DEF InSequence
<1> QED BY <1>2, <1>3 DEF SequenceInv

\* The accept loop allocates a socket.
LEMMA SequenceAllocate ==
    ASSUME LinkInv, SequenceInv, NEW t \in Sockets, NEW port, Allocate(t, port),
           own'[t] = "listen",
           \A u \in Sockets \ {t} : own'[u] = own[u] \/ own[u] # "listen",
           UNCHANGED <<out_port_, ip_, next_state_, numbers, txq, peer, s2c>>
    PROVE  SequenceInv'
<1>1. /\ state_'[t] = "want_syn"
      /\ \A u \in Sockets \ {t} : state_'[u] = state_[u]
  BY DEF Allocate, LinkInv, TypeOK
<1>2. out_seq_' = out_seq_ /\ next_out_seq_' = next_out_seq_
  BY DEF numbers
<1>3. Besides(t)
  BY <1>1, <1>2 DEF Besides
<1>4. /\ Counted(t)' /\ ~Receiving(t)'
      /\ \A p \in Peers : Conn(t, p)' => Conn(t, p)
  BY <1>1 DEF Counted, Receiving, Conn
<1> QED BY <1>3, <1>4, SequenceStays

\* Only the place of the worker changes.
LEMMA SequenceWaits ==
    ASSUME LinkInv, SequenceInv, NEW s \in Sockets, own[s] # "listen", NEW x,
           own' = [own EXCEPT ![s] = x],
           UNCHANGED <<address, control, numbers, txq, peer, s2c>>
    PROVE  SequenceInv'
<1>1. /\ state_' = state_ /\ next_state_' = next_state_ /\ out_port_' = out_port_
      /\ out_seq_' = out_seq_ /\ next_out_seq_' = next_out_seq_
  BY DEF control, numbers, address
<1>2. \A u \in Sockets \ {s} : own'[u] = own[u]
  BY DEF LinkInv, TypeOK
<1>3. Besides(s)
  BY <1>1, <1>2 DEF Besides
<1>4. /\ Counted(s)' /\ (Receiving(s)' <=> Receiving(s)) /\ NextOut(s)' = NextOut(s)
      /\ \A p \in Peers : Conn(s, p)' => Conn(s, p)
  BY <1>1 DEF SequenceInv, Counted, Receiving, NextOut, Conn
<1> QED BY <1>3, <1>4, SequenceStays

\* The worker answers: the data takes the numbers that come next.
LEMMA SequenceSend ==
    ASSUME LinkInv, LinkInv', SequenceInv, NEW s \in Sockets, own[s] # "listen",
           NEW data \in Responses, Send(s, data), UNCHANGED <<peer, s2c>>
    PROVE  SequenceInv'
<1>0. TypeOK /\ TypeOK' /\ failed' = "no"
  BY DEF LinkInv
<1>1. CASE own' = [own EXCEPT ![s] = "loop"] /\ UNCHANGED <<address, control, numbers, txq>>
  BY <1>1, SequenceWaits
<1>2. CASE /\ state_[s] = "connected"
           /\ out_seq_' = [out_seq_ EXCEPT ![s] = Plus(@, Len(data))]
           /\ next_out_seq_' = [next_out_seq_ EXCEPT ![s] = out_seq_'[s]]
           /\ next_state_' = [next_state_ EXCEPT ![s] = "connected"]
           /\ state_' = [state_ EXCEPT ![s] = "want_ack"]
           /\ own' = [own EXCEPT ![s] = "send"]
           /\ UNCHANGED address
           /\ Transmit(s, Frame(s, out_seq_[s], FALSE, FALSE, data))
  <2>1. /\ out_seq_'[s] = Plus(out_seq_[s], Len(data))
        /\ next_out_seq_'[s] = out_seq_'[s]
        /\ state_'[s] = "want_ack" /\ next_state_'[s] = "connected"
        /\ out_port_' = out_port_
    BY <1>0, <1>2 DEF TypeOK, address
  <2>2. Besides(s)
    BY <1>0, <1>2 DEF Besides, TypeOK, address
  <2>3. /\ Counted(s)' /\ Receiving(s) /\ NextOut(s) = out_seq_[s]
        /\ NextOut(s)' = out_seq_'[s] /\ state_'[s] \notin {"none", "want_syn"}
        /\ \A p \in Peers : Conn(s, p)' => Conn(s, p)
    BY <1>2, <2>1 DEF Counted, Receiving, NextOut, Conn
  <2>4. PICK seg : seg = Frame(s, out_seq_[s], FALSE, FALSE, data)
    OBVIOUS
  <2>5. /\ seg \in Segment /\ Span(seg) = Len(data) /\ Transmit(s, seg)
        /\ seg.dest_port = out_port_'[s] /\ seg.ip = ip_'[s] /\ seg.seq_num = out_seq_[s]
    <3>1. out_seq_[s] \in SeqNum /\ data \in Seq(Bytes)
      BY <1>0, ResponsesAssumption DEF TypeOK
    <3>2. seg \in Segment /\ Span(seg) = Len(data)
      BY <1>0, <2>4, <3>1, FrameType, FrameSpan
    <3> QED BY <1>2, <2>4, <3>2 DEF Frame
  <2>6. NextOut(s)' = Plus(NextOut(s), Span(seg))
    BY <2>1, <2>3, <2>5
  <2> QED BY <2>2, <2>3, <2>5, <2>6, SequenceGoesOn
<1> QED BY <1>0, <1>1, <1>2 DEF Send

\* `delete this`.
LEMMA SequenceDestroy ==
    ASSUME LinkInv, SequenceInv, NEW s \in Sockets, own[s] # "listen", Destroy(s),
           UNCHANGED <<peer, s2c>>
    PROVE  SequenceInv'
BY SequenceWaits DEF Destroy

\* The worker closes: its FIN follows what it sent.
LEMMA SequenceClose ==
    ASSUME LinkInv, LinkInv', SequenceInv, NEW s \in Sockets, Close(s),
           UNCHANGED <<peer, s2c>>
    PROVE  SequenceInv'
<1>0. TypeOK /\ TypeOK' /\ own[s] = "loop" /\ Counted(s)
  BY DEF LinkInv, Close, SequenceInv
<1>1. CASE /\ ClosesActively(s)
           /\ state_' = [state_ EXCEPT ![s] = "want_fin_ack"]
           /\ own' = [own EXCEPT ![s] = "close_fin"]
           /\ UNCHANGED <<address, next_state_, numbers>>
           /\ Transmit(s, FinAck(s))
  <2>1. /\ state_'[s] = "want_fin_ack"
        /\ out_seq_' = out_seq_ /\ next_out_seq_' = next_out_seq_
        /\ out_port_' = out_port_
    BY <1>0, <1>1 DEF TypeOK, address, numbers
  <2>2. Besides(s)
    BY <1>0, <1>1, <2>1 DEF Besides, TypeOK
  <2>3. /\ Receiving(s) /\ NextOut(s) = out_seq_[s] /\ Counted(s)' /\ ~Receiving(s)'
        /\ state_'[s] \notin {"none", "want_syn"}
        /\ \A p \in Peers : Conn(s, p)' => Conn(s, p)
    BY <1>0, <1>1, <2>1 DEF ClosesActively, Receiving, NextOut, Counted, Conn
  <2>4. PICK seg : seg = FinAck(s)
    OBVIOUS
  <2>5. /\ seg \in Segment /\ Transmit(s, seg) /\ seg.seq_num = NextOut(s)
        /\ seg.dest_port = out_port_'[s] /\ seg.ip = ip_'[s]
    <3>1. out_seq_[s] \in SeqNum /\ <<>> \in Seq(Bytes)
      BY <1>0 DEF TypeOK
    <3>2. seg \in Segment
      BY <1>0, <2>4, <3>1, FrameType
    <3> QED BY <1>1, <2>1, <2>3, <2>4, <3>2 DEF FinAck, Frame
  <2> QED BY <2>2, <2>3, <2>5, SequenceGoesOn
<1>2. CASE own' = [own EXCEPT ![s] = "close_wait"] /\ UNCHANGED <<address, control, numbers, txq>>
  BY <1>0, <1>2, SequenceWaits
<1>3. CASE Destroy(s)
  BY <1>0, <1>3, SequenceDestroy
<1> QED BY <1>1, <1>2, <1>3 DEF Close

\* A step of a worker.
LEMMA SequenceWorks ==
    ASSUME LinkInv, LinkInv', SequenceInv, NEW s \in Sockets, LinkWorker(s)
    PROVE  SequenceInv'
<1>0. TypeOK /\ UNCHANGED <<peer, s2c>>
  BY DEF LinkInv, LinkWorker, net
<1>1. CASE Accept(s)
  <2>1. own[s] = "notified" /\ UNCHANGED <<out_port_, ip_, next_state_, numbers, txq>>
    BY <1>1 DEF Accept
  <2>2. ASSUME NEW t \in Sockets, own[t] = "unborn", Allocate(t, in_port_[s]),
               own' = [own EXCEPT ![s] = "loop", ![t] = "listen"]
        PROVE  SequenceInv'
    <3>1. /\ s # t /\ own'[t] = "listen"
          /\ \A u \in Sockets \ {t} : own'[u] = own[u] \/ own[u] # "listen"
      BY <1>0, <2>1, <2>2 DEF TypeOK
    <3> QED BY <1>0, <2>1, <2>2, <3>1, SequenceAllocate
  <2>3. CASE /\ own' = [own EXCEPT ![s] = "loop"]
             /\ UNCHANGED <<sockets_, in_port_, state_>>
    <3>1. UNCHANGED <<address, control>>
      BY <2>1, <2>3 DEF address, control
    <3> QED BY <1>0, <2>1, <2>3, <3>1, SequenceWaits
  <2> QED BY <1>1, <2>2, <2>3 DEF Accept
<1>2. CASE RecvWait(s) \/ Cancelled(s) \/ SendDone(s) \/ Ignore(s)
  <2>1. /\ own[s] # "listen" /\ UNCHANGED <<address, control, numbers, txq>>
        /\ own' = [own EXCEPT ![s] = "recv"] \/ own' = [own EXCEPT ![s] = "loop"]
    BY <1>2 DEF RecvWait, Cancelled, SendDone, Ignore, Take
  <2> QED BY <1>0, <2>1, SequenceWaits
<1>3. CASE Answer(s)
  <2>1. own[s] # "listen"
    BY <1>3 DEF Answer, Take
  <2> QED BY <1>0, <1>3, <2>1, SequenceSend DEF Answer
<1>4. CASE Close(s)
  BY <1>0, <1>4, SequenceClose
<1>5. CASE FinSent(s) \/ Closed(s)
  <2>1. own[s] # "listen"
    BY <1>5 DEF FinSent, Closed
  <2>2. \/ Destroy(s)
        \/ /\ own' = [own EXCEPT ![s] = "close_wait"]
           /\ UNCHANGED <<address, control, numbers, txq>>
    BY <1>5 DEF FinSent, Closed
  <2> QED BY <1>0, <2>1, <2>2, SequenceDestroy, SequenceWaits
<1> QED BY <1>1, <1>2, <1>3, <1>4, <1>5 DEF LinkWorker

\* At first nothing is on its way, and no peer has a connection.
LEMMA SequenceInit == LinkInit => SequenceInv
<1> SUFFICES ASSUME LinkInit PROVE SequenceInv
  OBVIOUS
<1>1. \A s \in Sockets : state_[s] = "none"
  BY DEF LinkInit, Init
<1> QED BY <1>1 DEF SequenceInv, Conn, Counted

\* Every step keeps the numbers in sequence.
LEMMA SequenceNext ==
    ASSUME PolitePeers, NothingLost, LinkInv, LinkInv', BudgetOK, SequenceInv,
           [LinkNext]_linkVars
    PROVE  SequenceInv'
<1>1. CASE UNCHANGED linkVars
  <2>1. UNCHANGED vars /\ txq' = txq /\ peer' = peer /\ s2c' = s2c
    BY <1>1 DEF linkVars, vars, net
  <2>2. ASSUME NEW q \in Peers, NEW f, NEW g, Chain(q, f, g)
        PROVE  \E e \in [0 .. Len(s2c'[q]) -> SeqNum] : Chain(q, e, g)'
    <3>1. Chain(q, f, g)' /\ f \in [0 .. Len(s2c'[q]) -> SeqNum]
      BY <2>1, <2>2, ChainStill DEF Synced, Chain
    <3> QED BY <3>1
  <2> QED BY <2>1, <2>2, SequenceHeard
<1>2. ASSUME NEW p \in Peers, PeerStep(p) \/ Lose(p) PROVE SequenceInv'
  BY <1>2, SequencePeer
<1>3. ASSUME NEW p \in Peers, Deliver(p) PROVE SequenceInv'
  BY <1>3, SequenceDeliver
<1>4. CASE ServerTx
  BY <1>4, SequenceTransmitted
<1>5. CASE Reply
  BY <1>5, SequenceReply
<1>6. CASE LinkListen
  <2>1. PICK t \in Sockets : Listen(t, ServerPort)
    BY <1>6 DEF LinkListen
  <2>2. own'[t] = "listen" /\ \A u \in Sockets \ {t} : own'[u] = own[u]
    BY <2>1 DEF Listen, LinkInv, TypeOK
  <2>3. UNCHANGED <<peer, s2c>>
    BY <1>6 DEF LinkListen, net
  <2> QED BY <2>1, <2>2, <2>3, SequenceAllocate DEF Listen
<1>7. ASSUME NEW s \in Sockets, LinkWorker(s) PROVE SequenceInv'
  BY <1>7, SequenceWorks
<1> QED BY <1>1, <1>2, <1>3, <1>4, <1>5, <1>6, <1>7 DEF LinkNext

\* What is next in sequence is what the peer expects.
LEMMA TakesAllHolds == LinkInv /\ SequenceInv => PeerTakesAll
<1> SUFFICES ASSUME LinkInv, SequenceInv, NEW p \in Peers, s2c[p] # <<>>,
                    Span(Head(s2c[p])) > 0, peer[p].st \notin {"syn_sent", "done"}
             PROVE  Head(s2c[p]).seq_num = peer[p].rcv_nxt
  BY DEF PeerTakesAll
<1>1. TypeOK /\ LinkTypeOK /\ PeerInv(p) /\ PeerOK(p)
  BY DEF LinkInv, ConnectionsInv, LinkTypeOK
<1>2. PICK s \in Sockets : Conn(s, p)
  BY <1>1 DEF PeerInv, Nothing, NoConn
<1>3. Synced(p)
  <2>1. peer[p].st \in PeerStates /\ peer[p].st # "closed"
    BY <1>1, <1>2 DEF PeerOK, PeerInv, NoConn
  <2> QED BY <2>1 DEF PeerStates, Synced
<1>4. PICK f, g : Chain(p, f, g)
  BY <1>2 DEF SequenceInv, InSequence
<1>5. f[0] = peer[p].rcv_nxt /\ \A i \in 1 .. Len(s2c[p]) : Follows(s2c[p][i], f[i - 1], f[i])
  BY <1>3, <1>4 DEF Chain
<1>6. Len(s2c[p]) \in Nat \ {0} /\ Head(s2c[p]) = s2c[p][1]
  <2>1. s2c[p] \in Seq(Segment)
    BY <1>1 DEF LinkTypeOK
  <2> QED BY <2>1, HeadTail
<1>7. Follows(Head(s2c[p]), f[0], f[1])
  <2>1. 1 \in 1 .. Len(s2c[p]) /\ 1 - 1 = 0
    BY <1>6
  <2> QED BY <1>5, <1>6, <2>1
<1>8. Span(Head(s2c[p])) # 0
  OBVIOUS
<1> QED BY <1>5, <1>7, <1>8 DEF Follows

-----------------------------------------------------------------------------
\* What a socket hands to its worker is the byte stream of its peer, from the
\* start and without a gap, a repetition or a byte of another peer, whatever the
\* order in which the peers, the network, the dispatcher and the workers run
\* (process_packet, process_in_packet, recv): for every number of peers and
\* sockets, every script and every initial sequence number.  The peers are
\* polite and have ports of their own; either nothing is lost, or what is lost
\* is repeated and distinguishable from new data.
THEOREM StreamDelivered == PolitePeers => (LinkSpec => []StreamInOrder)
<1> SUFFICES ASSUME PolitePeers PROVE LinkSpec => []StreamInOrder
  OBVIOUS
<1>1. LinkInv /\ BudgetOK /\ [LinkNext]_linkVars => (LinkInv /\ BudgetOK)'
  BY LinkInvNext
<1>2. LinkInv => StreamInOrder
  BY StreamHolds
<1> QED BY <1>1, <1>2, LinkInvInit, PTL DEF LinkSpec

\* With such peers neither assertion of the endpoint fails: every segment a
\* connected socket takes carries an ACK, and a worker that answers is still
\* connected (process_packet, send).
THEOREM AssertsNeverFail == PolitePeers => (LinkSpec => []AssertsHold)
<1> SUFFICES ASSUME PolitePeers PROVE LinkSpec => []AssertsHold
  OBVIOUS
<1>1. LinkInv /\ BudgetOK /\ [LinkNext]_linkVars => (LinkInv /\ BudgetOK)'
  BY LinkInvNext
<1>2. LinkInv => AssertsHold
  BY DEF LinkInv, AssertsHold, AssertAckHolds, AssertConnectedHolds
<1> QED BY <1>1, <1>2, LinkInvInit, PTL DEF LinkSpec

\* What a peer has got an acknowledgement of, the application will see: it is in
\* the receive queue of the peer's socket, or the dispatcher, which sends the
\* acknowledgement first, is about to put it in (process_packet), as long as the
\* owner has not closed the socket.  The network loses what it likes, in either
\* direction, and the peers repeat what is not acknowledged.
THEOREM AcknowledgedDelivered ==
    PolitePeers /\ Lossy => (LinkSpec => []AckedIsDelivered)
<1> SUFFICES ASSUME PolitePeers, Lossy PROVE LinkSpec => []AckedIsDelivered
  OBVIOUS
<1>1. LinkInit => LinkInv /\ BudgetOK /\ CloseCancels
  <2>1. LinkInit => CloseCancels
    BY DEF LinkInit, Init, CloseCancels, ClosingPcs
  <2> QED BY <2>1, LinkInvInit
<1>2. LinkInv /\ BudgetOK /\ CloseCancels /\ [LinkNext]_linkVars
          => (LinkInv /\ BudgetOK /\ CloseCancels)'
  <2> SUFFICES ASSUME LinkInv, BudgetOK, CloseCancels, [LinkNext]_linkVars
               PROVE  (LinkInv /\ BudgetOK /\ CloseCancels)'
    OBVIOUS
  <2>1. [Next]_vars
    BY LinkStep DEF linkVars
  <2>2. CloseCancels'
    BY <2>1, CancelNext DEF LinkInv
  <2> QED BY <2>2, LinkInvNext
<1>3. LinkInv /\ CloseCancels => AckedIsDelivered
  BY AckedHolds
<1> QED BY <1>1, <1>2, <1>3, PTL DEF LinkSpec

\* On a network that loses nothing, what the endpoint sends a peer is numbered
\* so that the peer can take it, data and FIN without a gap or a repetition,
\* whichever of them sends, acknowledges or closes first (process_packet, send,
\* close): for every number of polite peers and sockets and every script.
THEOREM EverythingTaken ==
    PolitePeers /\ NothingLost => (LinkSpec => []PeerTakesAll)
<1> SUFFICES ASSUME PolitePeers, NothingLost PROVE LinkSpec => []PeerTakesAll
  OBVIOUS
<1>1. LinkInit => LinkInv /\ BudgetOK /\ SequenceInv
  BY LinkInvInit, SequenceInit
<1>2. LinkInv /\ BudgetOK /\ SequenceInv /\ [LinkNext]_linkVars
          => (LinkInv /\ BudgetOK /\ SequenceInv)'
  BY LinkInvNext, SequenceNext
<1>3. LinkInv /\ SequenceInv => PeerTakesAll
  BY TakesAllHolds
<1> QED BY <1>1, <1>2, <1>3, PTL DEF LinkSpec
=============================================================================
