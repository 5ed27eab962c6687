-------------------------------- MODULE Lemmas --------------------------------
(***************************************************************************)
(* Facts about sequences and natural numbers that the proofs of several    *)
(* components need.                                                        *)
(***************************************************************************)
EXTENDS Naturals, Sequences, SequencesExt, FiniteSetsExt, FiniteSetTheorems,
        FunctionTheorems, WellFoundedInduction, TLAPS

(***************************************************************************)
(* Removing from and adding to a list.                                     *)
(***************************************************************************)

\* Removing an element of a list leaves a list of the same set, whose elements
\* were in the list at the same place or one further.
LEMMA RemoveAtType ==
    ASSUME NEW S, NEW q \in Seq(S), NEW i \in DOMAIN q
    PROVE  /\ RemoveAt(q, i) \in Seq(S)
           /\ DOMAIN RemoveAt(q, i) = 1 .. Len(q) - 1
           /\ Len(RemoveAt(q, i)) = Len(q) - 1
           /\ \A j \in 1 .. Len(q) - 1 :
                  RemoveAt(q, i)[j] = IF j < i THEN q[j] ELSE q[j + 1]
<1> DEFINE front == SubSeq(q, 1, i - 1)
           back == SubSeq(q, i + 1, Len(q))
<1>1. /\ front \in Seq(S) /\ Len(front) = i - 1
      /\ \A j \in 1 .. i - 1 : front[j] = q[j]
  OBVIOUS
<1>2. /\ back \in Seq(S) /\ Len(back) = Len(q) - i
      /\ \A j \in 1 .. Len(q) - i : back[j] = q[j + i]
  OBVIOUS
<1>3. RemoveAt(q, i) = front \o back
  BY DEF RemoveAt
<1> HIDE DEF front, back
<1>4. /\ front \o back \in Seq(S)
      /\ Len(front \o back) = Len(q) - 1
  BY <1>1, <1>2
<1>5. \A j \in 1 .. Len(q) - 1 :
          (front \o back)[j] = IF j < i THEN q[j] ELSE q[j + 1]
  BY <1>1, <1>2
<1> QED BY <1>3, <1>4, <1>5

\* Removing an element of a list without repetitions removes it from the set of
\* its elements.
LEMMA RemoveAtSet ==
    ASSUME NEW S, NEW q \in Seq(S), NEW i \in DOMAIN q, IsInjective(q)
    PROVE  /\ ToSet(RemoveAt(q, i)) = ToSet(q) \ {q[i]}
           /\ IsInjective(RemoveAt(q, i))
<1> DEFINE r == RemoveAt(q, i)
<1>1. /\ DOMAIN r = 1 .. Len(q) - 1
      /\ \A j \in 1 .. Len(q) - 1 : r[j] = IF j < i THEN q[j] ELSE q[j + 1]
  BY RemoveAtType
<1> HIDE DEF r
<1>2. \A x \in ToSet(r) : x \in ToSet(q) \ {q[i]}
  BY <1>1 DEF ToSet, IsInjective
<1>3. ASSUME NEW x \in ToSet(q) \ {q[i]} PROVE x \in ToSet(r)
  <2>1. PICK j \in DOMAIN q : x = q[j]
    BY DEF ToSet
  <2>2. CASE j < i
    <3>1. j \in DOMAIN r /\ r[j] = x
      BY <1>1, <2>1, <2>2
    <3> QED BY <3>1 DEF ToSet
  <2>3. CASE j > i
    <3>1. j - 1 \in DOMAIN r /\ r[j - 1] = x
      BY <1>1, <2>1, <2>3
    <3> QED BY <3>1 DEF ToSet
  <2> QED BY <1>3, <2>1, <2>2, <2>3
<1>4. ASSUME NEW a \in DOMAIN r, NEW b \in DOMAIN r, r[a] = r[b] PROVE a = b
  <2> DEFINE from(j) == IF j < i THEN j ELSE j + 1
  <2>1. /\ from(a) \in DOMAIN q /\ from(b) \in DOMAIN q
        /\ r[a] = q[from(a)] /\ r[b] = q[from(b)]
    BY <1>1
  <2>2. from(a) = from(b)
    BY <1>4, <2>1 DEF IsInjective
  <2> QED BY <1>1, <2>2
<1>5. IsInjective(r)
  BY <1>4 DEF IsInjective
<1> QED BY <1>2, <1>3, <1>5 DEF r

\* Appending adds to the set of the elements; a new element keeps the list
\* without repetitions.
LEMMA AppendSet ==
    ASSUME NEW S, NEW q \in Seq(S), NEW x \in S
    PROVE  /\ ToSet(Append(q, x)) = ToSet(q) \cup {x}
           /\ IsInjective(q) /\ x \notin ToSet(q) => IsInjective(Append(q, x))
<1> DEFINE r == Append(q, x)
<1>1. /\ DOMAIN r = 1 .. Len(q) + 1 /\ r[Len(q) + 1] = x
      /\ \A j \in DOMAIN q : j \in DOMAIN r /\ r[j] = q[j]
      /\ DOMAIN q = 1 .. Len(q)
  OBVIOUS
<1> HIDE DEF r
<1>2. \A y \in ToSet(r) : y \in ToSet(q) \cup {x}
  BY <1>1 DEF ToSet
<1>3. \A y \in ToSet(q) : y \in ToSet(r)
  BY <1>1 DEF ToSet
<1>4. x \in ToSet(r)
  BY <1>1 DEF ToSet
<1>5. IsInjective(q) /\ x \notin ToSet(q) => IsInjective(r)
  BY <1>1 DEF IsInjective, ToSet
<1> QED BY <1>2, <1>3, <1>4, <1>5 DEF r

\* The first element of a list and the others.
LEMMA HeadTail ==
    ASSUME NEW S, NEW q \in Seq(S), q # <<>>
    PROVE  /\ Len(q) \in Nat \ {0} /\ DOMAIN q = 1 .. Len(q)
           /\ Head(q) = q[1] /\ Head(q) \in S /\ Head(q) \in ToSet(q)
           /\ Tail(q) \in Seq(S) /\ Len(Tail(q)) = Len(q) - 1
           /\ DOMAIN Tail(q) = 1 .. Len(q) - 1
           /\ \A i \in 1 .. Len(q) - 1 : Tail(q)[i] = q[i + 1]
           /\ IsInjective(q) => IsInjective(Tail(q))
           /\ Last(q) \in ToSet(q)
<1>1. /\ Len(q) \in Nat \ {0} /\ DOMAIN q = 1 .. Len(q)
      /\ Head(q) = q[1] /\ Head(q) \in S
      /\ Tail(q) \in Seq(S) /\ Len(Tail(q)) = Len(q) - 1
      /\ DOMAIN Tail(q) = 1 .. Len(q) - 1
      /\ \A i \in 1 .. Len(q) - 1 : Tail(q)[i] = q[i + 1]
  OBVIOUS
<1>2. IsInjective(q) => IsInjective(Tail(q))
  BY <1>1 DEF IsInjective
<1>3. q[1] \in ToSet(q) /\ Last(q) \in ToSet(q)
  BY <1>1 DEF ToSet, Last
<1> QED BY <1>1, <1>2, <1>3

\* A list with one more element at its end.
LEMMA AppendLast ==
    ASSUME NEW S, NEW q \in Seq(S), NEW x \in S
    PROVE  /\ Append(q, x) \in Seq(S) /\ Append(q, x) # <<>>
           /\ Len(Append(q, x)) = Len(q) + 1 /\ Len(q) \in Nat
           /\ DOMAIN Append(q, x) = 1 .. Len(q) + 1
           /\ \A i \in 1 .. Len(q) : Append(q, x)[i] = q[i]
           /\ Append(q, x)[Len(q) + 1] = x /\ Last(Append(q, x)) = x
           /\ q = <<>> => Head(Append(q, x)) = x
           /\ q # <<>> => /\ Head(Append(q, x)) = Head(q)
                          /\ Tail(Append(q, x)) = Append(Tail(q), x)
<1>1. /\ Append(q, x) \in Seq(S) /\ Append(q, x) # <<>>
      /\ Len(Append(q, x)) = Len(q) + 1 /\ Len(q) \in Nat
      /\ DOMAIN Append(q, x) = 1 .. Len(q) + 1
      /\ \A i \in 1 .. Len(q) : Append(q, x)[i] = q[i]
      /\ Append(q, x)[Len(q) + 1] = x
  OBVIOUS
<1>2. Last(Append(q, x)) = x
  BY <1>1 DEF Last
<1>3. ASSUME q # <<>>
      PROVE  /\ Head(Append(q, x)) = Head(q)
             /\ Tail(Append(q, x)) = Append(Tail(q), x)
  <2> DEFINE a == Tail(Append(q, x))
             b == Append(Tail(q), x)
  <2>1. /\ Len(q) > 0 /\ Tail(q) \in Seq(S) /\ Len(Tail(q)) = Len(q) - 1
        /\ \A i \in 1 .. Len(q) - 1 : Tail(q)[i] = q[i + 1]
    BY <1>3
  <2>2. /\ a \in Seq(S) /\ Len(a) = Len(q)
        /\ \A i \in 1 .. Len(q) : a[i] = Append(q, x)[i + 1]
    BY <1>1
  <2>3. /\ b \in Seq(S) /\ Len(b) = Len(q)
        /\ \A i \in 1 .. Len(q) - 1 : b[i] = Tail(q)[i]
        /\ b[Len(q)] = x
    BY <2>1
  <2> HIDE DEF a, b
  <2>4. \A i \in 1 .. Len(q) : a[i] = b[i]
    BY <1>1, <2>1, <2>2, <2>3
  <2>5. a = b
    BY <2>2, <2>3, <2>4
  <2>6. Head(Append(q, x)) = Head(q)
    BY <1>1, <2>1
  <2> QED BY <2>5, <2>6 DEF a, b
<1> QED BY <1>1, <1>2, <1>3

\* Two lists end to end: adding at the end and taking from the front.
LEMMA Concatenated ==
    ASSUME NEW S, NEW p \in Seq(S), NEW q \in Seq(S)
    PROVE  /\ p \o q \in Seq(S)
           /\ \A x \in S : p \o Append(q, x) = Append(p \o q, x)
           /\ p # <<>> => p \o q # <<>> /\ Tail(p) \o q = Tail(p \o q)
<1>1. /\ p \o q \in Seq(S) /\ Len(p \o q) = Len(p) + Len(q)
      /\ Len(p) \in Nat /\ Len(q) \in Nat
      /\ \A i \in 1 .. Len(p) + Len(q) :
             (p \o q)[i] = IF i <= Len(p) THEN p[i] ELSE q[i - Len(p)]
  OBVIOUS
<1>2. ASSUME NEW x \in S PROVE p \o Append(q, x) = Append(p \o q, x)
  <2> DEFINE a == p \o Append(q, x)
             b == Append(p \o q, x)
  <2>1. /\ a \in Seq(S) /\ Len(a) = Len(p) + Len(q) + 1
        /\ \A i \in 1 .. Len(p) + Len(q) + 1 :
               a[i] = IF i <= Len(p) THEN p[i]
                      ELSE IF i = Len(p) + Len(q) + 1 THEN x ELSE q[i - Len(p)]
    OBVIOUS
  <2>2. /\ b \in Seq(S) /\ Len(b) = Len(p) + Len(q) + 1
        /\ \A i \in 1 .. Len(p) + Len(q) + 1 :
               b[i] = IF i = Len(p) + Len(q) + 1 THEN x ELSE (p \o q)[i]
    BY <1>1
  <2> HIDE DEF a, b
  <2>3. ASSUME NEW i \in 1 .. Len(p) + Len(q) + 1 PROVE a[i] = b[i]
    <3>1. CASE i = Len(p) + Len(q) + 1
      <4>1. ~(i <= Len(p))
        BY <1>1, <3>1
      <4> QED BY <2>1, <2>2, <3>1, <4>1
    <3>2. CASE i \in 1 .. Len(p) + Len(q)
      <4>1. i # Len(p) + Len(q) + 1
        BY <1>1, <3>2
      <4> QED BY <1>1, <2>1, <2>2, <3>2, <4>1
    <3> QED BY <1>1, <3>1, <3>2
  <2>4. a = b
    BY <2>1, <2>2, <2>3
  <2> QED BY <2>4 DEF a, b
<1>3. ASSUME p # <<>> PROVE p \o q # <<>> /\ Tail(p) \o q = Tail(p \o q)
  <2> DEFINE a == Tail(p) \o q
             b == Tail(p \o q)
  <2>1. /\ Len(p) > 0 /\ p \o q # <<>>
        /\ Tail(p) \in Seq(S) /\ Len(Tail(p)) = Len(p) - 1
        /\ \A i \in 1 .. Len(p) - 1 : Tail(p)[i] = p[i + 1]
    BY <1>1, <1>3
  <2>2. /\ a \in Seq(S) /\ Len(a) = (Len(p) - 1) + Len(q)
        /\ \A i \in 1 .. (Len(p) - 1) + Len(q) :
               a[i] = IF i <= Len(p) - 1 THEN Tail(p)[i] ELSE q[i - (Len(p) - 1)]
    BY <1>1, <2>1
  <2>3. /\ b \in Seq(S) /\ Len(b) = (Len(p) - 1) + Len(q)
        /\ \A i \in 1 .. (Len(p) - 1) + Len(q) : b[i] = (p \o q)[i + 1]
    BY <1>1, <2>1
  <2> HIDE DEF a, b
  <2>4. ASSUME NEW i \in 1 .. (Len(p) - 1) + Len(q) PROVE a[i] = b[i]
    <3>1. /\ i + 1 \in 1 .. Len(p) + Len(q) /\ i - (Len(p) - 1) = (i + 1) - Len(p)
          /\ i <= Len(p) - 1 <=> i + 1 <= Len(p)
      BY <1>1, <2>1
    <3>2. (p \o q)[i + 1] = IF i + 1 <= Len(p) THEN p[i + 1] ELSE q[(i + 1) - Len(p)]
      BY <1>1, <3>1
    <3>3. a[i] = IF i <= Len(p) - 1 THEN Tail(p)[i] ELSE q[i - (Len(p) - 1)]
      BY <2>2
    <3>4. b[i] = (p \o q)[i + 1]
      BY <2>3
    <3>5. i <= Len(p) - 1 => Tail(p)[i] = p[i + 1]
      BY <1>1, <2>1
    <3> QED BY <3>1, <3>2, <3>3, <3>4, <3>5
  <2>5. a = b
    BY <2>2, <2>3, <2>4
  <2> QED BY <2>1, <2>5 DEF a, b
<1> QED BY <1>1, <1>2, <1>3

\* Moving an element from the front of the second to the end of the first.
LEMMA ConcatMoved ==
    ASSUME NEW S, NEW p \in Seq(S), NEW q \in Seq(S), q # <<>>
    PROVE  Append(p, Head(q)) \o Tail(q) = p \o q
<1>0. /\ p \o q \in Seq(S) /\ Len(p \o q) = Len(p) + Len(q)
      /\ Len(p) \in Nat /\ Len(q) \in Nat
      /\ \A i \in 1 .. Len(p) + Len(q) :
             (p \o q)[i] = IF i <= Len(p) THEN p[i] ELSE q[i - Len(p)]
  OBVIOUS
<1> DEFINE h == Append(p, Head(q))
           a == h \o Tail(q)
           b == p \o q
<1>1. /\ Len(q) > 0 /\ Head(q) = q[1] /\ Head(q) \in S
      /\ Tail(q) \in Seq(S) /\ Len(Tail(q)) = Len(q) - 1
      /\ \A i \in 1 .. Len(q) - 1 : Tail(q)[i] = q[i + 1]
  BY <1>0
<1>2. /\ h \in Seq(S) /\ Len(h) = Len(p) + 1
      /\ \A i \in 1 .. Len(p) + 1 : h[i] = IF i <= Len(p) THEN p[i] ELSE q[1]
  BY <1>1
<1> HIDE DEF h
<1>3. /\ a \in Seq(S) /\ Len(a) = Len(p) + Len(q)
      /\ \A i \in 1 .. Len(p) + Len(q) :
             a[i] = IF i <= Len(p) + 1 THEN h[i] ELSE Tail(q)[i - (Len(p) + 1)]
  <2> DEFINE t == Tail(q)
  <2>1. t \in Seq(S) /\ h \in Seq(S) /\ a = h \o t
    BY <1>1, <1>2
  <2> HIDE DEF t, a
  <2>2. /\ a \in Seq(S) /\ Len(a) = Len(h) + Len(t)
        /\ \A i \in 1 .. Len(h) + Len(t) :
               a[i] = IF i <= Len(h) THEN h[i] ELSE t[i - Len(h)]
    BY <2>1
  <2>3. Len(h) + Len(t) = Len(p) + Len(q)
    BY <1>0, <1>1, <1>2 DEF t
  <2> QED BY <1>2, <2>2, <2>3 DEF t
<1> HIDE DEF a, b
<1>4. ASSUME NEW i \in 1 .. Len(p) + Len(q) PROVE a[i] = b[i]
  <2>1. b[i] = IF i <= Len(p) THEN p[i] ELSE q[i - Len(p)]
    BY <1>0 DEF b
  <2>2. CASE i <= Len(p)
    BY <1>0, <1>2, <1>3, <2>1, <2>2
  <2>3. CASE i = Len(p) + 1
    BY <1>0, <1>2, <1>3, <2>1, <2>3
  <2>4. CASE i > Len(p) + 1
    <3>1. i - (Len(p) + 1) \in 1 .. Len(q) - 1
      BY <1>0, <2>4
    <3>2. Tail(q)[i - (Len(p) + 1)] = q[(i - (Len(p) + 1)) + 1]
      BY <1>1, <3>1
    <3>3. (i - (Len(p) + 1)) + 1 = i - Len(p)
      BY <1>0
    <3> QED BY <1>0, <1>3, <2>1, <2>4, <3>2, <3>3
  <2> QED BY <1>0, <2>2, <2>3, <2>4
<1>5. b \in Seq(S) /\ Len(b) = Len(p) + Len(q)
  BY <1>0 DEF b
<1>6. a = b
  BY <1>3, <1>4, <1>5
<1> QED BY <1>6 DEF a, b, h

(***************************************************************************)
(* The least number of a set, and induction.                               *)
(***************************************************************************)
Least(R, T) == \E x \in T : \A y \in T : ~(<<y, x>> \in R)
Part(T, S) == T \subseteq S /\ T # {}

\* A well-founded relation has least elements, put so that it can be instantiated.
LEMMA Minimal ==
    \A R, S, T : IsWellFoundedOn(R, S) /\ Part(T, S) => Least(R, T)
<1> TAKE R, S, T
<1> HAVE IsWellFoundedOn(R, S) /\ Part(T, S)
<1>1. T \subseteq S /\ T # {}
  BY DEF Part
<1>2. \E x \in T : \A y \in T : ~(<<y, x>> \in R)
  BY <1>1, WFMin
<1> QED BY <1>2 DEF Least

LEMMA Below ==
    \E R : IsWellFoundedOn(R, Nat) /\ \A x, y \in Nat : x < y => <<x, y>> \in R
<1> WITNESS OpToRel(<, Nat)
<1>1. IsWellFoundedOn(OpToRel(<, Nat), Nat)
  BY NatLessThanWellFounded
<1>2. \A x, y \in Nat : x < y => <<x, y>> \in OpToRel(<, Nat)
  BY Zenon DEF OpToRel
<1> QED BY <1>1, <1>2, Zenon

LEMMA LeastBelow ==
    ASSUME NEW R, NEW N, IsWellFoundedOn(R, N),
           N = Nat, \A x, y \in Nat : x < y => <<x, y>> \in R,
           NEW T, T \subseteq N, T # {}
    PROVE  \E m \in T : \A n \in T : m <= n
<1>1. Part(T, N)
  BY DEF Part
<1>2. Least(R, T)
  BY <1>1, Minimal, Zenon
<1>3. PICK m \in T : \A y \in T : ~(<<y, m>> \in R)
  BY <1>2 DEF Least
<1>4. \A n \in T : ~(n < m)
  BY <1>3
<1> QED BY <1>4

\* Every set of numbers but the empty one has a least element.
LEMMA MinExists ==
    ASSUME NEW T, T \subseteq Nat, T # {}
    PROVE  \E m \in T : \A n \in T : m <= n
BY Below, LeastBelow

LEMMA MinIs ==
    ASSUME NEW T, T \subseteq Nat, T # {}
    PROVE  Min(T) \in T /\ \A n \in T : Min(T) <= n
BY MinExists DEF Min

\* Induction: a set with 0 and the successor of each of its numbers has them all.
LEMMA Induct ==
    ASSUME NEW I, 0 \in I, \A n \in Nat : n \in I => n + 1 \in I
    PROVE  Nat \subseteq I
<1> SUFFICES ASSUME Nat \ I # {} PROVE FALSE
  OBVIOUS
<1>1. PICK m \in Nat \ I : \A n \in Nat \ I : m <= n
  BY MinExists
<1>2. m # 0 /\ m - 1 \in Nat /\ m - 1 \in I
  BY <1>1
<1> QED BY <1>2

(***************************************************************************)
(* Counting.                                                               *)
(***************************************************************************)

\* A set of numbers and the same moved down by one have as many elements.
LEMMA ShiftCard ==
    ASSUME NEW S, NEW T, S \subseteq Nat \ {0}, T \subseteq Nat, IsFiniteSet(S),
           \A n \in Nat : n \in T <=> n + 1 \in S
    PROVE  IsFiniteSet(T) /\ Cardinality(T) = Cardinality(S)
<1> DEFINE down == [n \in S |-> n - 1]
<1>1. down \in [S -> T]
  <2>1. \A n \in S : n - 1 \in Nat /\ (n - 1) + 1 = n
    OBVIOUS
  <2> QED BY <2>1
<1>2. \A a, b \in S : down[a] = down[b] => a = b
  OBVIOUS
<1>3. \A t \in T : \E n \in S : down[n] = t
  <2> TAKE t \in T
  <2>1. t + 1 \in S /\ down[t + 1] = t
    OBVIOUS
  <2> QED BY <2>1
<1> HIDE DEF down
<1>4. down \in Bijection(S, T)
  BY <1>1, <1>2, <1>3 DEF Bijection, Injection, Surjection, IsInjective
<1>5. ExistsBijection(S, T)
  BY <1>4 DEF ExistsBijection
<1> QED BY <1>5, FS_Bijection

(***************************************************************************)
(* Arithmetic modulo a number.                                             *)
(***************************************************************************)

\* Quotient and remainder.
LEMMA DivMod ==
    ASSUME NEW S \in Nat \ {0}, NEW a \in Nat
    PROVE  /\ a \div S \in Nat /\ a % S \in 0 .. S - 1
           /\ a = (S * (a \div S)) + (a % S)
<1>1. a \div S \in Int /\ a % S \in 0 .. S - 1
  OBVIOUS
<1>2. a = (S * (a \div S)) + (a % S)
  OBVIOUS
<1>3. a \div S \in Nat
  OBVIOUS
<1> QED BY <1>1, <1>2, <1>3

\* They are unique.
LEMMA Quotient ==
    ASSUME NEW S \in Nat \ {0}, NEW q \in Nat, NEW r \in 0 .. S - 1,
           NEW k \in Nat, NEW t \in 0 .. S - 1, (S * q) + r = (S * k) + t
    PROVE  r = t
<1>1. CASE q = k
  BY <1>1
<1>2. CASE q >= k + 1
  <2>1. S * q >= S * (k + 1)
    BY <1>2
  <2>2. S * (k + 1) = (S * k) + S
    OBVIOUS
  <2>3. S * q \in Nat /\ S * k \in Nat
    OBVIOUS
  <2> QED BY <2>1, <2>2, <2>3
<1>3. CASE k >= q + 1
  <2>1. S * k >= S * (q + 1)
    BY <1>3
  <2>2. S * (q + 1) = (S * q) + S
    OBVIOUS
  <2>3. S * q \in Nat /\ S * k \in Nat
    OBVIOUS
  <2> QED BY <2>1, <2>2, <2>3
<1> QED BY <1>1, <1>2, <1>3

\* Adding to a number reduced modulo S, or to the number itself.
LEMMA ModPlus ==
    ASSUME NEW S \in Nat \ {0}, NEW a \in Nat, NEW k \in Nat
    PROVE  ((a % S) + k) % S = (a + k) % S
<1> DEFINE q == a \div S
           r == a % S
           b == r + k
           m == b \div S
           t == b % S
           n == (a + k) \div S
           u == (a + k) % S
<1>1. q \in Nat /\ r \in 0 .. S - 1 /\ a = (S * q) + r
  BY DivMod
<1>2. b \in Nat
  BY <1>1
<1> HIDE DEF q, r
<1>3. m \in Nat /\ t \in 0 .. S - 1 /\ b = (S * m) + t
  BY <1>2, DivMod
<1>4. n \in Nat /\ u \in 0 .. S - 1 /\ a + k = (S * n) + u
  <2> DEFINE c == a + k
  <2>1. c \in Nat
    OBVIOUS
  <2> HIDE DEF c
  <2>2. c \div S \in Nat /\ c % S \in 0 .. S - 1 /\ c = (S * (c \div S)) + (c % S)
    BY <2>1, DivMod
  <2> QED BY <2>2 DEF c, n, u
<1>5. a + k = (S * q) + b
  BY <1>1 DEF b
<1> HIDE DEF b, m, t, n, u
<1>6. S * (q + m) = (S * q) + (S * m)
  BY <1>1, <1>3
<1>7. a + k = (S * (q + m)) + t
  <2>1. S * q \in Nat /\ S * m \in Nat /\ S * (q + m) \in Nat /\ t \in Nat
    BY <1>1, <1>3
  <2> QED BY <1>3, <1>5, <1>6, <2>1
<1>8. q + m \in Nat
  BY <1>1, <1>3
<1>9. (S * (q + m)) + t = (S * n) + u
  BY <1>4, <1>7
<1>10. t = u
  BY <1>3, <1>4, <1>8, <1>9, Quotient
<1> QED BY <1>10 DEF t, u, b, r
===============================================================================
