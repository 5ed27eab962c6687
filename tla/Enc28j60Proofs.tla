--------------------------- MODULE Enc28j60Proofs ---------------------------
(***************************************************************************)
(* Theorems about Enc28j60, for any frames, sizes and ring, any calls of   *)
(* send_packet, aborted or not, and any number of repeated transmissions;  *)
(* among them that the driver implements Nic.                              *)
(***************************************************************************)
EXTENDS Enc28j60, Lemmas

(***************************************************************************)
(* The receive ring.                                                       *)
(***************************************************************************)

\* The place n units after p.
At(p, n) == IF p + n < RingSize THEN p + n ELSE p + n - RingSize

\* In a ring that holds m and the next-packet pointers nx, the frames of q follow
\* one another from place p to place w; d[k] is how far after p the (k+1)st begins.
Laid(m, nx, d, q, p, w) ==
    /\ d \in [0 .. Len(q) -> 0 .. RingSize - 1]
    /\ d[0] = 0 /\ w = At(p, d[Len(q)])
    /\ \A j, k \in 0 .. Len(q) : j <= k => d[j] + (k - j) <= d[k]
    /\ \A k \in 0 .. Len(q) - 1 :
           /\ d[k + 1] = d[k] + Units[q[k + 1]]
           /\ nx[At(p, d[k])] = At(p, d[k + 1])
           /\ \A x \in d[k] .. d[k + 1] - 1 : m[At(p, x)] = q[k + 1]

\* The frames of q lie in the ring from place p to place w, size units in all.
Lies(m, nx, q, p, w, size) ==
    \E d \in [0 .. Len(q) -> 0 .. RingSize - 1] :
        Laid(m, nx, d, q, p, w) /\ d[Len(q)] = size

\* What storing the frame f in n units from place w on does to the ring m and to
\* its next-packet pointers nx.
Writes(m2, nx2, m, nx, w, n, f) ==
    /\ \A i \in Ring : m2[i] = IF \E k \in 0 .. n - 1 : i = At(w, k) THEN f ELSE m[i]
    /\ \A i \in Ring : nx2[i] = IF i = w THEN At(w, n) ELSE nx[i]

\* The n units from place p on hold the frame f.
Holds(m, p, n, f) == \A x \in 0 .. n - 1 : m[At(p, x)] = f

SettingUp == cpu \in {"reset", "wait_ost", "set_ring", "set_phy", "wait_phy"}

\* The accepted frames that run() has not read, and the units of the one it has
\* read and not freed.
Unread == IF cpu \in {"free_ring", "hand_over"} THEN Tail(stored) ELSE stored
Unfreed == IF cpu = "free_ring" THEN Units[Head(stored)] ELSE 0

\* The frames not read begin where run() will read and end where the chip will
\* write; the chip's read pointer is one unit before them and what is not freed.
RingHolds ==
    ~SettingUp =>
        \E size \in 0 .. RingSize - 1 :
            /\ Lies(mem, nextOf, Unread, cur_ptr, erxwrpt, size)
            /\ size + Unfreed <= RingSize - 1
            /\ cur_ptr = At(erxrdpt, Unfreed + 1)

\* run(), the chip's count of frames and the frames accepted agree.
RunnerAgrees ==
    /\ cpu \in {"read_data", "free_ring", "hand_over"} <=> runner = "running"
    /\ ~SettingUp => epktcnt = Len(stored)
    /\ runner = "running" => stored # <<>>
    /\ cpu = "read_data" => next_ptr = nextOf[cur_ptr]
    /\ cpu \in {"free_ring", "hand_over"} => next_ptr = cur_ptr /\ held = Head(stored)
    /\ runner = "woken" /\ ~receive_error_ => epktcnt > 0

\* What do_poll has read of EPKTCNT still holds.
SampleAgrees ==
    /\ cpu \notin {"read_epktcnt", "clear_rxerif", "clear_txif", "clear_txerif"} =>
           sampled = NoSample
    /\ sampled.epktcnt => epktcnt > 0

(***************************************************************************)
(* Sending.                                                                *)
(***************************************************************************)
Aired == sendq # <<>> /\ Head(sendq) \in ToSet(wire)

\* The calls under way, their holder of the mutex and the frames sent: only the
\* holder's own frame may be on the wire, and then it is the last.
CallsAgree ==
    /\ IsInjective(sendq)
    /\ \A i \in DOMAIN sendq : i > 1 => sendq[i] \notin ToSet(wire)
    /\ sender = "none" <=> sendq = <<>>
    /\ sender \in {"ready", "running"} => ~Aired
    /\ cpu \in {"fill", "program", "trigger"} <=> sender = "running"
    /\ cpu = "trigger" => txbuf = Head(sendq)
    /\ Aired => Head(sendq) = Last(wire)

\* What is being transmitted.
Transmits ==
    txrts /\ cpu # "reset" =>
        /\ ~SettingUp /\ sender # "running"
        /\ IF sender \in {"waiting", "woken"} THEN txbuf = Head(sendq)
                                              ELSE wire # <<>> /\ txbuf = Last(wire)

\* No flag of an earlier transmission is left when one is started.  While the
\* holder's frame has not gone out: either it is being transmitted, and no flag is
\* set, or it was aborted, and whoever sees TXIF sees TXERIF with it.
NotYetAired ==
    /\ sender = "running" => ~flags.txif /\ ~flags.txerif
    /\ sender \in {"waiting", "woken"} /\ ~Aired =>
           IF txrts
           THEN /\ sender = "waiting"
                /\ ~flags.txif /\ ~flags.txerif
                /\ ~sampled.flags.txif /\ ~sampled.flags.txerif
           ELSE /\ flags.txif => flags.txerif
                /\ sampled.flags.txif => sampled.flags.txerif
                /\ sampled.flags.txerif =>
                      (flags.txif <=> sampled.flags.txif /\ cpu # "clear_txerif")
                /\ sender = "woken" => transmit_error_ \/ cpu = "stopped"

\* Until setup() is done nothing is received or sent.
SetupClean ==
    SettingUp =>
        /\ stored = <<>> /\ recv_queue_ = <<>> /\ sendq = <<>> /\ wire = <<>>
        /\ runner = "waiting" /\ cur_ptr = rx_start
        /\ cpu # "reset" => ~txrts /\ ~rxen /\ epktcnt = 0
        /\ cpu \in {"set_phy", "wait_phy"} => erxwrpt = rx_start /\ erxrdpt = rx_end

ReceiveInv == RingHolds /\ RunnerAgrees /\ SampleAgrees
SendInv == CallsAgree /\ Transmits /\ NotYetAired
IInv == TypeOK /\ SetupClean /\ ReceiveInv /\ SendInv

-----------------------------------------------------------------------------
(***************************************************************************)
(* Places in the ring.                                                     *)
(***************************************************************************)
USE EncAssumption DEF rx_start, rx_end

\* Adding a place and a distance is At.
LEMMA AtIsMod ==
    ASSUME NEW p \in Ring, NEW n \in 0 .. RingSize
    PROVE  (p + n) % RingSize = At(p, n) /\ At(p, n) \in Ring
<1>1. p + n \in Nat /\ p + n < RingSize + RingSize /\ p \in Nat /\ p < RingSize
  BY DEF Ring
<1>2. CASE p + n < RingSize
  <2>1. (p + n) % RingSize = p + n
    BY <1>1, <1>2
  <2> QED BY <1>1, <1>2, <2>1 DEF At, Ring
<1>3. CASE p + n >= RingSize
  <2>1. (p + n) % RingSize = p + n - RingSize
    BY <1>1, <1>3
  <2> QED BY <1>1, <1>3, <2>1 DEF At, Ring
<1> QED BY <1>1, <1>2, <1>3

LEMMA AtInRing ==
    ASSUME NEW p \in Ring, NEW n \in 0 .. RingSize
    PROVE  At(p, n) \in Ring
BY DEF At, Ring

\* Two distances, one after the other.
LEMMA AtSum ==
    ASSUME NEW p \in Ring, NEW a \in Nat, NEW b \in Nat, a + b <= RingSize,
           a < RingSize
    PROVE  At(At(p, a), b) = At(p, a + b)
BY DEF At, Ring

\* Within one turn different distances are different places.
LEMMA AtInjective ==
    ASSUME NEW p \in Ring, NEW a \in 0 .. RingSize - 1, NEW b \in 0 .. RingSize - 1,
           At(p, a) = At(p, b)
    PROVE  a = b
BY DEF At, Ring

\* The distance from one place to another is what run() computes.
LEMMA Distance ==
    ASSUME NEW p \in Ring, NEW n \in 1 .. RingSize - 1
    PROVE  (At(p, n) + RingSize - p) % RingSize = n
<1>1. CASE p + n < RingSize
  <2>1. At(p, n) + RingSize - p = n + RingSize
    BY <1>1 DEF At, Ring
  <2>2. n + RingSize \in Nat /\ n + RingSize >= RingSize /\ n + RingSize < RingSize + RingSize
    OBVIOUS
  <2>3. (n + RingSize) % RingSize = (n + RingSize) - RingSize
    BY <2>2
  <2> QED BY <2>1, <2>3
<1>2. CASE p + n >= RingSize
  <2>1. At(p, n) + RingSize - p = n
    BY <1>2 DEF At, Ring
  <2>2. n % RingSize = n
    OBVIOUS
  <2> QED BY <2>1, <2>2
<1> QED BY <1>1, <1>2 DEF Ring

\* What UnitsFrom contains.
LEMMA UnitsAt ==
    ASSUME NEW p \in Ring, NEW n \in 0 .. RingSize
    PROVE  \A i : i \in UnitsFrom(p, n) <=> \E k \in 0 .. n - 1 : i = At(p, k)
<1>1. \A k \in 0 .. n - 1 : (p + k) % RingSize = At(p, k)
  BY AtIsMod
<1> QED BY <1>1 DEF UnitsFrom

\* The unit before a place.
LEMMA BeforeAt ==
    ASSUME NEW p \in Ring
    PROVE  Before(p) \in Ring /\ p = At(Before(p), 1)
BY DEF Before, At, Ring

-----------------------------------------------------------------------------
(***************************************************************************)
(* Frames in the ring.                                                     *)
(***************************************************************************)

\* A ring without frames.
LEMMA LaidNone ==
    ASSUME NEW m, NEW nx, NEW p \in Ring
    PROVE  Lies(m, nx, <<>>, p, p, 0)
<1> DEFINE d == [k \in 0 .. 0 |-> 0]
<1>1. Laid(m, nx, d, <<>>, p, p)
  BY DEF Laid, At, Ring
<1>2. d \in [0 .. Len(<<>>) -> 0 .. RingSize - 1] /\ d[Len(<<>>)] = 0
  OBVIOUS
<1> QED BY <1>1, <1>2 DEF Lies

\* The first frame: its pointer and its units.
LEMMA LaidFirst ==
    ASSUME NEW m \in [Ring -> Frames \cup {Garbage}], NEW nx \in [Ring -> Ring],
           NEW q \in Seq(Frames), NEW p \in Ring, NEW w, NEW size,
           Lies(m, nx, q, p, w, size), q # <<>>
    PROVE  /\ q[1] \in Frames /\ Units[q[1]] \in 1 .. RingSize - 1
           /\ Units[q[1]] <= size
           /\ nx[p] = At(p, Units[q[1]])
           /\ Holds(m, p, Units[q[1]], q[1])
<1>0. PICK d \in [0 .. Len(q) -> 0 .. RingSize - 1] :
          Laid(m, nx, d, q, p, w) /\ d[Len(q)] = size
  BY DEF Lies
<1>1. Len(q) \in Nat /\ Len(q) > 0 /\ q[1] \in Frames
  OBVIOUS
<1>2. 0 \in 0 .. Len(q) - 1 /\ 1 \in 0 .. Len(q) /\ Len(q) \in 0 .. Len(q)
  BY <1>1
<1>3. /\ d[0 + 1] = d[0] + Units[q[0 + 1]] /\ nx[At(p, d[0])] = At(p, d[0 + 1])
      /\ \A x \in d[0] .. d[0 + 1] - 1 : m[At(p, x)] = q[0 + 1]
  BY <1>0, <1>2 DEF Laid
<1>4. d[0] = 0 /\ d[1] <= d[Len(q)] /\ d[1] \in 0 .. RingSize - 1
  <2>1. /\ d[0] = 0 /\ d[1] \in 0 .. RingSize - 1 /\ d[Len(q)] \in 0 .. RingSize - 1
        /\ d[1] + (Len(q) - 1) <= d[Len(q)]
    <3>1. \A j, k \in 0 .. Len(q) : j <= k => d[j] + (k - j) <= d[k]
      BY <1>0 DEF Laid
    <3>2. d[0] = 0
      BY <1>0 DEF Laid
    <3> QED BY <1>1, <1>2, <3>1, <3>2
  <2> QED BY <1>1, <2>1
<1>5. Units[q[1]] \in Nat \ {0}
  BY <1>1
<1>6. d[1] = Units[q[1]] /\ At(p, 0) = p
  BY <1>3, <1>4, <1>5 DEF At, Ring
<1> QED BY <1>0, <1>1, <1>3, <1>4, <1>5, <1>6 DEF Holds

\* How far apart the places are, and that each frame takes a unit at least.
LEMMA LaidSize ==
    ASSUME NEW m, NEW nx, NEW q \in Seq(Frames), NEW p, NEW w, NEW size,
           Lies(m, nx, q, p, w, size)
    PROVE  size \in 0 .. RingSize - 1 /\ w = At(p, size) /\ Len(q) <= size
<1>1. PICK d \in [0 .. Len(q) -> 0 .. RingSize - 1] :
          Laid(m, nx, d, q, p, w) /\ d[Len(q)] = size
  BY DEF Lies
<1>2. 0 \in 0 .. Len(q) /\ Len(q) \in 0 .. Len(q) /\ Len(q) \in Nat
  OBVIOUS
<1>3. d[0] = 0 /\ w = At(p, d[Len(q)]) /\ d[0] + (Len(q) - 0) <= d[Len(q)]
  <2>1. \A j, k \in 0 .. Len(q) : j <= k => d[j] + (k - j) <= d[k]
    BY <1>1 DEF Laid
  <2>2. d[0] = 0 /\ w = At(p, d[Len(q)])
    BY <1>1 DEF Laid
  <2> QED BY <1>2, <2>1, <2>2
<1> QED BY <1>1, <1>2, <1>3

\* Without the first frame, from where it ends.
LEMMA LaidRest ==
    ASSUME NEW m \in [Ring -> Frames \cup {Garbage}], NEW nx \in [Ring -> Ring],
           NEW q \in Seq(Frames), NEW p \in Ring, NEW w, NEW size,
           Lies(m, nx, q, p, w, size), q # <<>>
    PROVE  Lies(m, nx, Tail(q), At(p, Units[q[1]]), w, size - Units[q[1]])
<1>0. PICK d \in [0 .. Len(q) -> 0 .. RingSize - 1] :
          Laid(m, nx, d, q, p, w) /\ d[Len(q)] = size
  BY DEF Lies
<1> DEFINE u == Units[q[1]]
           n == Len(q)
           r == Tail(q)
           e == [k \in 0 .. n - 1 |-> d[k + 1] - u]
           p2 == At(p, u)
<1>1. u \in 1 .. RingSize - 1
  BY LaidFirst
<1>2. n \in Nat \ {0} /\ Len(r) = n - 1 /\ \A k \in 1 .. n - 1 : r[k] = q[k + 1]
  OBVIOUS
<1>3. /\ d[0] = 0 /\ w = At(p, d[n])
      /\ \A j, k \in 0 .. n : j <= k => d[j] + (k - j) <= d[k]
      /\ \A k \in 0 .. n - 1 :
             /\ d[k + 1] = d[k] + Units[q[k + 1]]
             /\ nx[At(p, d[k])] = At(p, d[k + 1])
             /\ \A x \in d[k] .. d[k + 1] - 1 : m[At(p, x)] = q[k + 1]
  BY <1>0 DEF Laid
<1>4. d[1] = u
  <2>1. 0 \in 0 .. n - 1
    BY <1>2
  <2>2. d[0 + 1] = d[0] + Units[q[0 + 1]]
    BY <1>3, <2>1
  <2> QED BY <1>1, <1>3, <2>2
<1> HIDE DEF u, n, r
<1>5. \A k \in 0 .. n - 1 : d[k + 1] \in 0 .. RingSize - 1 /\ u <= d[k + 1]
  <2> TAKE k \in 0 .. n - 1
  <2>1. 1 \in 0 .. n /\ k + 1 \in 0 .. n /\ 1 <= k + 1
    BY <1>2
  <2>2. d[1] + ((k + 1) - 1) <= d[k + 1] /\ d[k + 1] \in 0 .. RingSize - 1
    BY <1>3, <2>1 DEF n
  <2> QED BY <1>1, <1>4, <2>1, <2>2
<1>6. /\ e \in [0 .. n - 1 -> 0 .. RingSize - 1]
      /\ \A k \in 0 .. n - 1 : e[k] + u = d[k + 1] /\ e[k] \in 0 .. RingSize - 1
  <2>1. \A k \in 0 .. n - 1 : /\ d[k + 1] - u \in 0 .. RingSize - 1
                              /\ (d[k + 1] - u) + u = d[k + 1]
    BY <1>1, <1>5
  <2>2. \A k \in 0 .. n - 1 : e[k] = d[k + 1] - u
    OBVIOUS
  <2>3. e \in [0 .. n - 1 -> 0 .. RingSize - 1]
    BY <2>1
  <2> QED BY <2>1, <2>2, <2>3
<1> HIDE DEF e
<1>7. \A x \in Nat : x + u <= RingSize => At(p2, x) = At(p, x + u)
  BY <1>1, AtSum
<1> HIDE DEF p2
<1>8. e[0] = 0
  <2>1. e[0] + u = d[0 + 1] /\ e[0] \in 0 .. RingSize - 1
    BY <1>2, <1>6
  <2> QED BY <1>1, <1>4, <2>1
<1>9. w = At(p2, e[n - 1])
  <2>1. n - 1 \in 0 .. n - 1 /\ (n - 1) + 1 = n
    BY <1>2
  <2>2. e[n - 1] + u = d[n] /\ e[n - 1] \in 0 .. RingSize - 1
    BY <1>6, <2>1
  <2>3. d[n] \in 0 .. RingSize - 1
    BY <1>5, <2>1
  <2> QED BY <1>3, <1>7, <2>2, <2>3
<1>10. \A j, k \in 0 .. n - 1 : j <= k => e[j] + (k - j) <= e[k]
  <2> SUFFICES ASSUME NEW j \in 0 .. n - 1, NEW k \in 0 .. n - 1, j <= k
               PROVE  e[j] + (k - j) <= e[k]
    OBVIOUS
  <2>1. j + 1 \in 0 .. n /\ k + 1 \in 0 .. n /\ j + 1 <= k + 1
    BY <1>2
  <2>2. d[j + 1] + ((k + 1) - (j + 1)) <= d[k + 1]
    BY <1>3, <2>1
  <2> QED BY <1>1, <1>2, <1>6, <2>2
<1>11. ASSUME NEW k \in 0 .. (n - 1) - 1
       PROVE  /\ e[k + 1] = e[k] + Units[r[k + 1]]
              /\ nx[At(p2, e[k])] = At(p2, e[k + 1])
              /\ \A x \in e[k] .. e[k + 1] - 1 : m[At(p2, x)] = r[k + 1]
  <2> DEFINE d1 == d[k + 1]
             d2 == d[k + 1 + 1]
             e0 == e[k]
             e1 == e[k + 1]
             v == Units[r[k + 1]]
  <2>1. k \in 0 .. n - 1 /\ k + 1 \in 0 .. n - 1 /\ k + 1 \in 1 .. n - 1
    BY <1>2
  <2>2. /\ e0 + u = d1 /\ e1 + u = d2
        /\ e0 \in 0 .. RingSize - 1 /\ e1 \in 0 .. RingSize - 1
        /\ d1 \in 0 .. RingSize - 1 /\ d2 \in 0 .. RingSize - 1
    BY <1>5, <1>6, <2>1
  <2>3. /\ d2 = d1 + Units[q[k + 1 + 1]]
        /\ nx[At(p, d1)] = At(p, d2)
        /\ \A x \in d1 .. d2 - 1 : m[At(p, x)] = q[k + 1 + 1]
    BY <1>3, <2>1
  <2>4. r[k + 1] = q[k + 1 + 1]
    BY <1>2, <2>1 DEF n
  <2>5. v \in Nat /\ d2 = d1 + v
    <3>1. k + 1 + 1 \in 1 .. n
      BY <1>2
    <3>2. q[k + 1 + 1] \in Frames
      BY <3>1 DEF n
    <3> QED BY <2>3, <2>4, <3>2
  <2> HIDE DEF d1, d2, e0, e1, v
  <2>6. At(p2, e0) = At(p, d1) /\ At(p2, e1) = At(p, d2)
    BY <1>7, <2>2
  <2>7. ASSUME NEW x \in e0 .. e1 - 1
        PROVE  m[At(p2, x)] = r[k + 1]
    <3>1. x \in Nat /\ x + u \in d1 .. d2 - 1 /\ x + u <= RingSize
      BY <1>1, <2>2
    <3> QED BY <1>7, <2>3, <2>4, <3>1
  <2>8. e1 = e0 + v
    BY <1>1, <2>2, <2>5
  <2> QED BY <2>3, <2>6, <2>7, <2>8 DEF e0, e1, v
<1>12. Laid(m, nx, e, r, p2, w)
  BY <1>2, <1>6, <1>8, <1>9, <1>10, <1>11 DEF Laid
<1>13. e[n - 1] + u = d[n]
  <2>1. n - 1 \in 0 .. n - 1 /\ (n - 1) + 1 = n
    BY <1>2
  <2> QED BY <1>6, <2>1
<1>14. e[n - 1] = size - u
  <2>1. n - 1 \in 0 .. n - 1 /\ d[n] = size
    BY <1>0, <1>2 DEF n
  <2>2. e[n - 1] \in 0 .. RingSize - 1
    BY <1>6, <2>1
  <2> QED BY <1>1, <1>13, <2>1, <2>2
<1> QED BY <1>2, <1>6, <1>12, <1>14 DEF u, n, r, p2, Lies

\* With one more frame at the end.
LEMMA LaidMore ==
    ASSUME NEW m, NEW nx, NEW q \in Seq(Frames),
           NEW p \in Ring, NEW w, NEW size, Lies(m, nx, q, p, w, size),
           NEW f \in Frames, size + Units[f] <= RingSize - 1,
           NEW m2, NEW nx2, Writes(m2, nx2, m, nx, w, Units[f], f)
    PROVE  Lies(m2, nx2, Append(q, f), p, At(w, Units[f]), size + Units[f])
<1> USE DEF Writes
<1>0. PICK d \in [0 .. Len(q) -> 0 .. RingSize - 1] :
          Laid(m, nx, d, q, p, w) /\ d[Len(q)] = size
  BY DEF Lies
<1> DEFINE u == Units[f]
           n == Len(q)
           r == Append(q, f)
           e == [k \in 0 .. n + 1 |-> IF k = n + 1 THEN d[n] + u ELSE d[k]]
<1>1. /\ n \in Nat /\ Len(r) = n + 1 /\ r[n + 1] = f
      /\ \A k \in 1 .. n : r[k] = q[k] /\ q[k] \in Frames
  OBVIOUS
<1>2. /\ d[0] = 0 /\ w = At(p, d[n])
      /\ \A j, k \in 0 .. n : j <= k => d[j] + (k - j) <= d[k]
      /\ \A k \in 0 .. n - 1 :
             /\ d[k + 1] = d[k] + Units[q[k + 1]]
             /\ nx[At(p, d[k])] = At(p, d[k + 1])
             /\ \A x \in d[k] .. d[k + 1] - 1 : m[At(p, x)] = q[k + 1]
  BY <1>0 DEF Laid
<1>3. u \in Nat \ {0} /\ d[n] \in 0 .. RingSize - 1 /\ d[n] + u \in 0 .. RingSize - 1
  BY <1>0, <1>1
<1>4. \A k \in 0 .. n : d[k] \in 0 .. RingSize - 1
  BY <1>1
<1> HIDE DEF u, n, r
<1>5. /\ e \in [0 .. n + 1 -> 0 .. RingSize - 1]
      /\ e[n + 1] = d[n] + u
      /\ \A k \in 0 .. n : e[k] = d[k]
  BY <1>1, <1>3, <1>4
<1> HIDE DEF e
<1>6. \A k \in Nat : d[n] + k <= RingSize => At(w, k) = At(p, d[n] + k)
  BY <1>2, <1>3, AtSum
<1>7. At(w, u) = At(p, e[n + 1])
  BY <1>3, <1>5, <1>6
<1>8. \A j, k \in 0 .. n + 1 : j <= k => e[j] + (k - j) <= e[k]
  <2> SUFFICES ASSUME NEW j \in 0 .. n + 1, NEW k \in 0 .. n + 1, j <= k
               PROVE  e[j] + (k - j) <= e[k]
    OBVIOUS
  <2>1. CASE k <= n
    <3>1. j \in 0 .. n /\ k \in 0 .. n
      BY <1>1, <2>1
    <3> QED BY <1>2, <1>5, <3>1
  <2>2. CASE k = n + 1 /\ j <= n
    <3>1. j \in 0 .. n /\ n \in 0 .. n
      BY <1>1, <2>2
    <3>2. d[j] + (n - j) <= d[n]
      BY <1>2, <3>1
    <3>3. d[j] \in Nat
      BY <1>4, <3>1
    <3>4. e[j] = d[j] /\ e[k] = d[n] + u /\ k = n + 1
      BY <1>5, <2>2, <3>1
    <3>5. u \in Nat /\ u >= 1 /\ d[n] \in Nat /\ n \in Nat /\ j \in Nat
      BY <1>1, <1>3
    <3> QED BY <3>2, <3>3, <3>4, <3>5
  <2>3. CASE j = n + 1
    <3>1. k = n + 1
      BY <1>1, <2>3
    <3> QED BY <1>1, <1>3, <1>5, <2>3, <3>1
  <2> QED BY <1>1, <2>1, <2>2, <2>3
\* The frames before the new one keep their units and their pointers.
<1>9. ASSUME NEW x \in 0 .. d[n] - 1
      PROVE  m2[At(p, x)] = m[At(p, x)] /\ nx2[At(p, x)] = nx[At(p, x)]
  <2>1. x \in 0 .. RingSize - 1 /\ At(p, x) \in Ring
    BY <1>3, AtInRing
  <2>2. At(p, x) # w
    BY <1>2, <1>3, <2>1, AtInjective
  <2>3. ASSUME NEW k \in 0 .. u - 1, At(p, x) = At(w, k) PROVE FALSE
    <3>0. d[n] + k \in 0 .. RingSize - 1
      BY <1>3
    <3>1. d[n] + k \in 0 .. RingSize - 1 /\ At(w, k) = At(p, d[n] + k)
      BY <1>6, <3>0
    <3>2. x = d[n] + k
      BY <2>1, <2>3, <3>1, AtInjective
    <3> QED BY <1>3, <3>2
  <2> QED BY <2>1, <2>2, <2>3 DEF u
<1>10. ASSUME NEW k \in 0 .. (n + 1) - 1
       PROVE  /\ e[k + 1] = e[k] + Units[r[k + 1]]
              /\ nx2[At(p, e[k])] = At(p, e[k + 1])
              /\ \A x \in e[k] .. e[k + 1] - 1 : m2[At(p, x)] = r[k + 1]
  <2>1. CASE k = n
    <3>1. e[k] = d[n] /\ e[k + 1] = d[n] + u /\ r[k + 1] = f
      BY <1>1, <1>5, <2>1
    <3>2. w \in Ring
      BY <1>2, <1>3, AtInRing
    <3>3. nx2[w] = At(w, u)
      BY <3>2 DEF u
    <3>4. ASSUME NEW x \in d[n] .. d[n] + u - 1 PROVE m2[At(p, x)] = f
      <4>1. x - d[n] \in 0 .. u - 1 /\ d[n] + (x - d[n]) = x /\ x \in 0 .. RingSize
        BY <1>3
      <4>2. x - d[n] \in Nat /\ d[n] + (x - d[n]) <= RingSize
        BY <4>1
      <4>3. At(w, x - d[n]) = At(p, d[n] + (x - d[n]))
        BY <1>6, <4>2
      <4>4. At(p, x) = At(w, x - d[n]) /\ At(p, x) \in Ring
        BY <4>1, <4>3, AtInRing
      <4> QED BY <4>1, <4>4 DEF u
    <3>5. e[k + 1] = e[k] + Units[r[k + 1]]
      BY <3>1 DEF u
    <3>6. nx2[At(p, e[k])] = At(p, e[k + 1])
      BY <1>2, <1>5, <1>7, <2>1, <3>1, <3>3
    <3>7. \A x \in e[k] .. e[k + 1] - 1 : m2[At(p, x)] = r[k + 1]
      <4>1. e[k] .. e[k + 1] - 1 = d[n] .. d[n] + u - 1
        BY <1>3, <3>1
      <4> QED BY <3>1, <3>4, <4>1, Zenon
    <3> QED BY <3>5, <3>6, <3>7
  <2>2. CASE k # n
    <3>1. k \in 0 .. n - 1 /\ k \in 0 .. n /\ k + 1 \in 0 .. n /\ k + 1 \in 1 .. n
      BY <1>1, <2>2
    <3>2. e[k] = d[k] /\ e[k + 1] = d[k + 1] /\ r[k + 1] = q[k + 1]
      BY <1>1, <1>5, <3>1
    <3>3. /\ d[k + 1] = d[k] + Units[q[k + 1]]
          /\ nx[At(p, d[k])] = At(p, d[k + 1])
          /\ \A x \in d[k] .. d[k + 1] - 1 : m[At(p, x)] = q[k + 1]
      BY <1>2, <3>1
    <3>4. d[k + 1] <= d[n] /\ d[k] < d[k + 1] /\ d[k] \in Nat /\ d[k + 1] \in Nat
      <4>1. d[k + 1] + (n - (k + 1)) <= d[n] /\ d[k] + ((k + 1) - k) <= d[k + 1]
        BY <1>1, <1>2, <3>1
      <4>2. d[k] \in Nat /\ d[k + 1] \in Nat
        BY <1>4, <3>1
      <4>3. d[n] \in Nat /\ n \in Nat /\ k \in Nat /\ k + 1 <= n
        BY <1>1, <1>3, <3>1
      <4> QED BY <4>1, <4>2, <4>3
    <3>5. d[n] \in Nat
      BY <1>3
    <3>6. d[k] \in 0 .. d[n] - 1
      BY <3>4, <3>5
    <3>7. \A a, b, c \in Nat : b <= c => a .. b - 1 \subseteq 0 .. c - 1
      OBVIOUS
    <3>8. d[k] .. d[k + 1] - 1 \subseteq 0 .. d[n] - 1
      BY <3>4, <3>5, <3>7
    <3> QED BY <1>9, <3>2, <3>3, <3>6, <3>8
  <2> QED BY <2>1, <2>2
<1>11. e[0] = 0
  BY <1>1, <1>2, <1>5
<1>12. Laid(m2, nx2, e, r, p, At(w, u))
  BY <1>1, <1>5, <1>7, <1>8, <1>10, <1>11 DEF Laid
<1> QED BY <1>0, <1>1, <1>5, <1>12 DEF u, n, r, Lies

-----------------------------------------------------------------------------
(***************************************************************************)
(* The first states.                                                       *)
(***************************************************************************)
LEMMA InitIInv == Init => IInv
<1> SUFFICES ASSUME Init PROVE IInv
  OBVIOUS
<1>1. TypeOK
  <2>1. NoFlags \in [txif : BOOLEAN, txerif : BOOLEAN, rxerif : BOOLEAN]
    BY DEF NoFlags
  <2>2. DOMAIN NoFlags = {"txif", "txerif", "rxerif"}
    BY DEF NoFlags
  <2>3. [DOMAIN NoFlags -> BOOLEAN] \subseteq
            [txif : BOOLEAN, txerif : BOOLEAN, rxerif : BOOLEAN]
    BY <2>2
  <2>4. flags \in [txif : BOOLEAN, txerif : BOOLEAN, rxerif : BOOLEAN]
    BY <2>1, <2>3 DEF Init
  <2>5. rx_start \in Ring /\ rx_end \in Ring
    BY DEF Ring
  <2>6. /\ {erxwrpt, erxrdpt, cur_ptr, next_ptr} \subseteq Ring
        /\ epktcnt \in 0 .. RingSize
    BY <2>5 DEF Init
  <2>7. mem \in [Ring -> Frames \cup {Garbage}] /\ nextOf \in [Ring -> Ring]
    BY <2>5 DEF Init
  <2>8. /\ {txrts, receive_error_, transmit_error_} \subseteq BOOLEAN
        /\ rxen \in BOOLEAN /\ unit \in {"starting", "busy", "ready"}
    BY DEF Init
  <2>9. /\ wire \in Seq(Senders \cup {Garbage}) /\ sendq \in Seq(Senders)
        /\ recv_queue_ \in Seq(Frames \cup {Garbage}) /\ stored \in Seq(Frames)
    BY DEF Init
  <2>10. /\ sampled.flags \in [txif : BOOLEAN, txerif : BOOLEAN, rxerif : BOOLEAN]
         /\ sampled.epktcnt \in BOOLEAN
    BY <2>1 DEF Init, NoSample
  <2> QED BY <2>4, <2>6, <2>7, <2>8, <2>9, <2>10 DEF Init, TypeOK
<1>2. SetupClean
  BY DEF Init, SetupClean, SettingUp
<1>3. ReceiveInv
  BY DEF Init, ReceiveInv, RingHolds, RunnerAgrees, SampleAgrees, SettingUp, NoSample
<1>4. SendInv
  BY DEF Init, SendInv, CallsAgree, Transmits, NotYetAired, Aired, IsInjective, ToSet
<1> QED BY <1>1, <1>2, <1>3, <1>4 DEF IInv

-----------------------------------------------------------------------------
(***************************************************************************)
(* Sending.                                                                *)
(***************************************************************************)

\* A frame goes out.
LEMMA WireGrows ==
    ASSUME TypeOK, wire' = Append(wire, txbuf)
    PROVE  /\ ToSet(wire)' = ToSet(wire) \cup {txbuf}
           /\ wire' # <<>> /\ Last(wire)' = txbuf
<1>1. wire \in Seq(Senders \cup {Garbage}) /\ txbuf \in Senders \cup {Garbage}
  BY DEF TypeOK
<1>2. ToSet(Append(wire, txbuf)) = ToSet(wire) \cup {txbuf}
  BY <1>1, AppendSet
<1>3. Append(wire, txbuf) # <<>> /\ Last(Append(wire, txbuf)) = txbuf
  BY <1>1, AppendLast
<1> QED BY <1>2, <1>3

LEMMA CallsStep ==
    ASSUME TypeOK, SetupClean, RunnerAgrees, SendInv, Next
    PROVE  CallsAgree'
<1> USE DEF SendInv
<1>1. ASSUME NEW f \in Frames, ChipReceive(f) PROVE CallsAgree'
  BY <1>1 DEF CallsAgree, Aired, ChipReceive, sending, transmitter
<1>2. CASE ChipTransmitted
  <2>1. /\ wire' = Append(wire, txbuf) /\ txrts /\ cpu # "reset"
        /\ UNCHANGED <<sendq, sender, cpu, txbuf>>
    BY <1>2 DEF ChipTransmitted, Running, sending
  <2>2. ToSet(wire)' = ToSet(wire) \cup {txbuf} /\ Last(wire)' = txbuf
    BY <2>1, WireGrows
  <2>3. \/ sender \in {"waiting", "woken"} /\ txbuf = Head(sendq)
        \/ txbuf = Last(wire) /\ txbuf \in ToSet(wire)
    BY <2>1, HeadTail DEF Transmits, TypeOK
  <2>4. sendq # <<>> => Head(sendq) = sendq[1] /\ DOMAIN sendq = 1 .. Len(sendq)
    BY HeadTail DEF TypeOK
  <2>5. CASE txbuf \in ToSet(wire) /\ txbuf = Last(wire)
    <3>1. ToSet(wire)' = ToSet(wire) /\ Last(wire)' = Last(wire)
      BY <2>2, <2>5
    <3> QED BY <2>1, <3>1 DEF CallsAgree, Aired
  <2>6. CASE sender \in {"waiting", "woken"} /\ txbuf = Head(sendq)
    <3>1. sendq # <<>> /\ 1 \in DOMAIN sendq
      BY <2>4, <2>6, HeadTail DEF CallsAgree, TypeOK
    <3>2. \A i \in DOMAIN sendq : i > 1 => sendq[i] # Head(sendq)
      BY <2>4, <3>1 DEF CallsAgree, IsInjective
    <3>3. \A i \in DOMAIN sendq : i > 1 => sendq[i] \notin ToSet(wire)'
      BY <2>2, <2>6, <3>2 DEF CallsAgree
    <3> QED BY <2>1, <2>2, <2>6, <3>1, <3>3 DEF CallsAgree, Aired
  <2> QED BY <2>3, <2>5, <2>6
<1>3. CASE ChipAborted
  BY <1>3 DEF CallsAgree, Aired, ChipAborted, sending
<1>4. CASE ChipReady
  BY <1>4 DEF CallsAgree, Aired, ChipReady, sending, transmitter
<1>5. CASE Setup
  BY <1>5 DEF CallsAgree, Aired, Setup, SetupReset, SetupWaitOst, SetupRing, SetupPhy,
              SetupEnable, DriverUnchanged, sending, transmitter
<1>6. CASE Poll
  <2>1. sender' = sender \/ (sender = "waiting" /\ sender' = "woken")
    BY <1>6 DEF Poll, PollStart, PollReceive, PollTransmit, PollTxif, PollEnd,
                Raised, sending
  <2>2. /\ UNCHANGED <<sendq, wire, txbuf>>
        /\ cpu \notin {"fill", "program", "trigger"}
        /\ cpu' \notin {"fill", "program", "trigger"}
    BY <1>6 DEF Poll, PollStart, PollReceive, PollTransmit, PollTxif, PollEnd,
                sending, transmitter
  <2> QED BY <2>1, <2>2 DEF CallsAgree, Aired
<1>7. CASE Run
  <2>1. /\ UNCHANGED <<sendq, wire, txbuf, sender>>
        /\ cpu \notin {"fill", "program", "trigger"}
        /\ cpu' \notin {"fill", "program", "trigger"}
    BY <1>7 DEF Run, RunWoken, ReadData, FreeRing, HandOver, RunYielded, sending, transmitter
  <2> QED BY <2>1 DEF CallsAgree, Aired
<1>8. CASE RecvPacket
  BY <1>8 DEF CallsAgree, Aired, RecvPacket, sending, transmitter
<1>9. ASSUME NEW t \in Senders, SendPacket(t) PROVE CallsAgree'
  <2>1. /\ sendq' = Append(sendq, t) /\ t \notin ToSet(sendq) \cup ToSet(wire)
        /\ sender' = IF sendq = <<>> THEN "ready" ELSE sender
        /\ cpu = "free" /\ UNCHANGED <<wire, cpu, txbuf>>
    BY <1>9 DEF SendPacket, transmitter
  <2>2. IsInjective(sendq)'
    BY <2>1, AppendSet DEF CallsAgree, TypeOK
  <2>3. /\ sendq' # <<>> /\ DOMAIN sendq' = 1 .. Len(sendq) + 1 /\ Len(sendq) \in Nat
        /\ \A i \in 1 .. Len(sendq) : sendq'[i] = sendq[i]
        /\ sendq'[Len(sendq) + 1] = t
        /\ Head(sendq)' = IF sendq = <<>> THEN t ELSE Head(sendq)
    BY <2>1, AppendLast DEF TypeOK
  <2>4. \A i \in DOMAIN sendq' : i > 1 => sendq'[i] \notin ToSet(wire)
    BY <2>1, <2>3 DEF CallsAgree, TypeOK
  <2>5. Aired' => Aired
    BY <2>1, <2>3 DEF Aired
  <2> QED BY <2>1, <2>2, <2>3, <2>4, <2>5 DEF CallsAgree, Aired
<1>10. CASE SendReset
  BY <1>10 DEF CallsAgree, Aired, SendReset, sending, transmitter
<1>11. CASE SendFill
  BY <1>11 DEF CallsAgree, Aired, SendFill, sending, transmitter
<1>12. CASE SendProgram
  BY <1>12 DEF CallsAgree, Aired, SendProgram, sending, transmitter
<1>13. CASE SendTrigger
  BY <1>13 DEF CallsAgree, Aired, SendTrigger, sending, transmitter
<1>14. CASE SendWoken
  <2>1. UNCHANGED <<wire, txbuf>> /\ cpu = "free" /\ cpu' \in {"free", "stopped"}
    BY <1>14 DEF SendWoken, transmitter
  <2>2. CASE UNCHANGED <<sendq, sender>>
    BY <2>1, <2>2 DEF CallsAgree, Aired
  <2>3. CASE sendq' = Tail(sendq) /\ sender' = IF Len(sendq) > 1 THEN "ready" ELSE "none"
    <3>1. sendq # <<>>
      BY <1>14 DEF SendWoken, CallsAgree
    <3>2. /\ Len(sendq) \in Nat \ {0} /\ IsInjective(sendq)' /\ sendq' \in Seq(Senders)
          /\ DOMAIN sendq' = 1 .. Len(sendq) - 1 /\ Len(sendq') = Len(sendq) - 1
          /\ DOMAIN sendq = 1 .. Len(sendq)
          /\ \A i \in 1 .. Len(sendq) - 1 : sendq'[i] = sendq[i + 1]
      BY <2>3, <3>1, HeadTail DEF CallsAgree, TypeOK
    <3>3. \A i \in DOMAIN sendq' : sendq'[i] \notin ToSet(wire)
      <4> TAKE i \in DOMAIN sendq'
      <4>1. i + 1 \in DOMAIN sendq /\ i + 1 > 1 /\ sendq'[i] = sendq[i + 1]
        BY <3>2
      <4> QED BY <4>1 DEF CallsAgree
    <3>4. sendq' # <<>> <=> Len(sendq) > 1
      BY <3>2
    <3>5. ~Aired'
      <4> SUFFICES ASSUME sendq' # <<>> PROVE Head(sendq)' \notin ToSet(wire)'
        BY DEF Aired
      <4>1. Head(sendq') = sendq'[1] /\ 1 \in DOMAIN sendq'
        BY <3>2, <3>4
      <4> QED BY <2>1, <3>3, <4>1
    <3> QED BY <2>1, <2>3, <3>2, <3>3, <3>4, <3>5 DEF CallsAgree
  <2> QED BY <1>14, <2>2, <2>3 DEF SendWoken
<1> QED
  BY <1>1, <1>2, <1>3, <1>4, <1>5, <1>6, <1>7, <1>8, <1>9, <1>10, <1>11, <1>12, <1>13,
     <1>14 DEF Next, Send

LEMMA TransmitsStep ==
    ASSUME TypeOK, SetupClean, RunnerAgrees, SendInv, Next
    PROVE  Transmits'
<1> USE DEF SendInv
<1>1. ASSUME NEW f \in Frames, ChipReceive(f) PROVE Transmits'
  BY <1>1 DEF Transmits, SettingUp, ChipReceive, sending, transmitter
<1>2. CASE ChipTransmitted
  <2>1. wire' # <<>> /\ Last(wire)' = txbuf
    BY <1>2, WireGrows DEF ChipTransmitted
  <2> QED BY <1>2, <2>1 DEF Transmits, SettingUp, ChipTransmitted, Running, sending
<1>3. CASE ChipAborted
  BY <1>3 DEF Transmits, ChipAborted
<1>4. CASE ChipReady
  BY <1>4 DEF Transmits, SettingUp, ChipReady, sending, transmitter
<1>5. CASE Setup
  <2>1. cpu # "reset" => ~txrts
    BY <1>5 DEF Setup, SetupReset, SetupWaitOst, SetupRing, SetupPhy, SetupEnable,
                SetupClean, SettingUp
  <2>2. txrts' => txrts /\ cpu # "reset"
    BY <1>5 DEF Setup, SetupReset, SetupWaitOst, SetupRing, SetupPhy, SetupEnable,
                transmitter
  <2> QED BY <2>1, <2>2 DEF Transmits
<1>6. CASE Poll
  <2>1. /\ sender' = sender \/ (sender = "waiting" /\ sender' = "woken")
        /\ ~SettingUp'
    BY <1>6 DEF Poll, PollStart, PollReceive, PollTransmit, PollTxif, PollEnd,
                Raised, SettingUp, sending
  <2>2. UNCHANGED <<sendq, wire, txbuf, txrts>> /\ cpu # "reset"
    BY <1>6 DEF Poll, PollStart, PollReceive, PollTransmit, PollTxif, PollEnd,
                sending, transmitter
  <2> QED BY <2>1, <2>2 DEF Transmits
<1>7. CASE Run
  <2>1. /\ UNCHANGED <<sendq, wire, txbuf, sender, txrts>> /\ cpu # "reset"
        /\ ~SettingUp'
    BY <1>7 DEF Run, RunWoken, ReadData, FreeRing, HandOver, RunYielded, SettingUp,
                sending, transmitter
  <2> QED BY <2>1 DEF Transmits
<1>8. CASE RecvPacket
  BY <1>8 DEF Transmits, SettingUp, RecvPacket, sending, transmitter
<1>9. ASSUME NEW t \in Senders, SendPacket(t) PROVE Transmits'
  <2>1. sender \in {"waiting", "woken"} => sendq # <<>>
    BY DEF CallsAgree
  <2>2. sendq # <<>> => Head(sendq)' = Head(sendq)
    BY <1>9, AppendLast DEF SendPacket, TypeOK
  <2> QED BY <1>9, <2>1, <2>2 DEF Transmits, SettingUp, SendPacket, transmitter
<1>10. CASE SendReset
  BY <1>10 DEF Transmits, SendReset
<1>11. CASE SendFill
  BY <1>11 DEF Transmits, SettingUp, CallsAgree, SendFill, sending
<1>12. CASE SendProgram
  BY <1>12 DEF Transmits, SettingUp, CallsAgree, SendProgram, sending
<1>13. CASE SendTrigger
  BY <1>13 DEF Transmits, SettingUp, CallsAgree, SendTrigger
<1>14. CASE SendWoken
  <2>1. UNCHANGED <<wire, txbuf, txrts>> /\ cpu = "free" /\ ~SettingUp'
    BY <1>14 DEF SendWoken, SettingUp, transmitter
  <2>2. CASE UNCHANGED <<sendq, sender>>
    BY <2>1, <2>2 DEF Transmits
  <2>3. CASE ~transmit_error_ /\ sender' = IF Len(sendq) > 1 THEN "ready" ELSE "none"
    <3>1. sender = "woken" /\ sender' \notin {"running", "waiting", "woken"}
      BY <1>14, <2>3 DEF SendWoken
    <3>2. txrts => Aired
      BY <2>1, <2>3, <3>1 DEF NotYetAired
    <3>3. txrts => wire # <<>> /\ txbuf = Last(wire)
      BY <2>1, <3>1, <3>2 DEF Transmits, CallsAgree, Aired, ToSet
    <3> QED BY <2>1, <3>1, <3>3 DEF Transmits
  <2> QED BY <1>14, <2>2, <2>3 DEF SendWoken
<1> QED
  BY <1>1, <1>2, <1>3, <1>4, <1>5, <1>6, <1>7, <1>8, <1>9, <1>10, <1>11, <1>12, <1>13,
     <1>14 DEF Next, Send

LEMMA NotYetAiredStep ==
    ASSUME TypeOK, SetupClean, RunnerAgrees, SampleAgrees, SendInv, Next
    PROVE  NotYetAired'
<1> USE DEF SendInv
<1>0. flags \in [txif : BOOLEAN, txerif : BOOLEAN, rxerif : BOOLEAN]
  BY DEF TypeOK
<1>1. ASSUME NEW f \in Frames, ChipReceive(f) PROVE NotYetAired'
  <2>1. flags'.txif = flags.txif /\ flags'.txerif = flags.txerif
    BY <1>0, <1>1 DEF ChipReceive
  <2> QED BY <1>1, <2>1 DEF NotYetAired, Aired, ChipReceive, sending, transmitter
<1>2. CASE ChipTransmitted
  <2>1. /\ wire' = Append(wire, txbuf) /\ txrts /\ cpu # "reset"
        /\ UNCHANGED <<sendq, sender>>
    BY <1>2 DEF ChipTransmitted, Running, sending
  <2>2. ToSet(wire)' = ToSet(wire) \cup {txbuf}
    BY <2>1, WireGrows
  <2>3. sender # "running"
    BY <2>1 DEF Transmits
  <2>4. sender \in {"waiting", "woken"} => Aired'
    BY <2>1, <2>2 DEF Transmits, CallsAgree, Aired
  <2> QED BY <2>1, <2>3, <2>4 DEF NotYetAired
<1>3. CASE ChipAborted
  <2>1. /\ txrts /\ cpu # "reset" /\ ~txrts' /\ flags'.txerif
        /\ UNCHANGED <<wire, sendq, sender, transmit_error_, cpu, sampled>>
    BY <1>0, <1>3 DEF ChipAborted, Running, sending
  <2>2. sender # "running"
    BY <2>1 DEF Transmits
  <2> QED BY <2>1, <2>2 DEF NotYetAired, Aired
<1>4. CASE ChipReady
  BY <1>4 DEF NotYetAired, Aired, ChipReady, sending, transmitter
<1>5. CASE Setup
  <2>1. sender = "none" /\ UNCHANGED sender
    BY <1>5 DEF Setup, SetupReset, SetupWaitOst, SetupRing, SetupPhy, SetupEnable,
                SetupClean, SettingUp, CallsAgree, DriverUnchanged, sending
  <2> QED BY <2>1 DEF NotYetAired
<1>6. CASE PollStart
  BY <1>6 DEF NotYetAired, Aired, PollStart, sending, transmitter
<1>7. CASE PollReceive
  BY <1>7 DEF NotYetAired, Aired, PollReceive, sending, transmitter
<1>8. CASE PollTransmit
  <2>1. flags'.txif = flags.txif /\ flags'.txerif = flags.txerif
    BY <1>0, <1>8 DEF PollTransmit
  <2> QED BY <1>8, <2>1 DEF NotYetAired, Aired, PollTransmit, Raised, transmitter
<1>9. CASE PollTxif
  <2>1. /\ flags'.txif <=> flags.txif /\ ~sampled.flags.txif
        /\ flags'.txerif <=> flags.txerif
    BY <1>0, <1>9 DEF PollTxif, Acknowledged
  <2> QED BY <1>9, <2>1 DEF NotYetAired, Aired, PollTxif, sending, transmitter
<1>10. CASE PollEnd
  <2>1. /\ flags'.txif <=> flags.txif
        /\ flags'.txerif <=> flags.txerif /\ ~sampled.flags.txerif
    BY <1>0, <1>10 DEF PollEnd
  <2>2. ~sampled'.flags.txif /\ ~sampled'.flags.txerif
    BY <1>10 DEF PollEnd, NoSample, NoFlags
  <2> QED BY <1>10, <2>1, <2>2 DEF NotYetAired, Aired, PollEnd, sending, transmitter
<1>11. CASE Run
  <2>1. /\ UNCHANGED <<sendq, wire, txrts, sender, flags, sampled, transmit_error_>>
        /\ cpu \notin {"stopped", "clear_txerif"} /\ cpu' # "clear_txerif"
    BY <1>11 DEF Run, RunWoken, ReadData, FreeRing, HandOver, RunYielded, sending,
                 transmitter
  <2> QED BY <2>1 DEF NotYetAired, Aired
<1>12. CASE RecvPacket
  BY <1>12 DEF NotYetAired, Aired, RecvPacket, sending, transmitter
<1>13. ASSUME NEW t \in Senders, SendPacket(t) PROVE NotYetAired'
  <2>1. sender \in {"waiting", "woken"} => sendq # <<>>
    BY DEF CallsAgree
  <2>2. sendq # <<>> => Head(sendq)' = Head(sendq)
    BY <1>13, AppendLast DEF SendPacket, TypeOK
  <2>3. sendq' # <<>>
    BY <1>13, AppendLast DEF SendPacket, TypeOK
  <2> QED BY <1>13, <2>1, <2>2, <2>3 DEF NotYetAired, Aired, SendPacket, transmitter
<1>14. CASE SendReset
  <2>1. ~flags'.txif /\ ~flags'.txerif
    BY <1>0, <1>14 DEF SendReset
  <2> QED BY <1>14, <2>1 DEF NotYetAired, SendReset
<1>15. CASE SendFill
  BY <1>15 DEF NotYetAired, Aired, SendFill, sending
<1>16. CASE SendProgram
  BY <1>16 DEF NotYetAired, Aired, SendProgram, sending
<1>17. CASE SendTrigger
  <2>1. ~sampled.flags.txif /\ ~sampled.flags.txerif
    BY <1>17 DEF SampleAgrees, SendTrigger, NoSample, NoFlags
  <2>2. sender = "running" /\ txrts' /\ sender' = "waiting" /\ UNCHANGED <<flags, sampled>>
    BY <1>17 DEF CallsAgree, SendTrigger
  <2> QED BY <2>1, <2>2 DEF NotYetAired
<1>18. CASE SendWoken
  BY <1>18 DEF NotYetAired, Aired, SendWoken, transmitter
<1> QED
  BY <1>1, <1>2, <1>3, <1>4, <1>5, <1>6, <1>7, <1>8, <1>9, <1>10, <1>11, <1>12,
     <1>13, <1>14, <1>15, <1>16, <1>17, <1>18 DEF Next, Send, Poll

-----------------------------------------------------------------------------
(***************************************************************************)
(* Setting up, and what do_poll has read.                                  *)
(***************************************************************************)
LEMMA SetupStep ==
    ASSUME TypeOK, SetupClean, RunnerAgrees, SendInv, Next
    PROVE  SetupClean'
<1> SUFFICES ASSUME SettingUp' PROVE SetupClean'
  BY DEF SetupClean
<1>1. SettingUp
  <2>1. CASE Setup \/ ChipReady
    BY <2>1 DEF Setup, SetupReset, SetupWaitOst, SetupRing, SetupPhy, SetupEnable,
                ChipReady, SettingUp
  <2>2. CASE Poll \/ Run \/ Send \/ RecvPacket
    BY <2>2 DEF Poll, PollStart, PollReceive, PollTransmit, PollTxif, PollEnd, Run,
                RunWoken, ReadData, FreeRing, HandOver, RunYielded, RecvPacket, Send,
                SendReset, SendFill, SendProgram, SendTrigger, SendWoken, SettingUp
  <2>3. ASSUME NEW t \in Senders, SendPacket(t) PROVE SettingUp
    BY <2>3 DEF SendPacket, SettingUp
  <2>4. CASE ChipTransmitted \/ ChipAborted
    BY <2>4 DEF ChipTransmitted, ChipAborted, SettingUp
  <2>5. ASSUME NEW f \in Frames, ChipReceive(f) PROVE SettingUp
    BY <2>5 DEF ChipReceive, SettingUp
  <2> QED BY <2>1, <2>2, <2>3, <2>4, <2>5 DEF Next
<1>2. CASE Setup
  BY <1>1, <1>2 DEF Setup, SetupReset, SetupWaitOst, SetupRing, SetupPhy, SetupEnable,
                    SetupClean, SettingUp, DriverUnchanged, receiving, sending, ring,
                    transmitter, mode
<1>3. CASE ChipReady
  BY <1>1, <1>3 DEF ChipReady, SetupClean, SettingUp, receiving, sending, ring,
                    transmitter
<1>4. ASSUME NEW f \in Frames, ChipReceive(f) PROVE FALSE
  BY <1>1, <1>4 DEF ChipReceive, Running, SetupClean
<1>5. CASE ChipTransmitted \/ ChipAborted
  BY <1>1, <1>5 DEF ChipTransmitted, ChipAborted, Running, SetupClean
<1>6. CASE Poll \/ Run \/ Send \/ RecvPacket
  BY <1>1, <1>6 DEF Poll, PollStart, PollReceive, PollTransmit, PollTxif, PollEnd, Run,
              RunWoken, ReadData, FreeRing, HandOver, RunYielded, RecvPacket, Send,
              SendReset, SendFill, SendProgram, SendTrigger, SendWoken, SettingUp
<1>7. ASSUME NEW t \in Senders, SendPacket(t) PROVE FALSE
  BY <1>1, <1>7 DEF SendPacket, SettingUp
<1> QED BY <1>2, <1>3, <1>4, <1>5, <1>6, <1>7 DEF Next

LEMMA SampleStep ==
    ASSUME TypeOK, SetupClean, RunnerAgrees, SampleAgrees, Next
    PROVE  SampleAgrees'
<1>1. ASSUME NEW f \in Frames, ChipReceive(f) PROVE SampleAgrees'
  <2>1. UNCHANGED <<cpu, sampled>> /\ (epktcnt' = epktcnt \/ epktcnt' = epktcnt + 1)
    BY <1>1 DEF ChipReceive
  <2>2. epktcnt \in Nat
    BY DEF TypeOK
  <2> QED BY <2>1, <2>2 DEF SampleAgrees
<1>2. CASE ChipTransmitted \/ ChipAborted \/ ChipReady
  BY <1>2 DEF ChipTransmitted, ChipAborted, ChipReady, SampleAgrees, ring
<1>3. CASE Setup
  <2>1. sampled = NoSample /\ UNCHANGED sampled
    BY <1>3 DEF Setup, SetupReset, SetupWaitOst, SetupRing, SetupPhy, SetupEnable,
                SampleAgrees, DriverUnchanged
  <2> QED BY <2>1 DEF SampleAgrees, NoSample
<1>4. CASE Poll
  <2>1. CASE PollStart
    <3>1. /\ sampled'.epktcnt <=> epktcnt > 0
          /\ epktcnt' = epktcnt /\ cpu' = "read_epktcnt"
      BY <2>1 DEF PollStart, ring
    <3> QED BY <3>1 DEF SampleAgrees
  <2>2. CASE PollReceive \/ PollTransmit \/ PollTxif
    BY <2>2 DEF PollReceive, PollTransmit, PollTxif, SampleAgrees, ring
  <2>3. CASE PollEnd
    BY <2>3 DEF PollEnd, SampleAgrees, NoSample
  <2> QED BY <1>4, <2>1, <2>2, <2>3 DEF Poll
<1>5. CASE HandOver
  BY <1>5 DEF HandOver, SampleAgrees, NoSample
<1>6. CASE RunWoken \/ ReadData \/ FreeRing \/ RunYielded \/ RecvPacket
  BY <1>6 DEF RunWoken, ReadData, FreeRing, RunYielded, RecvPacket, SampleAgrees, ring
<1>7. ASSUME NEW t \in Senders, SendPacket(t) PROVE SampleAgrees'
  BY <1>7 DEF SendPacket, SampleAgrees, ring
<1>8. CASE Send
  BY <1>8 DEF Send, SendReset, SendFill, SendProgram, SendTrigger, SendWoken,
              SampleAgrees, ring
<1> QED BY <1>1, <1>2, <1>3, <1>4, <1>5, <1>6, <1>7, <1>8 DEF Next, Run

-----------------------------------------------------------------------------
(***************************************************************************)
(* Receiving.                                                              *)
(***************************************************************************)

\* While a frame is in the ring unread, run() would read it where it stands: its
\* pointer and its units are those of the oldest frame.
LEMMA FirstUnread ==
    ASSUME TypeOK, RingHolds, ~SettingUp, Unread # <<>>
    PROVE  /\ Unread \in Seq(Frames) /\ Head(Unread) \in Frames
           /\ Units[Head(Unread)] \in 1 .. RingSize - 1
           /\ nextOf[cur_ptr] = At(cur_ptr, Units[Head(Unread)])
           /\ Holds(mem, cur_ptr, Units[Head(Unread)], Head(Unread))
           /\ erxwrpt # cur_ptr
<1>1. Unread \in Seq(Frames) /\ cur_ptr \in Ring
  BY HeadTail DEF Unread, TypeOK
<1>2. PICK size \in 0 .. RingSize - 1 :
          Lies(mem, nextOf, Unread, cur_ptr, erxwrpt, size)
  BY DEF RingHolds
<1>3. Head(Unread) = Unread[1]
  BY <1>1, HeadTail
<1> DEFINE q == Unread
           u == Units[q[1]]
<1>4. /\ q[1] \in Frames /\ u \in 1 .. RingSize - 1 /\ u <= size
      /\ nextOf[cur_ptr] = At(cur_ptr, u)
      /\ Holds(mem, cur_ptr, u, q[1])
  <2>1. Lies(mem, nextOf, q, cur_ptr, erxwrpt, size) /\ q \in Seq(Frames) /\ q # <<>>
    BY <1>1, <1>2
  <2>2. /\ cur_ptr \in Ring
        /\ mem \in [Ring -> Frames \cup {Garbage}] /\ nextOf \in [Ring -> Ring]
    BY <1>1 DEF TypeOK
  <2> HIDE DEF q
  <2> QED BY <2>1, <2>2, LaidFirst
<1>5. erxwrpt = At(cur_ptr, size)
  BY <1>1, <1>2, LaidSize
<1>6. erxwrpt # cur_ptr
  <2> HIDE DEF q, u
  <2> QED BY <1>1, <1>4, <1>5 DEF At, Ring
<1> QED BY <1>1, <1>3, <1>4, <1>6

LEMMA RunnerStep ==
    ASSUME TypeOK, SetupClean, ReceiveInv, Next
    PROVE  RunnerAgrees'
<1> USE DEF ReceiveInv
<1>1. ASSUME NEW f \in Frames, ChipReceive(f) PROVE RunnerAgrees'
  <2>1. ~SettingUp /\ UNCHANGED <<cpu, runner, receive_error_, next_ptr, cur_ptr, held>>
    BY <1>1 DEF ChipReceive, Running, SetupClean, receiving
  <2>2. CASE UNCHANGED <<nextOf, epktcnt, stored>>
    BY <2>1, <2>2 DEF RunnerAgrees, SettingUp
  <2>3. CASE /\ nextOf' = [nextOf EXCEPT ![erxwrpt] = (erxwrpt + Units[f]) % RingSize]
             /\ epktcnt' = epktcnt + 1 /\ stored' = Append(stored, f)
    <3>1. /\ stored' # <<>> /\ Len(stored') = Len(stored) + 1 /\ Len(stored) \in Nat
          /\ stored # <<>> => Head(stored') = Head(stored)
      BY <2>3, AppendLast DEF TypeOK
    <3>2. epktcnt' = Len(stored') /\ epktcnt' > 0
      BY <2>1, <2>3, <3>1 DEF RunnerAgrees
    <3>3. cpu = "read_data" => nextOf'[cur_ptr] = nextOf[cur_ptr]
      <4> SUFFICES ASSUME cpu = "read_data" PROVE nextOf'[cur_ptr] = nextOf[cur_ptr]
        OBVIOUS
      <4>1. Unread = stored /\ stored # <<>>
        BY DEF Unread, RunnerAgrees
      <4>2. erxwrpt # cur_ptr
        BY <2>1, <4>1, FirstUnread
      <4> QED BY <2>3, <4>2 DEF TypeOK
    <3>4. cpu \in {"read_data", "free_ring", "hand_over"} => stored # <<>>
      BY DEF RunnerAgrees
    <3> QED BY <2>1, <3>1, <3>2, <3>3, <3>4 DEF RunnerAgrees, SettingUp
  <2> QED BY <1>1, <2>2, <2>3 DEF ChipReceive
<1>2. CASE ChipTransmitted \/ ChipAborted \/ ChipReady
  BY <1>2 DEF ChipTransmitted, ChipAborted, ChipReady, RunnerAgrees, SettingUp, ring,
              receiving
<1>3. CASE Setup
  <2>1. SettingUp
    BY <1>3 DEF Setup, SetupReset, SetupWaitOst, SetupRing, SetupPhy, SetupEnable,
                SettingUp
  <2>2. stored = <<>> /\ runner = "waiting" /\ (cpu # "reset" => epktcnt = 0)
    BY <2>1 DEF SetupClean
  <2>3. /\ UNCHANGED <<stored, runner>>
        /\ cpu' \notin {"read_data", "free_ring", "hand_over"}
        /\ cpu = "reset" => SettingUp'
        /\ cpu # "reset" => UNCHANGED epktcnt
    BY <1>3 DEF Setup, SetupReset, SetupWaitOst, SetupRing, SetupPhy, SetupEnable,
                SettingUp, DriverUnchanged, receiving, ring
  <2> QED BY <2>2, <2>3 DEF RunnerAgrees
<1>4. CASE PollStart \/ PollTransmit \/ PollTxif \/ PollEnd
  BY <1>4 DEF PollStart, PollTransmit, PollTxif, PollEnd, RunnerAgrees, SettingUp,
              ring, receiving
<1>5. CASE PollReceive
  <2>1. sampled.epktcnt => epktcnt > 0
    BY DEF SampleAgrees
  <2>2. /\ UNCHANGED <<epktcnt, stored>> /\ ~SettingUp
        /\ cpu = "read_epktcnt" /\ cpu' = "clear_rxerif"
    BY <1>5 DEF PollReceive, ring, SettingUp
  <2>3. CASE /\ epktcnt > 0 \/ sampled.epktcnt \/ sampled.flags.rxerif
             /\ runner' = Raised(runner) /\ receive_error_' = sampled.flags.rxerif
    BY <2>1, <2>2, <2>3 DEF RunnerAgrees, Raised
  <2>4. CASE UNCHANGED <<runner, receive_error_>>
    BY <2>2, <2>4 DEF RunnerAgrees
  <2> QED BY <1>5, <2>3, <2>4 DEF PollReceive, ReceiveIrq
<1>6. CASE RunWoken
  <2>1. CASE receive_error_ /\ runner' = "waiting" /\ UNCHANGED <<next_ptr, cpu>>
    BY <1>6, <2>1 DEF RunWoken, RunnerAgrees, SettingUp, ring
  <2>2. CASE /\ ~receive_error_ /\ runner' = "running"
             /\ next_ptr' = nextOf[cur_ptr] /\ cpu' = "read_data"
    <3>1. epktcnt > 0 /\ epktcnt = Len(stored) /\ ~SettingUp
      BY <1>6, <2>2 DEF RunWoken, RunnerAgrees, SettingUp
    <3>2. stored # <<>>
      BY <3>1
    <3> QED BY <1>6, <2>2, <3>1, <3>2 DEF RunWoken, RunnerAgrees, ring
  <2> QED BY <1>6, <2>1, <2>2 DEF RunWoken
<1>7. CASE ReadData
  <2>1. cpu = "read_data" /\ ~SettingUp /\ stored # <<>> /\ Unread = stored
    BY <1>7 DEF ReadData, SettingUp, RunnerAgrees, Unread
  <2>2. next_ptr = nextOf[cur_ptr]
    BY <2>1 DEF RunnerAgrees
  <2> DEFINE u == Units[Head(stored)]
  <2>3. /\ Head(stored) \in Frames /\ u \in 1 .. RingSize - 1
        /\ next_ptr = At(cur_ptr, u)
        /\ \A x \in 0 .. u - 1 : mem[At(cur_ptr, x)] = Head(stored)
    BY <2>1, <2>2, FirstUnread DEF Holds
  <2>4. ReadBuffer(cur_ptr, next_ptr) = Head(stored)
    <3> DEFINE read == UnitsFrom(cur_ptr, (next_ptr + RingSize - cur_ptr) % RingSize)
               whole == {f \in Frames : read # {} /\ \A i \in read : mem[i] = f}
    <3> HIDE DEF u
    <3>1. cur_ptr \in Ring
      BY DEF TypeOK
    <3>2. (next_ptr + RingSize - cur_ptr) % RingSize = u
      BY <2>3, <3>1, Distance
    <3>3. \A i : i \in read <=> \E k \in 0 .. u - 1 : i = At(cur_ptr, k)
      BY <2>3, <3>1, <3>2, UnitsAt
    <3>4. 0 \in 0 .. u - 1
      BY <2>3
    <3>5. read # {} /\ \A i \in read : mem[i] = Head(stored)
      BY <2>3, <3>3, <3>4
    <3> HIDE DEF read
    <3>6. whole = {Head(stored)}
      BY <2>3, <3>5
    <3> HIDE DEF whole
    <3>7. (CHOOSE f \in whole : TRUE) = Head(stored)
      BY <3>6
    <3>8. ReadBuffer(cur_ptr, next_ptr) =
              IF whole = {} THEN Garbage ELSE CHOOSE f \in whole : TRUE
      BY DEF ReadBuffer, whole, read
    <3> QED BY <3>6, <3>7, <3>8
  <2> QED BY <1>7, <2>1, <2>4 DEF ReadData, RunnerAgrees, SettingUp, ring
<1>8. CASE FreeRing
  BY <1>8 DEF FreeRing, RunnerAgrees, SettingUp, ring, receiving
<1>9. CASE HandOver
  <2>1. stored # <<>> /\ epktcnt = Len(stored) /\ Len(Tail(stored)) = Len(stored) - 1
    BY <1>9, HeadTail DEF HandOver, RunnerAgrees, SettingUp, TypeOK
  <2> QED BY <1>9, <2>1 DEF HandOver, RunnerAgrees, SettingUp
<1>10. CASE RunYielded
  BY <1>10 DEF RunYielded, RunnerAgrees, SettingUp, ring
<1>11. CASE RecvPacket
  BY <1>11 DEF RecvPacket, RunnerAgrees, SettingUp, ring
<1>12. ASSUME NEW t \in Senders, SendPacket(t) PROVE RunnerAgrees'
  BY <1>12 DEF SendPacket, RunnerAgrees, SettingUp, ring, receiving
<1>13. CASE Send
  BY <1>13 DEF Send, SendReset, SendFill, SendProgram, SendTrigger, SendWoken,
               RunnerAgrees, SettingUp, ring, receiving
<1> QED
  BY <1>1, <1>2, <1>3, <1>4, <1>5, <1>6, <1>7, <1>8, <1>9, <1>10, <1>11, <1>12, <1>13
     DEF Next, Run, Poll

\* The chip's read pointer, from where it writes: it is as far as what is free.
LEMMA RoomLeft ==
    ASSUME NEW r \in Ring, NEW a \in Nat, NEW b \in Nat, a + b <= RingSize - 1
    PROVE  At(At(At(r, b + 1), a), RingSize - 1 - a - b) = r
BY DEF At, Ring

\* A step that leaves the ring and run() where they are keeps what the ring holds.
LEMMA RingKept ==
    ASSUME RingHolds, UNCHANGED <<mem, nextOf, erxwrpt, erxrdpt, cur_ptr>>,
           Unread' = Unread, Unfreed' = Unfreed, ~SettingUp
    PROVE  RingHolds'
BY DEF RingHolds

\* A frame that fits is stored after the others.
LEMMA RingReceives ==
    ASSUME TypeOK, SetupClean, ReceiveInv, NEW f \in Frames, ChipReceive(f)
    PROVE  RingHolds'
<1> USE DEF ReceiveInv
<1>1. /\ ~SettingUp /\ UNCHANGED <<cpu, cur_ptr, erxrdpt>>
      /\ cpu \in {"free_ring", "hand_over"} => stored # <<>>
  BY DEF ChipReceive, Running, SetupClean, receiving, RunnerAgrees
<1>2. CASE UNCHANGED <<mem, nextOf, erxwrpt, stored>>
  BY <1>1, <1>2, RingKept DEF Unread, Unfreed
<1> DEFINE u == Units[f]
           room == UnitsFrom(erxwrpt, u)
           after == (erxwrpt + u) % RingSize
<1>3. CASE /\ u < RingSize /\ erxrdpt \notin room
           /\ mem' = [i \in Ring |-> IF i \in room THEN f ELSE mem[i]]
           /\ nextOf' = [nextOf EXCEPT ![erxwrpt] = after]
           /\ erxwrpt' = after /\ stored' = Append(stored, f)
  <2>1. Unread' = Append(Unread, f) /\ Unread \in Seq(Frames)
    <3>1. /\ stored \in Seq(Frames) /\ stored' = Append(stored, f)
          /\ stored # <<>> =>
                 Tail(stored') = Append(Tail(stored), f) /\ Tail(stored) \in Seq(Frames)
      BY <1>3, AppendLast, HeadTail DEF TypeOK
    <3> QED BY <1>1, <3>1 DEF Unread
  <2>2. Unfreed' = Unfreed /\ Unfreed \in Nat
    BY <1>1, <1>3, AppendLast, HeadTail DEF Unfreed, TypeOK
  <2>3. cur_ptr \in Ring /\ erxrdpt \in Ring /\ erxwrpt \in Ring
    BY DEF TypeOK
  <2>4. u \in Nat \ {0} /\ u \in 0 .. RingSize
    BY <1>3
  <2> DEFINE q == Unread
  <2>5. PICK size \in 0 .. RingSize - 1 :
            /\ Lies(mem, nextOf, q, cur_ptr, erxwrpt, size)
            /\ size + Unfreed <= RingSize - 1
            /\ cur_ptr = At(erxrdpt, Unfreed + 1)
    BY <1>1 DEF RingHolds
  <2>6. erxwrpt = At(cur_ptr, size)
    BY <2>1, <2>5, LaidSize
  <2> HIDE DEF q, u
  <2>7. size + Unfreed + u <= RingSize - 1
    <3> DEFINE left == RingSize - 1 - size - Unfreed
    <3> SUFFICES ASSUME left < u PROVE FALSE
      BY <2>2, <2>4, <2>5, <2>6
    <3>1. left \in 0 .. u - 1
      BY <2>2, <2>4, <2>5, <2>6
    <3>2. At(erxwrpt, left) = erxrdpt
      BY <2>2, <2>3, <2>5, <2>6, RoomLeft
    <3> HIDE DEF left
    <3>3. erxrdpt \in room
      BY <2>3, <2>4, <3>1, <3>2, UnitsAt
    <3> QED BY <1>3, <3>3
  <2>8. size + u <= RingSize - 1
    BY <2>2, <2>4, <2>6, <2>7
  <2>9. after = At(erxwrpt, u) /\ after \in Ring
    BY <2>3, <2>4, AtIsMod
  <2>10. \A i : i \in room <=> \E k \in 0 .. u - 1 : i = At(erxwrpt, k)
    BY <2>3, <2>4, UnitsAt
  <2> HIDE DEF room, after
  <2>11. \A i \in Ring : mem'[i] = IF \E k \in 0 .. u - 1 : i = At(erxwrpt, k)
                                   THEN f ELSE mem[i]
    BY <1>3, <2>10
  <2>12. Writes(mem', nextOf', mem, nextOf, erxwrpt, u, f)
    <3>1. \A i \in Ring : nextOf'[i] = IF i = erxwrpt THEN At(erxwrpt, u) ELSE nextOf[i]
      BY <1>3, <2>3, <2>9 DEF TypeOK
    <3> QED BY <2>11, <3>1 DEF Writes
  <2>13. Lies(mem', nextOf', Append(q, f), cur_ptr, At(erxwrpt, u), size + u)
    <3>1. q \in Seq(Frames) /\ size + Units[f] <= RingSize - 1
      BY <2>1, <2>8 DEF q, u
    <3> QED BY <2>3, <2>5, <2>12, <3>1, LaidMore DEF u
  <2>14. Lies(mem', nextOf', Unread', cur_ptr', erxwrpt', size + u)
    BY <1>1, <1>3, <2>1, <2>9, <2>13 DEF q
  <2>15. size + u \in 0 .. RingSize - 1 /\ (size + u) + Unfreed' <= RingSize - 1
    BY <2>2, <2>4, <2>7, <2>8
  <2> QED BY <1>1, <2>2, <2>5, <2>14, <2>15 DEF RingHolds
<1> QED BY <1>2, <1>3 DEF ChipReceive

LEMMA RingStep ==
    ASSUME TypeOK, SetupClean, ReceiveInv, Next
    PROVE  RingHolds'
<1> USE DEF ReceiveInv
<1>1. ASSUME NEW f \in Frames, ChipReceive(f) PROVE RingHolds'
  BY <1>1, RingReceives
<1>2. CASE ChipTransmitted \/ ChipAborted \/ ChipReady
  <2>1. /\ UNCHANGED <<mem, nextOf, erxwrpt, erxrdpt, cur_ptr, stored, cpu>>
    BY <1>2 DEF ChipTransmitted, ChipAborted, ChipReady, ring, receiving
  <2>2. CASE SettingUp
    BY <2>1, <2>2 DEF RingHolds, SettingUp
  <2> QED BY <2>1, <2>2, RingKept DEF Unread, Unfreed
<1>3. CASE SetupEnable
  <2>1. /\ stored = <<>> /\ cur_ptr = rx_start /\ erxwrpt = rx_start /\ erxrdpt = rx_end
    BY <1>3 DEF SetupEnable, SetupClean, SettingUp
  <2>2. /\ UNCHANGED <<mem, nextOf, stored, cur_ptr, erxwrpt, erxrdpt>> /\ cpu' = "free"
    BY <1>3 DEF SetupEnable, DriverUnchanged, ring, receiving
  <2>3. Unread' = <<>> /\ Unfreed' = 0
    BY <2>1, <2>2 DEF Unread, Unfreed
  <2>4. rx_start \in Ring /\ rx_start = At(rx_end, 0 + 1) /\ 0 \in 0 .. RingSize - 1
    BY DEF At, Ring
  <2>5. Lies(mem, nextOf, <<>>, rx_start, rx_start, 0)
    BY <2>4, LaidNone
  <2> QED BY <2>1, <2>2, <2>3, <2>4, <2>5 DEF RingHolds
<1>4. CASE Setup /\ ~SetupEnable
  BY <1>4 DEF Setup, SetupReset, SetupWaitOst, SetupRing, SetupPhy, RingHolds, SettingUp
<1>5. CASE Poll
  <2>1. /\ UNCHANGED <<mem, nextOf, erxwrpt, erxrdpt, cur_ptr, stored>>
        /\ cpu \in {"free", "read_epktcnt", "clear_rxerif", "clear_txif", "clear_txerif"}
        /\ cpu' \in {"free", "read_epktcnt", "clear_rxerif", "clear_txif", "clear_txerif"}
    BY <1>5 DEF Poll, PollStart, PollReceive, PollTransmit, PollTxif, PollEnd, ring,
                receiving
  <2> QED BY <2>1, RingKept DEF Unread, Unfreed, SettingUp
<1>6. CASE RunWoken \/ RunYielded \/ RecvPacket
  <2>1. /\ UNCHANGED <<mem, nextOf, erxwrpt, erxrdpt, cur_ptr, stored>>
        /\ cpu = "free" /\ cpu' \in {"free", "read_data"}
    BY <1>6 DEF RunWoken, RunYielded, RecvPacket, ring
  <2> QED BY <2>1, RingKept DEF Unread, Unfreed, SettingUp
<1>7. CASE ReadData
  <2>1. /\ cpu = "read_data" /\ cpu' = "free_ring" /\ cur_ptr' = next_ptr
        /\ UNCHANGED <<mem, nextOf, erxwrpt, erxrdpt, stored>>
    BY <1>7 DEF ReadData, ring
  <2>2. /\ ~SettingUp /\ stored # <<>> /\ next_ptr = nextOf[cur_ptr]
        /\ Unread = stored /\ Unfreed = 0
    BY <2>1 DEF SettingUp, RunnerAgrees, Unread, Unfreed
  <2> DEFINE q == stored
             u == Units[q[1]]
  <2>3. Unread' = Tail(q) /\ Unfreed' = u
    BY <2>1, <2>2, HeadTail DEF Unread, Unfreed, TypeOK
  <2>4. u \in 1 .. RingSize - 1 /\ next_ptr = At(cur_ptr, u)
    BY <2>2, FirstUnread, HeadTail DEF TypeOK
  <2>5. PICK size \in 0 .. RingSize - 1 :
            /\ Lies(mem, nextOf, q, cur_ptr, erxwrpt, size)
            /\ size + 0 <= RingSize - 1
            /\ cur_ptr = At(erxrdpt, 0 + 1)
    BY <2>2 DEF RingHolds
  <2>6. /\ q \in Seq(Frames) /\ cur_ptr \in Ring /\ erxrdpt \in Ring
        /\ mem \in [Ring -> Frames \cup {Garbage}] /\ nextOf \in [Ring -> Ring]
    BY DEF TypeOK
  <2> HIDE DEF q, u
  <2>7. Lies(mem, nextOf, Tail(q), At(cur_ptr, u), erxwrpt, size - u)
    BY <2>2, <2>5, <2>6, LaidRest DEF q, u
  <2>8. size - u \in 0 .. RingSize - 1 /\ (size - u) + u <= RingSize - 1
    <3>1. Tail(q) \in Seq(Frames)
      BY <2>2, <2>6 DEF q
    <3>2. size - u \in 0 .. RingSize - 1
      BY <2>7, <3>1, LaidSize
    <3> QED BY <2>4, <2>5, <3>2
  <2>9. At(cur_ptr, u) = At(erxrdpt, u + 1)
    <3>1. At(At(erxrdpt, 1), u) = At(erxrdpt, 1 + u)
      BY <2>4, <2>6, AtSum
    <3>2. cur_ptr = At(erxrdpt, 1) /\ 1 + u = u + 1
      BY <2>4, <2>5
    <3> QED BY <3>1, <3>2
  <2> QED BY <2>1, <2>3, <2>4, <2>7, <2>8, <2>9 DEF RingHolds
<1>8. CASE FreeRing
  <2>1. /\ cpu = "free_ring" /\ cpu' = "hand_over" /\ erxrdpt' = Before(next_ptr)
        /\ UNCHANGED <<mem, nextOf, erxwrpt, cur_ptr, stored>>
    BY <1>8 DEF FreeRing, ring, receiving
  <2>2. next_ptr = cur_ptr /\ ~SettingUp /\ cur_ptr \in Ring
    BY <2>1 DEF RunnerAgrees, SettingUp, TypeOK
  <2>3. Unread' = Unread /\ Unfreed' = 0
    BY <2>1 DEF Unread, Unfreed
  <2>4. cur_ptr' = At(erxrdpt', 0 + 1)
    BY <2>1, <2>2, BeforeAt
  <2>5. PICK size \in 0 .. RingSize - 1 :
            Lies(mem, nextOf, Unread, cur_ptr, erxwrpt, size)
    BY <2>2 DEF RingHolds
  <2>6. size + 0 <= RingSize - 1
    BY <2>5
  <2> QED BY <2>1, <2>3, <2>4, <2>5, <2>6 DEF RingHolds
<1>9. CASE HandOver
  <2>1. /\ cpu = "hand_over" /\ cpu' = "free" /\ stored' = Tail(stored)
        /\ UNCHANGED <<mem, nextOf, erxwrpt, erxrdpt, cur_ptr>>
    BY <1>9 DEF HandOver
  <2> QED BY <2>1, RingKept DEF Unread, Unfreed, SettingUp
<1>10. ASSUME NEW t \in Senders, SendPacket(t) PROVE RingHolds'
  <2>1. /\ UNCHANGED <<mem, nextOf, erxwrpt, erxrdpt, cur_ptr, stored, cpu>>
        /\ cpu = "free"
    BY <1>10 DEF SendPacket, ring, receiving
  <2> QED BY <2>1, RingKept DEF Unread, Unfreed, SettingUp
<1>11. CASE Send
  <2>1. /\ UNCHANGED <<mem, nextOf, erxwrpt, erxrdpt, cur_ptr, stored>>
        /\ cpu \in {"free", "fill", "program", "trigger"}
        /\ cpu' \in {"free", "fill", "program", "trigger", "stopped"}
    BY <1>11 DEF Send, SendReset, SendFill, SendProgram, SendTrigger, SendWoken, ring,
                 receiving
  <2> QED BY <2>1, RingKept DEF Unread, Unfreed, SettingUp
<1> QED
  BY <1>1, <1>2, <1>3, <1>4, <1>5, <1>6, <1>7, <1>8, <1>9, <1>10, <1>11 DEF Next, Run

-----------------------------------------------------------------------------
(***************************************************************************)
(* Types.                                                                  *)
(***************************************************************************)
\* What each part of a state may be.
TypeRing ==
    /\ mem \in [Ring -> Frames \cup {Garbage}]
    /\ nextOf \in [Ring -> Ring]
    /\ erxwrpt \in Ring
    /\ arrived \subseteq Frames
    /\ stored \in Seq(Frames)
TypeTransmitter ==
    /\ txbuf \in Senders \cup {Garbage} /\ txrts \in BOOLEAN
    /\ wire \in Seq(Senders \cup {Garbage})
    /\ restarts \in 0 .. MaxRestarts
TypeReceiving ==
    /\ cur_ptr \in Ring /\ next_ptr \in Ring
    /\ held \in Frames \cup {Garbage}
    /\ runner \in {"waiting", "woken", "running", "yielded"}
    /\ receive_error_ \in BOOLEAN
    /\ recv_queue_ \in Seq(Frames \cup {Garbage})
TypeSending ==
    /\ sendq \in Seq(Senders)
    /\ sender \in {"none", "ready", "running", "waiting", "woken"}
    /\ transmit_error_ \in BOOLEAN
TypeFlags == flags \in [txif : BOOLEAN, txerif : BOOLEAN, rxerif : BOOLEAN]
TypeSample ==
    /\ sampled.flags \in [txif : BOOLEAN, txerif : BOOLEAN, rxerif : BOOLEAN]
    /\ sampled.epktcnt \in BOOLEAN
TypeMode ==
    /\ rxen \in BOOLEAN /\ unit \in {"starting", "busy", "ready"}
    /\ cpu \in {"reset", "wait_ost", "set_ring", "set_phy", "wait_phy", "free",
                "read_epktcnt", "clear_rxerif", "clear_txif", "clear_txerif", "read_data",
                "free_ring", "hand_over", "fill", "program", "trigger", "stopped"}

LEMMA TypeParts ==
    TypeOK <=> /\ TypeRing /\ TypeTransmitter /\ TypeReceiving /\ TypeSending
               /\ TypeFlags /\ TypeSample /\ TypeMode
               /\ erxrdpt \in Ring /\ epktcnt \in 0 .. RingSize
BY DEF TypeOK, TypeRing, TypeTransmitter, TypeReceiving, TypeSending, TypeFlags,
       TypeSample, TypeMode

LEMMA FlagsTyped ==
    ASSUME TypeOK, Next
    PROVE  TypeFlags'
<1>1. TypeFlags
  BY TypeParts
<1>2. ASSUME NEW f \in Frames, ChipReceive(f) PROVE TypeFlags'
  BY <1>1, <1>2 DEF TypeFlags, ChipReceive
<1>3. CASE ChipTransmitted
  BY <1>1, <1>3 DEF TypeFlags, ChipTransmitted
<1>4. CASE ChipAborted
  <2>1. PICK ended \in BOOLEAN :
            flags' = [flags EXCEPT !.txerif = TRUE, !.txif = @ \/ ended]
    BY <1>4 DEF ChipAborted
  <2>2. (flags.txif \/ ended) \in BOOLEAN
    OBVIOUS
  <2> QED BY <1>1, <2>1, <2>2 DEF TypeFlags
<1>5. CASE UNCHANGED flags
  BY <1>1, <1>5 DEF TypeFlags
<1>6. CASE ChipReady \/ Run \/ RecvPacket \/ \E t \in Senders : SendPacket(t)
  BY <1>5, <1>6 DEF ChipReady, Run, RunWoken, ReadData, FreeRing, HandOver, RunYielded,
                    RecvPacket, SendPacket
<1>7. CASE Setup
  <2>1. CASE SetupReset
    BY <2>1 DEF SetupReset, NoFlags, TypeFlags
  <2>2. CASE UNCHANGED flags
    BY <1>5, <2>2
  <2> QED BY <1>7, <2>1, <2>2 DEF Setup, SetupWaitOst, SetupRing, SetupPhy, SetupEnable
<1>8. CASE Poll
  <2>1. CASE PollStart \/ PollReceive
    BY <1>5, <2>1 DEF PollStart, PollReceive
  <2>2. CASE PollTransmit
    <3>1. (flags.rxerif /\ ~sampled.flags.rxerif) \in BOOLEAN
      OBVIOUS
    <3>2. flags' = [flags EXCEPT !.rxerif = flags.rxerif /\ ~sampled.flags.rxerif]
      BY <2>2 DEF PollTransmit
    <3> QED BY <1>1, <3>1, <3>2 DEF TypeFlags
  <2>3. CASE PollTxif
    <3>1. (flags.txif /\ ~sampled.flags.txif) \in BOOLEAN
      OBVIOUS
    <3>2. flags' = [flags EXCEPT !.txif = flags.txif /\ ~sampled.flags.txif]
      BY <2>3 DEF PollTxif, Acknowledged
    <3> QED BY <1>1, <3>1, <3>2 DEF TypeFlags
  <2>4. CASE PollEnd
    <3>1. (flags.txerif /\ ~sampled.flags.txerif) \in BOOLEAN
      OBVIOUS
    <3>2. flags' = [flags EXCEPT !.txerif = flags.txerif /\ ~sampled.flags.txerif]
      BY <2>4 DEF PollEnd
    <3> QED BY <1>1, <3>1, <3>2 DEF TypeFlags
  <2> QED BY <1>8, <2>1, <2>2, <2>3, <2>4 DEF Poll
<1>9. CASE Send
  BY <1>1, <1>9 DEF TypeFlags, Send, SendReset, SendFill, SendProgram, SendTrigger,
                    SendWoken
<1> QED BY <1>2, <1>3, <1>4, <1>6, <1>7, <1>8, <1>9 DEF Next

LEMMA SampleTyped ==
    ASSUME TypeOK, Next
    PROVE  TypeSample'
<1>1. TypeSample /\ TypeFlags
  BY TypeParts
<1>2. CASE UNCHANGED sampled
  BY <1>1, <1>2 DEF TypeSample
<1>3. CASE PollStart
  BY <1>1, <1>3 DEF TypeSample, TypeFlags, PollStart
<1>4. CASE PollEnd
  <2>1. NoSample.flags \in [txif : BOOLEAN, txerif : BOOLEAN, rxerif : BOOLEAN]
        /\ NoSample.epktcnt \in BOOLEAN
    BY DEF NoSample, NoFlags
  <2>2. sampled' = NoSample
    BY <1>4 DEF PollEnd
  <2> QED BY <2>1, <2>2 DEF TypeSample
<1>5. CASE Poll
  BY <1>2, <1>3, <1>4, <1>5 DEF Poll, PollReceive, PollTransmit, PollTxif
<1>6. CASE Setup \/ Run \/ Send \/ RecvPacket
  BY <1>2, <1>6 DEF Setup, SetupReset, SetupWaitOst, SetupRing, SetupPhy, SetupEnable,
                    DriverUnchanged, Run, RunWoken, ReadData, FreeRing, HandOver,
                    RunYielded, Send, SendReset, SendFill, SendProgram, SendTrigger,
                    SendWoken, RecvPacket
<1>7. CASE ChipTransmitted \/ ChipAborted \/ ChipReady
  BY <1>2, <1>7 DEF ChipTransmitted, ChipAborted, ChipReady
<1>8. CASE (\E f \in Frames : ChipReceive(f)) \/ (\E t \in Senders : SendPacket(t))
  BY <1>2, <1>8 DEF ChipReceive, SendPacket
<1> QED BY <1>5, <1>6, <1>7, <1>8 DEF Next

LEMMA ModeTyped ==
    ASSUME TypeOK, Next
    PROVE  TypeMode'
<1>1. TypeMode
  BY TypeParts
<1>2. CASE UNCHANGED <<rxen, unit, cpu>>
  BY <1>1, <1>2 DEF TypeMode
<1>3. CASE Poll
  BY <1>1, <1>3 DEF TypeMode, Poll, PollStart, PollReceive, PollTransmit, PollTxif,
                    PollEnd, mode
<1>4. CASE Run \/ RecvPacket
  BY <1>1, <1>4 DEF TypeMode, Run, RunWoken, ReadData, FreeRing, HandOver, RunYielded,
                    RecvPacket, mode
<1>5. CASE Send
  BY <1>1, <1>5 DEF TypeMode, Send, SendReset, SendFill, SendProgram, SendTrigger,
                    SendWoken, mode
<1>6. CASE Setup
  BY <1>1, <1>6 DEF TypeMode, Setup, SetupReset, SetupWaitOst, SetupRing, SetupPhy,
                    SetupEnable, mode
<1>7. CASE ChipTransmitted \/ ChipAborted \/ ChipReady
  BY <1>1, <1>7 DEF TypeMode, ChipTransmitted, ChipAborted, ChipReady, mode
<1>8. CASE (\E f \in Frames : ChipReceive(f)) \/ (\E t \in Senders : SendPacket(t))
  BY <1>2, <1>8 DEF ChipReceive, SendPacket, mode
<1> QED BY <1>3, <1>4, <1>5, <1>6, <1>7, <1>8 DEF Next

LEMMA TransmitterTyped ==
    ASSUME TypeOK, SetupClean, SendInv, Next
    PROVE  TypeTransmitter'
<1> USE DEF SendInv
<1>1. TypeTransmitter /\ TypeSending
  BY TypeParts
<1>2. CASE UNCHANGED transmitter
  BY <1>1, <1>2 DEF TypeTransmitter, transmitter
<1>3. CASE ChipTransmitted
  <2>1. wire' \in Seq(Senders \cup {Garbage})
    BY <1>1, <1>3, AppendLast DEF ChipTransmitted, TypeTransmitter
  <2>2. restarts' \in 0 .. MaxRestarts
    <3>1. restarts' = restarts \/ (restarts' = restarts + 1 /\ restarts < MaxRestarts)
      BY <1>3 DEF ChipTransmitted
    <3>2. restarts \in 0 .. MaxRestarts /\ MaxRestarts \in Nat
      BY <1>1 DEF TypeTransmitter
    <3> QED BY <3>1, <3>2
  <2> QED BY <1>1, <1>3, <2>1, <2>2 DEF ChipTransmitted, TypeTransmitter
<1>4. CASE ChipAborted
  BY <1>1, <1>4 DEF TypeTransmitter, ChipAborted
<1>5. CASE SendReset \/ SendFill \/ SendTrigger
  BY <1>1, <1>5 DEF TypeTransmitter, SendReset, SendFill, SendTrigger
<1>6. CASE SendProgram
  <2>1. sendq # <<>>
    BY <1>6 DEF SendProgram, CallsAgree
  <2>2. Head(sendq) \in Senders
    BY <1>1, <2>1, HeadTail DEF TypeSending
  <2> QED BY <1>1, <1>6, <2>2 DEF TypeTransmitter, SendProgram
<1>7. CASE SendWoken \/ Poll \/ Run \/ RecvPacket \/ ChipReady
  BY <1>2, <1>7 DEF SendWoken, Poll, PollStart, PollReceive, PollTransmit, PollTxif,
                    PollEnd, Run, RunWoken, ReadData, FreeRing, HandOver, RunYielded,
                    RecvPacket, ChipReady
<1>8. CASE (\E f \in Frames : ChipReceive(f)) \/ (\E t \in Senders : SendPacket(t))
  BY <1>2, <1>8 DEF ChipReceive, SendPacket
<1>9. CASE Setup
  BY <1>1, <1>9 DEF TypeTransmitter, transmitter, Setup, SetupReset, SetupWaitOst,
                    SetupRing, SetupPhy, SetupEnable
<1> QED BY <1>3, <1>4, <1>5, <1>6, <1>7, <1>8, <1>9 DEF Next, Send

LEMMA SendingTyped ==
    ASSUME TypeOK, SetupClean, SendInv, Next
    PROVE  TypeSending'
<1> USE DEF SendInv
<1>1. TypeSending /\ TypeSample
  BY TypeParts
<1>2. CASE UNCHANGED sending
  BY <1>1, <1>2 DEF TypeSending, sending
<1>3. CASE Setup \/ Run \/ RecvPacket \/ ChipReady \/ ChipTransmitted \/ ChipAborted
  BY <1>2, <1>3 DEF Setup, SetupReset, SetupWaitOst, SetupRing, SetupPhy, SetupEnable,
                    DriverUnchanged, Run, RunWoken, ReadData, FreeRing, HandOver,
                    RunYielded, RecvPacket, ChipReady, ChipTransmitted, ChipAborted
<1>4. CASE \E f \in Frames : ChipReceive(f)
  BY <1>2, <1>4 DEF ChipReceive
<1>5. CASE PollStart \/ PollReceive \/ PollTxif \/ PollEnd
  BY <1>2, <1>5 DEF PollStart, PollReceive, PollTxif, PollEnd
<1>6. CASE PollTransmit
  BY <1>1, <1>6 DEF PollTransmit, Raised, TypeSending, TypeSample
<1>7. ASSUME NEW t \in Senders, SendPacket(t) PROVE TypeSending'
  <2>1. sendq' \in Seq(Senders)
    BY <1>1, <1>7, AppendLast DEF SendPacket, TypeSending
  <2> QED BY <1>1, <1>7, <2>1 DEF SendPacket, TypeSending
<1>8. CASE SendReset \/ SendFill \/ SendProgram \/ SendTrigger
  BY <1>1, <1>8 DEF SendReset, SendFill, SendProgram, SendTrigger, TypeSending, sending
<1>9. CASE SendWoken
  <2>1. sendq # <<>>
    BY <1>9 DEF SendWoken, CallsAgree
  <2>2. Tail(sendq) \in Seq(Senders)
    BY <1>1, <2>1, HeadTail DEF TypeSending
  <2> QED BY <1>1, <1>9, <2>2 DEF SendWoken, TypeSending
<1> QED BY <1>3, <1>4, <1>5, <1>6, <1>7, <1>8, <1>9 DEF Next, Send, Poll

LEMMA RingTyped ==
    ASSUME TypeOK, SetupClean, ReceiveInv, Next
    PROVE  TypeRing' /\ erxrdpt' \in Ring
<1> USE DEF ReceiveInv
<1>1. TypeRing /\ TypeReceiving /\ erxrdpt \in Ring
  BY TypeParts
<1>2. CASE UNCHANGED <<mem, nextOf, erxwrpt, arrived, stored, erxrdpt>>
  BY <1>1, <1>2 DEF TypeRing
<1>3. ASSUME NEW f \in Frames, ChipReceive(f) PROVE TypeRing' /\ erxrdpt' \in Ring
  <2> DEFINE after == (erxwrpt + Units[f]) % RingSize
             room == UnitsFrom(erxwrpt, Units[f])
  <2>1. /\ arrived' = arrived \cup {f} /\ erxrdpt' = erxrdpt
        /\ \/ UNCHANGED <<mem, nextOf, erxwrpt, stored>>
           \/ /\ Units[f] < RingSize
              /\ mem' = [i \in Ring |-> IF i \in room THEN f ELSE mem[i]]
              /\ nextOf' = [nextOf EXCEPT ![erxwrpt] = after]
              /\ erxwrpt' = after /\ stored' = Append(stored, f)
    BY <1>3 DEF ChipReceive
  <2>2. Units[f] < RingSize => after \in Ring
    <3>1. erxwrpt \in Ring /\ Units[f] \in Nat
      BY <1>1 DEF TypeRing
    <3> QED BY <3>1, AtIsMod
  <2> HIDE DEF after, room
  <2>3. mem' \in [Ring -> Frames \cup {Garbage}]
    <3>1. mem \in [Ring -> Frames \cup {Garbage}]
      BY <1>1 DEF TypeRing
    <3>2. [i \in Ring |-> IF i \in room THEN f ELSE mem[i]]
              \in [Ring -> Frames \cup {Garbage}]
      BY <3>1
    <3> QED BY <2>1, <3>1, <3>2, Zenon
  <2>4. nextOf' \in [Ring -> Ring] /\ erxwrpt' \in Ring
    <3>1. nextOf \in [Ring -> Ring] /\ erxwrpt \in Ring
      BY <1>1 DEF TypeRing
    <3>2. after \in Ring => [nextOf EXCEPT ![erxwrpt] = after] \in [Ring -> Ring]
      BY <3>1
    <3> QED BY <2>1, <2>2, <3>1, <3>2, Zenon
  <2>5. stored' \in Seq(Frames) /\ arrived' \subseteq Frames
    <3>1. stored \in Seq(Frames) /\ arrived \subseteq Frames
      BY <1>1 DEF TypeRing
    <3>2. Append(stored, f) \in Seq(Frames) /\ arrived \cup {f} \subseteq Frames
      BY <3>1
    <3> QED BY <2>1, <3>1, <3>2, Zenon
  <2> QED BY <1>1, <2>1, <2>3, <2>4, <2>5 DEF TypeRing
<1>4. CASE ChipTransmitted \/ ChipAborted \/ ChipReady \/ RecvPacket
  BY <1>2, <1>4 DEF ChipTransmitted, ChipAborted, ChipReady, RecvPacket, ring
<1>5. CASE Setup
  <2>1. rx_start \in Ring /\ rx_end \in Ring
    BY DEF Ring
  <2>2. UNCHANGED <<mem, nextOf, arrived, stored>>
    BY <1>5 DEF Setup, SetupReset, SetupWaitOst, SetupRing, SetupPhy, SetupEnable, ring
  <2>3. erxwrpt' \in {erxwrpt, rx_start} /\ erxrdpt' \in {erxrdpt, rx_start, rx_end}
    BY <1>5 DEF Setup, SetupReset, SetupWaitOst, SetupRing, SetupPhy, SetupEnable, ring
  <2> QED BY <1>1, <2>1, <2>2, <2>3 DEF TypeRing
<1>6. CASE Poll \/ Send
  BY <1>2, <1>6 DEF Poll, PollStart, PollReceive, PollTransmit, PollTxif,
                    PollEnd, Send, SendReset, SendFill, SendProgram, SendTrigger,
                    SendWoken, ring
<1>7. CASE RunWoken \/ ReadData \/ RunYielded
  BY <1>2, <1>7 DEF RunWoken, ReadData, RunYielded, ring
<1>8. CASE FreeRing
  <2>1. UNCHANGED <<mem, nextOf, erxwrpt, arrived, stored>> /\ erxrdpt' = Before(next_ptr)
    BY <1>8 DEF FreeRing, ring
  <2>2. Before(next_ptr) \in Ring
    BY <1>1, BeforeAt DEF TypeReceiving
  <2> QED BY <1>1, <2>1, <2>2 DEF TypeRing
<1>9. CASE HandOver
  <2>1. /\ UNCHANGED <<mem, nextOf, erxwrpt, arrived, erxrdpt>>
        /\ stored' = Tail(stored) /\ stored # <<>>
    BY <1>9 DEF HandOver, RunnerAgrees
  <2>2. stored' \in Seq(Frames)
    BY <1>1, <2>1, HeadTail DEF TypeRing
  <2> QED BY <1>1, <2>1, <2>2 DEF TypeRing
<1>10. CASE \E t \in Senders : SendPacket(t)
  BY <1>2, <1>10 DEF SendPacket, ring
<1> QED BY <1>3, <1>4, <1>5, <1>6, <1>7, <1>8, <1>9, <1>10 DEF Next, Run

LEMMA ReceivingTyped ==
    ASSUME TypeOK, SetupClean, ReceiveInv, Next
    PROVE  TypeReceiving'
<1> USE DEF ReceiveInv
<1>1. TypeReceiving /\ TypeRing /\ TypeSample
  BY TypeParts
<1>2. CASE UNCHANGED receiving
  BY <1>1, <1>2 DEF TypeReceiving, receiving
<1>3. CASE Setup \/ Send \/ ChipReady \/ ChipTransmitted \/ ChipAborted
  BY <1>2, <1>3 DEF Setup, SetupReset, SetupWaitOst, SetupRing, SetupPhy, SetupEnable,
                    DriverUnchanged, Send, SendReset, SendFill, SendProgram, SendTrigger,
                    SendWoken, ChipReady, ChipTransmitted, ChipAborted
<1>4. CASE (\E f \in Frames : ChipReceive(f)) \/ (\E t \in Senders : SendPacket(t))
  BY <1>2, <1>4 DEF ChipReceive, SendPacket
<1>5. CASE PollStart \/ PollTransmit \/ PollTxif \/ PollEnd \/ FreeRing
  BY <1>2, <1>5 DEF PollStart, PollTransmit, PollTxif, PollEnd, FreeRing
<1>6. CASE PollReceive
  BY <1>1, <1>6 DEF PollReceive, ReceiveIrq, Raised, TypeReceiving, TypeSample
<1>7. CASE RunWoken
  <2>1. nextOf[cur_ptr] \in Ring
    BY <1>1 DEF TypeRing, TypeReceiving
  <2> QED BY <1>1, <1>7, <2>1 DEF RunWoken, TypeReceiving
<1>8. CASE ReadData
  <2>1. ReadBuffer(cur_ptr, next_ptr) \in Frames \cup {Garbage}
    <3> DEFINE read == UnitsFrom(cur_ptr, (next_ptr + RingSize - cur_ptr) % RingSize)
               whole == {f \in Frames : read # {} /\ \A i \in read : mem[i] = f}
    <3>1. whole \subseteq Frames
      OBVIOUS
    <3>2. ReadBuffer(cur_ptr, next_ptr) =
              IF whole = {} THEN Garbage ELSE CHOOSE f \in whole : TRUE
      BY DEF ReadBuffer
    <3> HIDE DEF whole
    <3>3. whole # {} => (CHOOSE f \in whole : TRUE) \in whole
      OBVIOUS
    <3> QED BY <3>1, <3>2, <3>3
  <2> QED BY <1>1, <1>8, <2>1 DEF ReadData, TypeReceiving
<1>9. CASE HandOver
  <2>1. recv_queue_' \in Seq(Frames \cup {Garbage})
    BY <1>1, <1>9, AppendLast DEF HandOver, TypeReceiving
  <2> QED BY <1>1, <1>9, <2>1 DEF HandOver, TypeReceiving
<1>10. CASE RunYielded
  BY <1>1, <1>10 DEF RunYielded, TypeReceiving
<1>11. CASE RecvPacket
  <2>1. recv_queue_' \in Seq(Frames \cup {Garbage})
    BY <1>1, <1>11, HeadTail DEF RecvPacket, TypeReceiving
  <2> QED BY <1>1, <1>11, <2>1 DEF RecvPacket, TypeReceiving
<1> QED
  BY <1>3, <1>4, <1>5, <1>6, <1>7, <1>8, <1>9, <1>10, <1>11 DEF Next, Run, Poll

\* The chip never counts more frames than the ring has units.
LEMMA CountTyped ==
    ASSUME TypeOK, SetupClean, ReceiveInv, Next
    PROVE  epktcnt' \in 0 .. RingSize
<1> USE DEF ReceiveInv
<1>1. epktcnt \in 0 .. RingSize /\ stored \in Seq(Frames)
  BY DEF TypeOK
<1>2. CASE epktcnt' \in {epktcnt, 0}
  BY <1>1, <1>2
<1>3. ASSUME NEW f \in Frames, ChipReceive(f), epktcnt' # epktcnt
      PROVE  epktcnt' \in 0 .. RingSize
  <2>1. RingHolds' /\ RunnerAgrees' /\ TypeRing'
    BY <1>3, RingReceives, RunnerStep, RingTyped DEF Next
  <2>2. ~SettingUp'
    BY <1>3 DEF ChipReceive, Running, SetupClean, SettingUp
  <2>3. PICK size \in 0 .. RingSize - 1 :
            /\ Lies(mem', nextOf', Unread', cur_ptr', erxwrpt', size)
            /\ size + Unfreed' <= RingSize - 1
    BY <2>1, <2>2 DEF RingHolds
  <2>4. /\ stored' \in Seq(Frames) /\ epktcnt' = Len(stored')
        /\ cpu' \in {"free_ring", "hand_over"} => stored' # <<>>
    BY <2>1, <2>2 DEF TypeRing, RunnerAgrees
  <2>5. Unread' \in Seq(Frames) /\ Len(stored') <= Len(Unread') + 1
    <3>1. CASE cpu' \in {"free_ring", "hand_over"}
      <4>1. Unread' = Tail(stored') /\ stored' # <<>>
        BY <2>4, <3>1 DEF Unread
      <4> QED BY <2>4, <4>1, HeadTail
    <3>2. CASE cpu' \notin {"free_ring", "hand_over"}
      <4>1. Unread' = stored'
        BY <3>2 DEF Unread
      <4> QED BY <2>4, <4>1
    <3> QED BY <3>1, <3>2
  <2> DEFINE n == Len(Unread')
             k == Len(stored')
  <2>6. n <= size /\ n \in Nat /\ k \in Nat /\ k <= n + 1
    BY <2>3, <2>4, <2>5, LaidSize
  <2> HIDE DEF n
  <2> QED BY <2>3, <2>4, <2>6
<1>4. CASE HandOver
  <2>1. epktcnt = Len(stored) /\ Len(stored) > 0 /\ epktcnt' = epktcnt - 1
    BY <1>1, <1>4 DEF HandOver, RunnerAgrees, SettingUp
  <2> QED BY <1>1, <2>1
<1>5. CASE ChipTransmitted \/ ChipAborted \/ ChipReady \/ RecvPacket \/ Setup
  BY <1>2, <1>5 DEF ChipTransmitted, ChipAborted, ChipReady, RecvPacket, ring, Setup,
                    SetupReset, SetupWaitOst, SetupRing, SetupPhy, SetupEnable
<1>6. CASE Poll \/ Send
  BY <1>2, <1>6 DEF Poll, PollStart, PollReceive, PollTransmit, PollTxif,
                    PollEnd, Send, SendReset, SendFill, SendProgram, SendTrigger,
                    SendWoken, ring
<1>7. CASE RunWoken \/ ReadData \/ FreeRing \/ RunYielded
  BY <1>2, <1>7 DEF RunWoken, ReadData, FreeRing, RunYielded, ring
<1>8. CASE \E t \in Senders : SendPacket(t)
  BY <1>2, <1>8 DEF SendPacket, ring
<1> QED BY <1>2, <1>3, <1>4, <1>5, <1>6, <1>7, <1>8 DEF Next, Run

LEMMA TypeStep ==
    ASSUME TypeOK, SetupClean, ReceiveInv, SendInv, Next
    PROVE  TypeOK'
<1>1. /\ TypeRing' /\ TypeTransmitter' /\ TypeReceiving' /\ TypeSending'
      /\ TypeFlags' /\ TypeSample' /\ TypeMode'
      /\ erxrdpt' \in Ring /\ epktcnt' \in 0 .. RingSize
  BY RingTyped, TransmitterTyped, ReceivingTyped, SendingTyped, FlagsTyped, SampleTyped,
     ModeTyped, CountTyped
<1> QED BY <1>1 DEF TypeOK, TypeRing, TypeTransmitter, TypeReceiving, TypeSending,
                    TypeFlags, TypeSample, TypeMode

-----------------------------------------------------------------------------
(***************************************************************************)
(* The invariant holds.                                                    *)
(***************************************************************************)
LEMMA StutterIInv == IInv /\ UNCHANGED vars => IInv'
<1> SUFFICES ASSUME IInv, UNCHANGED vars PROVE IInv'
  OBVIOUS
<1>1. UNCHANGED <<mem, nextOf, erxwrpt, epktcnt, arrived, stored, erxrdpt, flags, txbuf,
                  txrts, wire, restarts, rxen, unit, cpu, sampled, cur_ptr, next_ptr,
                  held, runner, receive_error_, recv_queue_, sendq, sender,
                  transmit_error_>>
  BY DEF vars, ring, transmitter, receiving, sending, mode
<1>2. TypeOK' /\ SetupClean'
  BY <1>1 DEF IInv, TypeOK, SetupClean, SettingUp
<1>3. ReceiveInv'
  BY <1>1 DEF IInv, ReceiveInv, RingHolds, RunnerAgrees, SampleAgrees, SettingUp, Unread,
              Unfreed
<1>4. SendInv'
  BY <1>1 DEF IInv, SendInv, CallsAgree, Transmits, NotYetAired, Aired, SettingUp
<1> QED BY <1>2, <1>3, <1>4 DEF IInv

LEMMA NextIInv == IInv /\ Next => IInv'
<1> SUFFICES ASSUME IInv, Next PROVE IInv'
  OBVIOUS
<1>1. TypeOK /\ SetupClean /\ ReceiveInv /\ SendInv
      /\ RingHolds /\ RunnerAgrees /\ SampleAgrees
  BY DEF IInv, ReceiveInv
<1>2. TypeOK'
  BY <1>1, TypeStep
<1>3. SetupClean'
  BY <1>1, SetupStep
<1>4. RingHolds' /\ RunnerAgrees' /\ SampleAgrees'
  BY <1>1, RingStep, RunnerStep, SampleStep
<1>5. CallsAgree' /\ Transmits' /\ NotYetAired'
  BY <1>1, CallsStep, TransmitsStep, NotYetAiredStep
<1> QED BY <1>2, <1>3, <1>4, <1>5 DEF IInv, ReceiveInv, SendInv

\* The driver's state, the chip's and what has happened always agree.
THEOREM EncInvariant == Spec => []IInv
<1>1. IInv /\ [Next]_vars => IInv'
  BY NextIInv, StutterIInv
<1> QED BY InitIInv, <1>1, PTL DEF Spec

-----------------------------------------------------------------------------
(***************************************************************************)
(* What the runs check.                                                    *)
(***************************************************************************)

\* The transmit buffer is not written while the chip transmits from it, and what
\* the chip transmits is the frame of the call that holds the mutex or the last one
\* sent (send_packet, set_bank).
THEOREM BufferIsStable == Spec => []TxBufferStable
<1>1. IInv => TxBufferStable
  <2> SUFFICES ASSUME IInv PROVE TxBufferStable
    OBVIOUS
  <2>1. CallsAgree /\ Transmits
    BY DEF IInv, SendInv
  <2>2. cpu \in {"fill", "program", "trigger"} => ~txrts
    BY <2>1 DEF CallsAgree, Transmits
  <2>3. sender \in {"waiting", "woken"} => sendq # <<>>
    BY <2>1 DEF CallsAgree
  <2> QED BY <2>1, <2>2, <2>3 DEF Transmits, TxBufferStable
<1> QED BY EncInvariant, <1>1, PTL

\* run() finds a frame in the ring, or the error flag, whenever it was woken,
\* however often do_poll ran in between (run, do_poll).
THEOREM AlwaysAFrame == Spec => []WokenForAFrame
<1>1. IInv => WokenForAFrame
  <2> SUFFICES ASSUME IInv PROVE WokenForAFrame
    OBVIOUS
  <2>1. RunnerAgrees /\ stored \in Seq(Frames)
    BY DEF IInv, ReceiveInv, TypeOK
  <2>2. stored # <<>> => Len(stored) > 0
    BY <2>1
  <2>3. cpu \in {"read_data", "free_ring", "hand_over"} =>
            stored # <<>> /\ epktcnt = Len(stored)
    BY <2>1 DEF RunnerAgrees, SettingUp
  <2> QED BY <2>1, <2>2, <2>3 DEF WokenForAFrame, RunnerAgrees
<1> QED BY EncInvariant, <1>1, PTL

\* With every frame handed over run() is where the chip will write, and the chip
\* may write the whole ring but one unit (setup, run).
THEOREM DrainedRingIsFree == Spec => []RoomWhenDrained
<1>1. IInv => RoomWhenDrained
  <2> SUFFICES ASSUME IInv, epktcnt = 0, rxen, cpu # "reset"
               PROVE  /\ cur_ptr = erxwrpt
                      /\ erxrdpt \notin UnitsFrom(erxwrpt, RingSize - 1)
    BY DEF RoomWhenDrained
  <2>1. TypeOK /\ SetupClean /\ RingHolds /\ RunnerAgrees
    BY DEF IInv, ReceiveInv
  <2>2. ~SettingUp
    BY <2>1 DEF SetupClean
  <2>3. stored = <<>>
    BY <2>1, <2>2 DEF RunnerAgrees, TypeOK
  <2>4. Unread = <<>> /\ Unfreed = 0
    BY <2>1, <2>3 DEF RunnerAgrees, Unread, Unfreed
  <2>5. PICK size \in 0 .. RingSize - 1 :
            /\ Lies(mem, nextOf, Unread, cur_ptr, erxwrpt, size)
            /\ cur_ptr = At(erxrdpt, 0 + 1)
    BY <2>1, <2>2, <2>4 DEF RingHolds
  <2>6. erxwrpt = At(cur_ptr, 0)
    <3>1. Unread \in Seq(Frames)
      BY <2>4
    <3>2. erxwrpt = At(cur_ptr, size)
      BY <2>5, <3>1, LaidSize
    <3>3. size = 0
      <4>1. Len(Unread) = 0
        BY <2>4
      <4>2. PICK d \in [0 .. Len(Unread) -> 0 .. RingSize - 1] :
                /\ Laid(mem, nextOf, d, Unread, cur_ptr, erxwrpt)
                /\ d[Len(Unread)] = size
        BY <2>5 DEF Lies
      <4>3. d[0] = 0
        BY <4>2 DEF Laid
      <4> QED BY <4>1, <4>2, <4>3
    <3> QED BY <3>2, <3>3
  <2>7. cur_ptr \in Ring /\ erxrdpt \in Ring /\ cur_ptr = erxwrpt
    BY <2>1, <2>6 DEF TypeOK, At, Ring
  <2>8. ASSUME NEW k \in 0 .. RingSize - 1 - 1, erxrdpt = At(erxwrpt, k)
        PROVE  FALSE
    <3>1. At(At(erxrdpt, 1), k) = At(erxrdpt, 1 + k)
      BY <2>7, AtSum
    <3>2. At(erxrdpt, 1 + k) = At(erxrdpt, 0)
      BY <2>5, <2>7, <2>8, <3>1 DEF At, Ring
    <3>3. 1 + k = 0
      BY <2>7, <3>2, AtInjective
    <3> QED BY <3>3
  <2>9. erxrdpt \notin UnitsFrom(erxwrpt, RingSize - 1)
    BY <2>7, <2>8, UnitsAt
  <2> QED BY <2>7, <2>9
<1> QED BY EncInvariant, <1>1, PTL

-----------------------------------------------------------------------------
(***************************************************************************)
(* The driver implements Nic.                                              *)
(***************************************************************************)
Rxq == recv_queue_ \o stored
Calling == IF OnTheWire = {} THEN sendq ELSE Tail(sendq)

\* Accepting a frame adds it to those not handed out; run() only moves one from the
\* ring to the queue; recv_packet takes the first.
LEMMA FramesMap ==
    ASSUME IInv
    PROVE  /\ Rxq \in Seq(Frames \cup {Garbage})
           /\ \A f \in Frames : ChipReceive(f) => Rxq' \in {Rxq, Append(Rxq, f)}
           /\ RecvPacket => Rxq # <<>> /\ Rxq' = Tail(Rxq)
           /\ Run => Rxq' = Rxq
<1> DEFINE S == Frames \cup {Garbage}
<1>1. recv_queue_ \in Seq(S) /\ stored \in Seq(S) /\ stored \in Seq(Frames)
  <2>1. stored \in Seq(Frames) /\ recv_queue_ \in Seq(S)
    BY DEF IInv, TypeOK
  <2>2. Seq(Frames) \subseteq Seq(S)
    OBVIOUS
  <2> QED BY <2>1, <2>2
<1>2. RunnerAgrees
  BY DEF IInv, ReceiveInv
<1> HIDE DEF S
<1>3. /\ Rxq \in Seq(S)
      /\ \A x \in S : recv_queue_ \o Append(stored, x) = Append(Rxq, x)
      /\ stored # <<>> => Append(recv_queue_, Head(stored)) \o Tail(stored) = Rxq
      /\ recv_queue_ # <<>> => Rxq # <<>> /\ Tail(recv_queue_) \o stored = Tail(Rxq)
  <2>1. Rxq \in Seq(S)
    BY <1>1, Concatenated DEF Rxq
  <2>2. \A x \in S : recv_queue_ \o Append(stored, x) = Append(Rxq, x)
    BY <1>1, Concatenated DEF Rxq
  <2>3. stored # <<>> => Append(recv_queue_, Head(stored)) \o Tail(stored) = Rxq
    <3>1. stored # <<>> => Append(recv_queue_, Head(stored)) \o Tail(stored)
                              = recv_queue_ \o stored
      BY <1>1, ConcatMoved
    <3> QED BY <3>1 DEF Rxq
  <2>4. recv_queue_ # <<>> => Rxq # <<>> /\ Tail(recv_queue_) \o stored = Tail(Rxq)
    <3>1. recv_queue_ # <<>> =>
              /\ recv_queue_ \o stored # <<>>
              /\ Tail(recv_queue_) \o stored = Tail(recv_queue_ \o stored)
      BY <1>1, Concatenated
    <3> QED BY <3>1 DEF Rxq
  <2> QED BY <2>1, <2>2, <2>3, <2>4
<1>4. ASSUME NEW f \in Frames, ChipReceive(f)
      PROVE  Rxq' \in {Rxq, Append(Rxq, f)}
  <2>1. recv_queue_' = recv_queue_ /\ stored' \in {stored, Append(stored, f)}
    BY <1>4 DEF ChipReceive, receiving
  <2>2. f \in S
    BY DEF S
  <2> QED BY <1>3, <2>1, <2>2 DEF Rxq
<1>6. ASSUME RecvPacket PROVE Rxq # <<>> /\ Rxq' = Tail(Rxq)
  <2>1. recv_queue_ # <<>> /\ recv_queue_' = Tail(recv_queue_) /\ stored' = stored
    BY <1>6 DEF RecvPacket, ring
  <2> QED BY <1>3, <2>1 DEF Rxq
<1>7. ASSUME Run PROVE Rxq' = Rxq
  <2>1. CASE HandOver
    <3>1. stored # <<>> /\ held = Head(stored)
      BY <1>2, <2>1 DEF HandOver, RunnerAgrees
    <3>2. recv_queue_' = Append(recv_queue_, held) /\ stored' = Tail(stored)
      BY <2>1 DEF HandOver
    <3> QED BY <1>3, <3>1, <3>2 DEF Rxq
  <2>2. CASE UNCHANGED <<recv_queue_, stored>>
    BY <2>2 DEF Rxq
  <2> QED BY <1>7, <2>1, <2>2 DEF Run, RunWoken, ReadData, FreeRing, RunYielded, ring,
                                  receiving
<1> QED BY <1>3, <1>4, <1>6, <1>7 DEF S

\* The frame of the call that holds the mutex is on the wire, or none of a call is.
LEMMA OnTheWireIs ==
    ASSUME sendq \in Seq(Senders)
    PROVE  OnTheWire = IF Aired THEN {Head(sendq)} ELSE {}
<1>1. sendq # <<>> => Head(sendq) \in Senders
  BY HeadTail
<1> QED BY <1>1 DEF OnTheWire, Aired

\* Steps that leave the calls and the wire alone.
LEMMA CallsKept ==
    ASSUME UNCHANGED <<sendq, wire>>
    PROVE  Calling' = Calling /\ OnTheWire' = OnTheWire
BY DEF Calling, OnTheWire

LEMMA CallMaps ==
    ASSUME IInv, NEW t \in Senders, SendPacket(t)
    PROVE  /\ t \notin ToSet(Calling) \cup OnTheWire \cup ToSet(wire)
           /\ Calling' = Append(Calling, t) /\ OnTheWire' = OnTheWire /\ wire' = wire
<1>1. sendq \in Seq(Senders)
  BY DEF IInv, TypeOK
<1>2. /\ sendq' = Append(sendq, t) /\ wire' = wire
      /\ t \notin ToSet(sendq) \cup ToSet(wire)
  BY DEF SendPacket, transmitter
<1>3. sendq' \in Seq(Senders) /\ sendq' # <<>>
  BY <1>1, <1>2, AppendLast
<1>4. CASE sendq = <<>>
  <2>1. Head(sendq') = t
    BY <1>1, <1>2, <1>4, AppendLast
  <2>2. ~Aired /\ ~Aired'
    BY <1>2, <1>4, <2>1 DEF Aired
  <2>3. OnTheWire = {} /\ OnTheWire' = {}
    BY <1>1, <1>3, <2>2, OnTheWireIs DEF OnTheWire, Aired
  <2> QED BY <1>2, <2>3 DEF Calling
<1>5. CASE sendq # <<>>
  <2>1. Head(sendq') = Head(sendq) /\ Tail(sendq') = Append(Tail(sendq), t)
    BY <1>1, <1>2, <1>5, AppendLast
  <2>2. OnTheWire' = OnTheWire
    BY <1>2, <1>3, <1>5, <2>1 DEF OnTheWire
  <2>3. ToSet(Tail(sendq)) \subseteq ToSet(sendq)
    <3>1. /\ DOMAIN Tail(sendq) = 1 .. Len(sendq) - 1 /\ DOMAIN sendq = 1 .. Len(sendq)
          /\ \A i \in 1 .. Len(sendq) - 1 : Tail(sendq)[i] = sendq[i + 1]
          /\ Len(sendq) \in Nat
      BY <1>1, <1>5, HeadTail
    <3> QED BY <3>1 DEF ToSet
  <2>4. OnTheWire \subseteq ToSet(wire)
    BY DEF OnTheWire
  <2> QED BY <1>2, <2>1, <2>2, <2>3, <2>4 DEF Calling
<1> QED BY <1>4, <1>5

LEMMA ReturnMaps ==
    ASSUME IInv, SendWoken, sendq' # sendq \/ wire' # wire
    PROVE  /\ \E t \in OnTheWire : OnTheWire' = OnTheWire \ {t}
           /\ Calling' = Calling /\ wire' = wire
<1>1. sendq \in Seq(Senders) /\ CallsAgree /\ Transmits /\ NotYetAired
  BY DEF IInv, TypeOK, SendInv
<1>2. /\ cpu = "free" /\ sender = "woken" /\ ~transmit_error_
      /\ sendq' = Tail(sendq) /\ wire' = wire
  BY DEF SendWoken, transmitter
<1>3. Aired
  BY <1>1, <1>2 DEF NotYetAired
<1>4. OnTheWire = {Head(sendq)} /\ sendq # <<>>
  BY <1>1, <1>3, OnTheWireIs DEF Aired
<1>5. OnTheWire' = {}
  <2>1. /\ Len(sendq) \in Nat \ {0} /\ DOMAIN sendq = 1 .. Len(sendq)
        /\ Tail(sendq) \in Seq(Senders) /\ Len(Tail(sendq)) = Len(sendq) - 1
        /\ \A i \in 1 .. Len(sendq) - 1 : Tail(sendq)[i] = sendq[i + 1]
    BY <1>1, <1>4, HeadTail
  <2> SUFFICES ASSUME Tail(sendq) # <<>> PROVE Head(Tail(sendq)) \notin ToSet(wire)
    BY <1>2 DEF OnTheWire
  <2>2. Head(Tail(sendq)) = Tail(sendq)[1] /\ Len(Tail(sendq)) > 0
    BY <2>1
  <2>3. 2 \in DOMAIN sendq /\ Tail(sendq)[1] = sendq[2]
    BY <2>1, <2>2
  <2> QED BY <1>1, <2>2, <2>3 DEF CallsAgree
<1> QED BY <1>2, <1>4, <1>5 DEF Calling

\* A transmission that ends is that of the holder's frame, or a repetition.
LEMMA AiringMaps ==
    ASSUME IInv, ChipTransmitted
    PROVE  \/ /\ Calling # <<>> /\ wire' = Append(wire, Head(Calling))
              /\ Calling' = Tail(Calling)
              /\ OnTheWire' = OnTheWire \cup {Head(Calling)}
           \/ /\ wire # <<>> /\ wire' = Append(wire, Last(wire))
              /\ Calling' = Calling /\ OnTheWire' = OnTheWire
<1>1. TypeOK /\ sendq \in Seq(Senders) /\ wire \in Seq(Senders \cup {Garbage})
      /\ CallsAgree /\ Transmits
  BY DEF IInv, TypeOK, SendInv
<1>2. wire' = Append(wire, txbuf) /\ sendq' = sendq /\ txrts /\ cpu # "reset"
  BY DEF ChipTransmitted, Running, sending
<1>3. ToSet(wire)' = ToSet(wire) \cup {txbuf}
  BY <1>1, <1>2, WireGrows
<1>4. sender \in {"waiting", "woken"} => sendq # <<>>
  BY <1>1 DEF CallsAgree
<1>5. CASE sender \in {"waiting", "woken"} /\ ~Aired
  <2>1. sendq # <<>> /\ txbuf = Head(sendq)
    BY <1>1, <1>2, <1>4, <1>5 DEF Transmits
  <2>2. OnTheWire = {} /\ Calling = sendq
    BY <1>1, <1>5, OnTheWireIs DEF Calling
  <2>3. OnTheWire' = {Head(sendq)}
    <3>1. Head(sendq) \in Senders
      BY <1>1, <2>1, HeadTail
    <3> QED BY <1>2, <1>3, <2>1, <3>1 DEF OnTheWire
  <2>4. Calling' = Tail(sendq)
    BY <1>2, <2>3 DEF Calling
  <2> QED BY <1>2, <2>1, <2>2, <2>3, <2>4
<1>6. CASE ~(sender \in {"waiting", "woken"} /\ ~Aired)
  <2>1. wire # <<>> /\ txbuf = Last(wire)
    <3>1. CASE sender \in {"waiting", "woken"}
      <4>1. Aired /\ txbuf = Last(wire)
        BY <1>1, <1>2, <1>6, <3>1 DEF Transmits, CallsAgree
      <4>2. wire # <<>>
        BY <4>1 DEF Aired, ToSet
      <4> QED BY <4>1, <4>2
    <3>2. CASE sender \notin {"waiting", "woken"}
      BY <1>1, <1>2, <3>2 DEF Transmits
    <3> QED BY <3>1, <3>2
  <2>2. Last(wire) \in ToSet(wire)
    BY <1>1, <2>1, HeadTail
  <2>3. ToSet(wire)' = ToSet(wire)
    BY <1>3, <2>1, <2>2
  <2>4. OnTheWire' = OnTheWire
    BY <1>2, <2>3 DEF OnTheWire
  <2> QED BY <1>2, <2>1, <2>4 DEF Calling
<1> QED BY <1>5, <1>6

LEMMA RefinesStep ==
    ASSUME IInv, Next
    PROVE  Abstract!NicNext \/ UNCHANGED Abstract!nicVars
<1> USE DEF Abstract!NicNext, Abstract!nicVars
<1>1. ASSUME NEW f \in Frames, ChipReceive(f)
      PROVE  Abstract!Arrive \/ UNCHANGED Abstract!nicVars
  <2>1. UNCHANGED <<sendq, wire>>
    BY <1>1 DEF ChipReceive, sending, transmitter
  <2>2. Calling' = Calling /\ OnTheWire' = OnTheWire
    BY <2>1, CallsKept
  <2>3. Rxq' \in {Rxq, Append(Rxq, f)}
    BY <1>1, FramesMap
  <2> QED BY <2>1, <2>2, <2>3 DEF Abstract!Arrive, Rxq, Calling
<1>2. CASE ChipTransmitted
  <2>1. Rxq' = Rxq
    BY <1>2 DEF ChipTransmitted, ring, receiving, Rxq
  <2>2. Abstract!Air \/ Abstract!Repeat
    BY <1>2, <2>1, AiringMaps DEF Abstract!Air, Abstract!Repeat, Abstract!Last, Last,
                                  Rxq, Calling
  <2> QED BY <2>2
<1>3. CASE ChipAborted \/ ChipReady \/ Setup \/ Poll
  <2>1. UNCHANGED <<recv_queue_, stored, sendq, wire>>
    BY <1>3 DEF ChipAborted, ChipReady, Setup, SetupReset, SetupWaitOst, SetupRing,
                SetupPhy, SetupEnable, DriverUnchanged, Poll, PollStart, PollReceive,
                PollTransmit, PollTxif, PollEnd, ring, receiving, sending, transmitter
  <2>2. Calling' = Calling /\ OnTheWire' = OnTheWire /\ Rxq' = Rxq
    BY <2>1, CallsKept DEF Rxq
  <2> QED BY <2>1, <2>2 DEF Rxq, Calling
<1>4. CASE Run
  <2>1. UNCHANGED <<sendq, wire>>
    BY <1>4 DEF Run, RunWoken, ReadData, FreeRing, HandOver, RunYielded, sending,
                transmitter
  <2>2. Calling' = Calling /\ OnTheWire' = OnTheWire /\ Rxq' = Rxq
    BY <1>4, <2>1, CallsKept, FramesMap
  <2> QED BY <2>1, <2>2 DEF Rxq, Calling
<1>5. CASE RecvPacket
  <2>1. UNCHANGED <<sendq, wire>>
    BY <1>5 DEF RecvPacket, sending, transmitter
  <2>2. /\ Calling' = Calling /\ OnTheWire' = OnTheWire
        /\ Rxq # <<>> /\ Rxq' = Tail(Rxq)
    BY <1>5, <2>1, CallsKept, FramesMap
  <2>3. Abstract!HandOut
    BY <2>1, <2>2 DEF Abstract!HandOut, Rxq, Calling
  <2> QED BY <2>3
<1>6. ASSUME NEW t \in Senders, SendPacket(t) PROVE Abstract!Call
  <2>1. Rxq' = Rxq
    BY <1>6 DEF SendPacket, ring, receiving, Rxq
  <2> QED BY <1>6, <2>1, CallMaps DEF Abstract!Call, Abstract!ToSet, ToSet, Rxq, Calling
<1>7. CASE SendReset \/ SendFill \/ SendProgram \/ SendTrigger
  <2>1. UNCHANGED <<recv_queue_, stored, sendq, wire>>
    BY <1>7 DEF SendReset, SendFill, SendProgram, SendTrigger, ring, receiving, sending
  <2>2. Calling' = Calling /\ OnTheWire' = OnTheWire /\ Rxq' = Rxq
    BY <2>1, CallsKept DEF Rxq
  <2> QED BY <2>1, <2>2 DEF Rxq, Calling
<1>8. CASE SendWoken
  <2>1. Rxq' = Rxq
    BY <1>8 DEF SendWoken, ring, receiving, Rxq
  <2>2. CASE sendq' # sendq \/ wire' # wire
    <3>1. Abstract!Return
      BY <1>8, <2>1, <2>2, ReturnMaps DEF Abstract!Return, Rxq, Calling
    <3> QED BY <3>1
  <2>3. CASE UNCHANGED <<sendq, wire>>
    <3>1. Calling' = Calling /\ OnTheWire' = OnTheWire
      BY <2>3, CallsKept
    <3> QED BY <2>1, <2>3, <3>1 DEF Rxq, Calling
  <2> QED BY <2>2, <2>3
<1> QED BY <1>1, <1>2, <1>3, <1>4, <1>5, <1>6, <1>7, <1>8 DEF Next, Send

\* Seen as a queue of frames received, calls under way and frames sent, the driver
\* with its chip does only what the network stack expects of an interface: frames
\* in order, whole and once, and calls that return after their own frame went out
\* (run, send_packet, do_poll).
THEOREM DriverIsANic == Spec => ImplementsNic
<1>1. Init => Abstract!NicInit
  BY DEF Init, Abstract!NicInit, OnTheWire
<1>2. IInv /\ [Next]_vars => [Abstract!NicNext]_(Abstract!nicVars)
  <2> SUFFICES ASSUME IInv, [Next]_vars
               PROVE  Abstract!NicNext \/ UNCHANGED Abstract!nicVars
    OBVIOUS
  <2>1. CASE UNCHANGED vars
    BY <2>1 DEF vars, ring, transmitter, receiving, sending, mode, Abstract!nicVars,
                OnTheWire
  <2> QED BY <2>1, RefinesStep
<1> QED BY EncInvariant, <1>1, <1>2, PTL DEF Spec, ImplementsNic, Abstract!NicSpec
=============================================================================
