------------------------------ MODULE SpiProofs ------------------------------
(***************************************************************************)
(* Proofs about the SPI transfers of Spi, on the chip that Stm32 sets up,  *)
(* and about that setup: its clocks, and the console.                      *)
(*                                                                         *)
(* Every byte that the call asks for has a place on the bus: the number    *)
(* of bytes before it (Position).  The invariants follow it: Account       *)
(* counts how many bytes have gone into the interface, how many are in it  *)
(* and how many have come out; InFlight says which byte each register      *)
(* holds, and Unsent and Landed what memory holds for the bytes to come    *)
(* and the bytes that have come.                                           *)
(***************************************************************************)
EXTENDS Stm32, Lemmas

(***************************************************************************)
(* The inductive invariant.                                                *)
(***************************************************************************)
Place(item, off) ==
    /\ item \in 1 .. Len(call) + 1
    /\ off \in 0 .. BufferSize - 1
    /\ item <= Len(call) => off < SizeOf(call[item])
    /\ item = Len(call) + 1 => off = 0

Register(r) == \A b \in r : b \in Byte /\ r = {b}
Memory(m) == m \in [Buffers -> [0 .. BufferSize - 1 -> Byte]]

Types ==
    /\ call \in Calls \cup {<<>>}
    /\ items = [i \in DOMAIN call |-> Operation(call[i])]
    /\ phase \in {"idle", "out", "in"}
    /\ Place(out_item, out_off) /\ Place(in_item, in_off)
    /\ Register(tx) /\ Register(shift) /\ Register(rx)
    /\ seen \in Seq(Byte)
    /\ Memory(memory) /\ Memory(before)
    /\ lost \in Nat

Held(r) == IF r = {} THEN 0 ELSE 1

\* Each byte that has been sent is still in the interface, or the device has seen
\* it; and each that the device has seen has been received, or still is to be, or
\* was lost.
Account ==
    /\ Position(out_item, out_off) = Len(seen) + Held(shift) + Held(tx)
    /\ Len(seen) = Position(in_item, in_off) + Held(rx) + lost

\* The device is selected while do_transmission runs, which setup() does not; and
\* do_transmission leaves nothing in the interface.
Quiet ==
    /\ phase # "idle" => Done /\ selected
    /\ phase = "idle" => /\ tx = {} /\ shift = {} /\ rx = {} /\ lost = 0
                         /\ ~MoreToDo

CountInv == Types /\ Account /\ Quiet

At(q) == Position(q[1], q[2])
AskedAt(q) == ByteAsked(call[q[1]], q[2])

\* Where a byte that has been sent is to be found.
InFlight ==
    \A q \in Passed(out_item, out_off) :
        /\ At(q) < Len(seen) => seen[At(q) + 1] = AskedAt(q)
        /\ At(q) = Len(seen) /\ shift # {} => shift = {AskedAt(q)}
        /\ At(q) + 1 = Position(out_item, out_off) /\ tx # {} => tx = {AskedAt(q)}

\* What is still to be sent has not been overwritten.
Unsent ==
    \A q \in Requested \ Passed(out_item, out_off) :
        Sends(call[q[1]]) =>
            memory[From(call[q[1]])][q[2]] = before[From(call[q[1]])][q[2]]

\* What has been received is at its place, unless a byte was lost.
Landed ==
    lost = 0 =>
        /\ \A q \in Passed(in_item, in_off) :
               Receives(call[q[1]]) =>
                   memory[Into(call[q[1]])][q[2]] = ByteOf(Device, At(q) + 1)
        /\ rx # {} => rx = {ByteOf(Device, Position(in_item, in_off) + 1)}

DataInv == CountInv /\ InFlight /\ Unsent /\ Landed

\* The calls of the program, in each of which the requests are apart.
CallsApart == \A c \in Calls : Separate(c)

(***************************************************************************)
(* The bytes of a call and their places.                                   *)
(***************************************************************************)

\* The requests of a call, their sizes, and those of their operations.
LEMMA Requests ==
    ASSUME Types
    PROVE  /\ call \in Seq(Request) /\ Len(call) \in Nat
           /\ DOMAIN call = 1 .. Len(call)
           /\ \A i \in 1 .. Len(call) :
                  /\ call[i] \in Request
                  /\ SizeOf(call[i]) \in 1 .. BufferSize
                  /\ items[i] = Operation(call[i])
                  /\ items[i].size = SizeOf(call[i])
           /\ Len(items) = Len(call) /\ BufferSize \in Nat \ {0}
<1>1. call \in Seq(Request) /\ BufferSize \in Nat \ {0}
  BY SpiAssumption DEF Types
<1>2. /\ Len(call) \in Nat /\ DOMAIN call = 1 .. Len(call)
      /\ \A i \in 1 .. Len(call) : call[i] \in Request
  BY <1>1
<1>3. \A r \in Request : /\ SizeOf(r) \in 1 .. BufferSize
                          /\ Operation(r).size = SizeOf(r)
  BY <1>1 DEF Request, Sizes, SizeOf, Operation
<1>4. items = [i \in 1 .. Len(call) |-> Operation(call[i])]
  BY <1>2 DEF Types
<1>5. Len(items) = Len(call)
  BY <1>2, <1>4
<1>6. \A i \in 1 .. Len(call) : items[i] = Operation(call[i])
  BY <1>4
<1> QED BY <1>1, <1>2, <1>3, <1>5, <1>6

\* A call asks for finitely many bytes.
LEMMA RequestedFinite ==
    ASSUME Types
    PROVE  /\ IsFiniteSet(Requested)
           /\ \A item, off : /\ Passed(item, off) \subseteq Requested
                              /\ IsFiniteSet(Passed(item, off))
                              /\ Position(item, off) \in Nat
<1>1. IsFiniteSet(1 .. Len(call)) /\ IsFiniteSet(0 .. BufferSize - 1)
  <2>1. 1 \in Int /\ Len(call) \in Int /\ 0 \in Int /\ BufferSize - 1 \in Int
    BY Requests
  <2> QED BY <2>1, FS_Interval
<1>2. IsFiniteSet((1 .. Len(call)) \X (0 .. BufferSize - 1))
  BY <1>1, FS_Product
<1>3. Requested \subseteq (1 .. Len(call)) \X (0 .. BufferSize - 1)
  BY Requests DEF Requested
<1>4. IsFiniteSet(Requested)
  BY <1>2, <1>3, FS_Subset
<1>5. ASSUME NEW item, NEW off
      PROVE  /\ Passed(item, off) \subseteq Requested
             /\ IsFiniteSet(Passed(item, off))
             /\ Position(item, off) \in Nat
  <2>1. Passed(item, off) \subseteq Requested
    BY DEF Passed
  <2>2. IsFiniteSet(Passed(item, off))
    BY <1>4, <2>1, FS_Subset
  <2> QED BY <2>1, <2>2, FS_CardinalityType DEF Position
<1> QED BY <1>4, <1>5

\* The next position: one byte more has been passed.
LEMMA PositionNext ==
    ASSUME Types, NEW item, NEW off, Place(item, off), item <= Len(call)
    PROVE  /\ Place(NextItem(item, off), NextOff(item, off))
           /\ <<item, off>> \in Requested \ Passed(item, off)
           /\ Passed(NextItem(item, off), NextOff(item, off))
                  = Passed(item, off) \cup {<<item, off>>}
           /\ Position(NextItem(item, off), NextOff(item, off)) = Position(item, off) + 1
<1> DEFINE size == SizeOf(call[item])
           ni == NextItem(item, off)
           no == NextOff(item, off)
<1>1. /\ Len(call) \in Nat /\ DOMAIN call = 1 .. Len(call) /\ BufferSize \in Nat \ {0}
      /\ \A i \in 1 .. Len(call) : SizeOf(call[i]) \in 1 .. BufferSize
  BY Requests
<1>2. /\ item \in 1 .. Len(call) /\ off \in 0 .. BufferSize - 1 /\ off < size
      /\ size \in 1 .. BufferSize
  BY <1>1 DEF Place
<1>3. /\ ni = IF off + 1 = size THEN item + 1 ELSE item
      /\ no = IF off + 1 = size THEN 0 ELSE off + 1
  <2>1. items[item].size = size
    BY <1>2, Requests
  <2> QED BY <2>1 DEF NextItem, NextOff
<1> HIDE DEF ni, no, size
<1>4. Place(ni, no)
  <2>1. CASE off + 1 = size
    <3>1. ni = item + 1 /\ no = 0
      BY <1>3, <2>1
    <3>2. ni <= Len(call) => SizeOf(call[ni]) > 0
      BY <1>1, <1>2, <3>1
    <3> QED BY <1>1, <1>2, <3>1, <3>2 DEF Place
  <2>2. CASE off + 1 # size
    BY <1>1, <1>2, <1>3, <2>2 DEF Place, size
  <2> QED BY <2>1, <2>2
<1>5. <<item, off>> \in Requested /\ <<item, off>> \notin Passed(item, off)
  BY <1>1, <1>2 DEF Requested, Passed, size
<1>6. ASSUME NEW q \in Requested
      PROVE  q \in Passed(ni, no) <=> q \in Passed(item, off) \/ q = <<item, off>>
  <2>1. /\ q = <<q[1], q[2]>> /\ q[1] \in 1 .. Len(call) /\ q[2] \in 0 .. BufferSize - 1
        /\ q[2] < SizeOf(call[q[1]])
    BY <1>1 DEF Requested
  <2>2. q = <<item, off>> <=> q[1] = item /\ q[2] = off
    BY <2>1
  <2>3. q[1] = item => q[2] < size
    BY <2>1 DEF size
  <2>4. (q[1] < ni \/ (q[1] = ni /\ q[2] < no))
            <=> q[1] < item \/ (q[1] = item /\ q[2] < off) \/ (q[1] = item /\ q[2] = off)
    <3>1. CASE off + 1 = size
      BY <1>1, <1>2, <1>3, <2>1, <2>3, <3>1
    <3>2. CASE off + 1 # size
      BY <1>1, <1>2, <1>3, <2>1, <2>3, <3>2
    <3> QED BY <3>1, <3>2
  <2> QED BY <2>2, <2>4 DEF Passed
<1>7. Passed(ni, no) = Passed(item, off) \cup {<<item, off>>}
  BY <1>5, <1>6 DEF Passed
<1>8. Position(ni, no) = Position(item, off) + 1
  BY <1>5, <1>7, RequestedFinite, FS_AddElement DEF Position
<1> QED BY <1>4, <1>5, <1>7, <1>8 DEF ni, no

\* A byte that has been passed comes before the position.
LEMMA PositionBelow ==
    ASSUME Types, NEW item, NEW off, item \in Nat, off \in Nat, NEW q \in Passed(item, off)
    PROVE  Position(q[1], q[2]) + 1 <= Position(item, off)
<1> DEFINE P == Passed(q[1], q[2])
           R == Passed(item, off)
<1>1. /\ q \in Requested /\ q = <<q[1], q[2]>> /\ q[1] \in Nat /\ q[2] \in Nat
      /\ \A p \in Requested : p[1] \in Nat /\ p[2] \in Nat
  BY Requests DEF Passed, Requested
<1>2. q \notin P /\ P \cup {q} \subseteq R
  BY <1>1 DEF Passed
<1>3. IsFiniteSet(P) /\ IsFiniteSet(R)
  BY RequestedFinite
<1> HIDE DEF P, R
<1>4. Cardinality(P \cup {q}) = Cardinality(P) + 1
  BY <1>2, <1>3, FS_AddElement
<1>5. Cardinality(P \cup {q}) <= Cardinality(R)
  BY <1>2, <1>3, FS_Subset
<1> QED BY <1>4, <1>5 DEF P, R, Position

\* Before the first byte none has been passed, and at the end every one.
LEMMA PositionEnds ==
    ASSUME Types
    PROVE  /\ Place(1, 0) /\ Passed(1, 0) = {} /\ Position(1, 0) = 0
           /\ Passed(Len(call) + 1, 0) = Requested
<1>1. \A q \in Requested : /\ q[1] \in 1 .. Len(call) /\ q[2] \in Nat
  BY Requests DEF Requested
<1>2. Passed(1, 0) = {}
  BY <1>1 DEF Passed
<1>3. Passed(Len(call) + 1, 0) = Requested
  BY <1>1, Requests DEF Passed
<1>4. Place(1, 0)
  BY Requests DEF Place
<1> QED BY <1>2, <1>3, <1>4, FS_EmptySet DEF Position

\* The byte that is received next has been sent.
LEMMA BehindIsPassed ==
    ASSUME Types, Behind, in_item <= Len(call)
    PROVE  <<in_item, in_off>> \in Passed(out_item, out_off)
<1>1. <<in_item, in_off>> \in Requested
  BY PositionNext DEF Types
<1>2. /\ out_item \in Nat /\ in_item \in Nat /\ out_off \in Nat /\ in_off \in Nat
  BY Requests DEF Types, Place
<1> QED BY <1>1, <1>2 DEF Behind, Passed

(***************************************************************************)
(* The steps.                                                              *)
(***************************************************************************)

\* A step that is none of the transfer's.
Still ==
    /\ UNCHANGED <<call, items, phase, progress, registers, seen, memory, before, lost>>
    /\ Done => Done' /\ selected' = selected

Moves ==
    /\ Done <=> Done'
    /\ \/ \E c \in Calls : Done /\ Start(c)
       \/ Done /\ (SendByte \/ SendLoopEnds \/ RecvByte \/ RecvLoopEnds)
       \/ Shift \/ Exchange

LEMMA StepCases ==
    ASSUME [Next]_vars
    PROVE  Still \/ Moves
<1>1. CASE SetupStep
  <2>1. ~Done
    BY <1>1 DEF SetupStep, OscOn, WaitOscOn, SetCfgr, SetWaitStates, SetPeriphEnable,
                GpioSetup, GpioSet, SetUsart, SetSpi, Here
  <2> QED BY <1>1, <2>1 DEF SetupStep, Still
<1>2. CASE Done /\ Transmission /\ Outside
  <2>1. Done <=> Done'
    BY <1>2 DEF Outside, Done
  <2> QED BY <1>2, <2>1 DEF Moves, Transmission
<1>3. CASE Call
  <2>1. Done <=> Done'
    BY <1>3 DEF Call, Outside, Done
  <2> QED BY <1>3, <2>1 DEF Moves, Call
<1>4. CASE ByteOut \/ ByteIn
  <2>1. Done <=> Done'
    BY <1>4 DEF ByteOut, ByteIn, Outside, Done
  <2> QED BY <1>4, <2>1 DEF Moves, ByteOut, ByteIn
<1>5. CASE \/ UsartSend \/ UsartShifts \/ \E o \in Oscillators : Settles(o)
           \/ UNCHANGED vars
  <2>1. UNCHANGED transfer /\ UNCHANGED at
    BY <1>5 DEF UsartSend, UsartShifts, Settles, vars
  <2> QED BY <2>1 DEF Still, transfer, Done
<1> QED BY <1>1, <1>2, <1>3, <1>4, <1>5 DEF Next, Processor

\* While the call stays, so do the places of its bytes.
LEMMA SamePlaces ==
    ASSUME call' = call
    PROVE  /\ Requested' = Requested
           /\ Passed(out_item, out_off)' = Passed(out_item', out_off')
           /\ Passed(in_item, in_off)' = Passed(in_item', in_off')
           /\ Position(out_item, out_off)' = Position(out_item', out_off')
           /\ Position(in_item, in_off)' = Position(in_item', in_off')
           /\ \A q : At(q)' = At(q)
<1>1. Requested' = Requested
  BY DEF Requested
<1>2. /\ Passed(out_item, out_off)' = Passed(out_item', out_off')
      /\ Passed(in_item, in_off)' = Passed(in_item', in_off')
  BY <1>1 DEF Passed
<1>3. \A q : Passed(q[1], q[2])' = Passed(q[1], q[2])
  BY <1>1 DEF Passed
<1> QED BY <1>1, <1>2, <1>3 DEF Position, At

\* What stands still, stands still.
LEMMA StillInv ==
    ASSUME Still, CountInv
    PROVE  /\ CountInv'
           /\ InFlight => InFlight'
           /\ Unsent => Unsent'
           /\ Landed => Landed'
<1> USE DEF Still, progress, registers
<1>1. Types'
  BY DEF CountInv, Types, Place, Register, Memory
<1>2. Account'
  BY SamePlaces DEF CountInv, Account, Held
<1>3. Quiet'
  BY DEF CountInv, Quiet, MoreToDo
<1>4. \A q : AskedAt(q)' = AskedAt(q)
  BY DEF AskedAt, ByteAsked
<1>5. InFlight => InFlight'
  BY <1>4, SamePlaces DEF InFlight
<1>6. Unsent => Unsent'
  BY SamePlaces DEF Unsent
<1>7. Landed => Landed'
  BY SamePlaces DEF Landed
<1> QED BY <1>1, <1>2, <1>3, <1>5, <1>6, <1>7 DEF CountInv

\* What an operation sends and where it stores, in terms of its request.
InPlace(r) == r.make = "xfer_buffers" => r.out = r.in

LEMMA Operations ==
    ASSUME NEW r \in Request, NEW n \in 0 .. BufferSize - 1, NEW b \in Byte,
           Memory(memory), in_off \in 0 .. BufferSize - 1
    PROVE  /\ OutByte(Operation(r), n) \in Byte
           /\ Memory(Stored(Operation(r), b))
           /\ InPlace(r) /\ Sends(r) => OutByte(Operation(r), n) = memory[From(r)][n]
           /\ ~Sends(r) => OutByte(Operation(r), n) = ByteAsked(r, n)
           /\ Receives(r) /\ InPlace(r) =>
                  /\ Into(r) \in Buffers
                  /\ Stored(Operation(r), b) = [memory EXCEPT ![Into(r)][in_off] = b]
           /\ ~Receives(r) => Stored(Operation(r), b) = memory
<1> DEFINE o == Operation(r)
<1>1. CASE r.make = "send_bytes"
  <2>1. r.raw \in Raws
    BY <1>1 DEF Request
  <2>2. o.m = "out_single" /\ o.raw = r.raw
    BY <1>1 DEF Operation
  <2>3. OutByte(o, n) = ByteOf(r.raw, 0)
    BY <2>2 DEF OutByte
  <2>4. Stored(o, b) = memory
    BY <2>2 DEF Stored
  <2>5. ByteOf(r.raw, 0) \in Byte
    BY <2>1 DEF ByteOf, Byte
  <2> QED BY <1>1, <2>3, <2>4, <2>5 DEF Sends, Receives, ByteAsked
<1>2. CASE r.make = "send_buffer"
  <2>1. r.buf \in Buffers
    BY <1>2 DEF Request
  <2>2. o.m = "out_buffer" /\ o.out_ptr = r.buf
    BY <1>2 DEF Operation
  <2>3. OutByte(o, n) = memory[r.buf][n]
    BY <2>2 DEF OutByte
  <2>4. Stored(o, b) = memory
    BY <2>2 DEF Stored
  <2>5. memory[r.buf][n] \in Byte
    BY <2>1 DEF Memory
  <2> QED BY <1>2, <2>3, <2>4, <2>5 DEF Sends, Receives, From
<1>3. CASE r.make = "recv_buffer"
  <2>1. r.buf \in Buffers
    BY <1>3 DEF Request
  <2>2. o.m = "in" /\ o.in_ptr = r.buf
    BY <1>3 DEF Operation
  <2>3. OutByte(o, n) = ByteOf(Zero, 0)
    BY <2>2 DEF OutByte
  <2>4. Stored(o, b) = [memory EXCEPT ![r.buf][in_off] = b]
    BY <2>2 DEF Stored
  <2>5. ByteOf(Zero, 0) \in Byte
    BY DEF ByteOf, Byte
  <2>6. Memory(Stored(o, b))
    BY <2>1, <2>4 DEF Memory
  <2> QED BY <1>3, <2>1, <2>3, <2>4, <2>5, <2>6 DEF Sends, Receives, ByteAsked, Into
<1>4. CASE r.make = "xfer_buffers"
  <2>1. r.out \in Buffers /\ r.in \in Buffers
    BY <1>4 DEF Request
  <2>2. o.m = "both" /\ o.in_ptr = r.out /\ o.out_ptr = r.in
    BY <1>4 DEF Operation
  <2>3. OutByte(o, n) = memory[r.in][n]
    BY <2>2 DEF OutByte
  <2>4. Stored(o, b) = [memory EXCEPT ![r.out][in_off] = b]
    BY <2>2 DEF Stored
  <2>5. memory[r.in][n] \in Byte
    BY <2>1 DEF Memory
  <2>6. Memory(Stored(o, b))
    BY <2>1, <2>4 DEF Memory
  <2>7. InPlace(r) => r.out = r.in
    BY <1>4 DEF InPlace
  <2> QED BY <1>4, <2>1, <2>3, <2>4, <2>5, <2>6, <2>7 DEF Sends, Receives, Into, From
<1> QED BY <1>1, <1>2, <1>3, <1>4 DEF Request

\* A register holds a byte or none.
LEMMA Registers ==
    ASSUME NEW r, Register(r)
    PROVE  Held(r) \in {0, 1} /\ Cardinality(r) = Held(r)
<1>1. CASE r = {}
  BY <1>1, FS_EmptySet DEF Held
<1>2. CASE r # {}
  <2>1. PICK b \in r : r = {b}
    BY <1>2 DEF Register
  <2>2. Cardinality({b}) = 1
    BY FS_Singleton
  <2> QED BY <1>2, <2>1, <2>2 DEF Held
<1> QED BY <1>1, <1>2

(***************************************************************************)
(* The count, step by step.                                                *)
(***************************************************************************)
LEMMA StartCounts ==
    ASSUME CountInv, Done <=> Done', NEW c \in Calls, Done, Start(c)
    PROVE  /\ CountInv' /\ InFlight' /\ Unsent' /\ Landed'
<1>1. /\ phase = "idle" /\ call' = c /\ items' = [i \in DOMAIN c |-> Operation(c[i])]
      /\ out_item' = 1 /\ out_off' = 0 /\ in_item' = 1 /\ in_off' = 0
      /\ selected' = TRUE /\ seen' = <<>> /\ before' = memory /\ phase' = "out"
      /\ lost' = 0 /\ tx' = tx /\ shift' = shift /\ rx' = rx /\ memory' = memory
  BY DEF Start, registers
<1>2. tx = {} /\ shift = {} /\ rx = {}
  BY <1>1 DEF CountInv, Quiet
<1>3. /\ c \in Seq(Request) /\ Len(c) \in Nat /\ DOMAIN c = 1 .. Len(c)
      /\ BufferSize \in Nat \ {0} /\ \A i \in 1 .. Len(c) : SizeOf(c[i]) > 0
  <2>1. /\ c \in Seq(Request) /\ BufferSize \in Nat \ {0}
    BY SpiAssumption
  <2>2. \A r \in Request : SizeOf(r) > 0
    BY <2>1 DEF Request, Sizes, SizeOf
  <2> QED BY <2>1, <2>2
<1>4. Types'
  <2>1. Place(out_item, out_off)' /\ Place(in_item, in_off)'
    BY <1>1, <1>3 DEF Place
  <2> QED BY <1>1, <2>1 DEF CountInv, Types, Register, Memory
<1>5. /\ Passed(out_item, out_off)' = {} /\ Passed(in_item, in_off)' = {}
  <2>1. \A q \in Requested' : q[1] \in 1 .. Len(c) /\ q[2] \in Nat
    BY <1>1, <1>3 DEF Requested
  <2> QED BY <1>1, <2>1 DEF Passed
<1>6. Position(out_item, out_off)' = 0 /\ Position(in_item, in_off)' = 0
  BY <1>5, FS_EmptySet DEF Position
<1>7. Account'
  BY <1>1, <1>2, <1>6 DEF Account, Held
<1>8. Quiet'
  BY <1>1 DEF Quiet
<1>9. InFlight' /\ Unsent' /\ Landed'
  BY <1>1, <1>2, <1>5 DEF InFlight, Unsent, Landed
<1> QED BY <1>4, <1>7, <1>8, <1>9 DEF CountInv

LEMMA SendByteCounts ==
    ASSUME CountInv, Done <=> Done', SendByte
    PROVE  CountInv'
<1>1. /\ phase = "out" /\ out_item <= Len(items) /\ tx = {}
      /\ tx' = {OutByte(items[out_item], out_off)}
      /\ out_item' = NextItem(out_item, out_off)
      /\ out_off' = NextOff(out_item, out_off)
      /\ UNCHANGED <<call, items, phase, in_item, in_off, shift, rx, selected, seen,
                     memory, before, lost>>
  BY DEF SendByte
<1>2. Types
  BY DEF CountInv
<1>3. /\ Place(out_item, out_off) /\ out_item <= Len(call)
      /\ out_item \in 1 .. Len(call) /\ out_off \in 0 .. BufferSize - 1
      /\ items[out_item] = Operation(call[out_item]) /\ call[out_item] \in Request
  BY <1>1, <1>2, Requests DEF Types, Place
<1>4. /\ Place(out_item', out_off')
      /\ Position(out_item', out_off') = Position(out_item, out_off) + 1
  BY <1>1, <1>2, <1>3, PositionNext
<1>5. OutByte(items[out_item], out_off) \in Byte
  <2>1. ByteOf(Zero, 0) \in Byte
    BY DEF ByteOf, Byte
  <2>2. in_off \in 0 .. BufferSize - 1 /\ Memory(memory)
    BY <1>2 DEF Types, Place
  <2> QED BY <1>3, <2>1, <2>2, Operations
<1>6. Types'
  <2>1. Place(out_item, out_off)' /\ Place(in_item, in_off)'
    BY <1>1, <1>2, <1>4 DEF Place, Types
  <2>2. Register(tx')
    BY <1>1, <1>5 DEF Register
  <2> QED BY <1>1, <1>2, <2>1, <2>2 DEF Types, Register, Memory
<1>7. Account'
  <2>1. Held(tx)' = 1 /\ Held(tx) = 0
    BY <1>1 DEF Held
  <2>2. /\ Held(shift)' = Held(shift) /\ Held(rx)' = Held(rx)
    BY <1>1 DEF Held
  <2>3. /\ Position(out_item, out_off)' = Position(out_item, out_off) + 1
        /\ Position(in_item, in_off)' = Position(in_item, in_off)
    BY <1>1, <1>4, SamePlaces
  <2>4. Held(shift) \in {0, 1} /\ Held(rx) \in {0, 1}
    BY DEF Held
  <2>5. /\ Position(out_item, out_off) \in Nat /\ Position(in_item, in_off) \in Nat
        /\ Len(seen) \in Nat /\ lost \in Nat
    BY <1>2, RequestedFinite DEF Types
  <2>6. Position(out_item, out_off)' = Len(seen)' + Held(shift)' + Held(tx)'
    <3>1. Position(out_item, out_off) = Len(seen) + Held(shift) + Held(tx)
      BY DEF Account, CountInv
    <3>2. Position(out_item, out_off) + 1 = Len(seen) + Held(shift) + 1
      BY <2>1, <2>4, <2>5, <3>1
    <3>3. Len(seen)' = Len(seen)
      BY <1>1
    <3> QED BY <2>1, <2>2, <2>3, <3>2, <3>3
  <2>7. Len(seen)' = Position(in_item, in_off)' + Held(rx)' + lost'
    BY <1>1, <2>2, <2>3 DEF Account, CountInv
  <2> QED BY <2>6, <2>7 DEF Account
<1>8. Quiet'
  BY <1>1 DEF Quiet, CountInv
<1> QED BY <1>6, <1>7, <1>8 DEF CountInv

LEMMA LoopEndCounts ==
    ASSUME CountInv, Done <=> Done', SendLoopEnds \/ RecvLoopEnds
    PROVE  CountInv'
<1>1. /\ phase # "idle"
      /\ UNCHANGED <<call, items, progress, registers, seen, memory, before, lost>>
      /\ \/ phase' # "idle" /\ phase' \in {"out", "in"} /\ selected' = selected
         \/ phase' = "idle" /\ ~MoreToDo
  BY DEF SendLoopEnds, RecvLoopEnds, MoreToDo
<1>2. Types'
  BY <1>1 DEF CountInv, Types, Place, Register, Memory, progress, registers
<1>3. Account'
  BY <1>1, SamePlaces DEF CountInv, Account, Held, progress, registers
<1>4. ASSUME phase' = "idle"
      PROVE  tx' = {} /\ shift' = {} /\ rx' = {} /\ lost' = 0 /\ ~MoreToDo'
  <2>1. ~MoreToDo
    BY <1>1, <1>4
  <2>2. out_item = Len(call) + 1 /\ in_item = Len(call) + 1 /\ out_off = 0 /\ in_off = 0
    BY <2>1, Requests DEF CountInv, MoreToDo, Types, Place
  <2>3. Position(out_item, out_off) = Position(in_item, in_off)
    BY <2>2
  <2>4. Position(in_item, in_off) \in Nat /\ Len(seen) \in Nat /\ lost \in Nat
    BY RequestedFinite DEF CountInv, Types
  <2>5. Held(tx) = 0 /\ Held(shift) = 0 /\ Held(rx) = 0 /\ lost = 0
    <3>1. Held(tx) \in {0, 1} /\ Held(shift) \in {0, 1} /\ Held(rx) \in {0, 1}
      BY DEF Held
    <3> QED BY <2>3, <2>4, <3>1 DEF CountInv, Account
  <2>6. tx = {} /\ shift = {} /\ rx = {}
    BY <2>5 DEF Held
  <2> QED BY <1>1, <2>1, <2>5, <2>6 DEF MoreToDo, progress, registers
<1>5. ASSUME phase' # "idle" PROVE Done' /\ selected'
  <2>1. Done /\ selected
    BY <1>1 DEF Quiet, CountInv
  <2>2. selected' = selected
    BY <1>1, <1>5
  <2> QED BY <2>1, <2>2, Zenon
<1>6. Quiet'
  BY <1>4, <1>5, Zenon DEF Quiet
<1> QED BY <1>2, <1>3, <1>6 DEF CountInv

LEMMA RecvByteCounts ==
    ASSUME CountInv, Done <=> Done', RecvByte
    PROVE  CountInv'
<1>1. /\ phase = "in" /\ in_item <= Len(items) /\ rx # {}
      /\ in_item' = NextItem(in_item, in_off)
      /\ in_off' = NextOff(in_item, in_off)
      /\ rx' = {}
      /\ UNCHANGED <<call, items, phase, out_item, out_off, tx, shift, selected, seen,
                     before, lost>>
  BY DEF RecvByte, MayReceive, RxAfter
<1>2. PICK b \in rx : memory' = Stored(items[in_item], b)
  BY DEF RecvByte
<1>3. Types
  BY DEF CountInv
<1>4. b \in Byte
  BY <1>3 DEF Types, Register
<1>5. /\ Place(in_item, in_off) /\ in_item <= Len(call)
      /\ in_item \in 1 .. Len(call) /\ in_off \in 0 .. BufferSize - 1
      /\ items[in_item] = Operation(call[in_item]) /\ call[in_item] \in Request
  BY <1>1, <1>3, Requests DEF Types, Place
<1>6. /\ Place(in_item', in_off')
      /\ Position(in_item', in_off') = Position(in_item, in_off) + 1
  BY <1>1, <1>3, <1>5, PositionNext
<1>7. Memory(memory')
  BY <1>2, <1>3, <1>4, <1>5, Operations DEF Types
<1>8. Types'
  <2>1. Place(out_item, out_off)' /\ Place(in_item, in_off)'
    BY <1>1, <1>3, <1>6 DEF Place, Types
  <2> QED BY <1>1, <1>3, <1>7, <2>1 DEF Types, Register, Memory
<1>9. Account'
  <2>1. Held(rx)' = 0 /\ Held(rx) = 1
    BY <1>1 DEF Held
  <2>2. /\ Held(shift)' = Held(shift) /\ Held(tx)' = Held(tx)
    BY <1>1 DEF Held
  <2>3. /\ Position(in_item, in_off)' = Position(in_item, in_off) + 1
        /\ Position(out_item, out_off)' = Position(out_item, out_off)
    BY <1>1, <1>6, SamePlaces
  <2>4. Position(in_item, in_off) \in Nat /\ Len(seen) \in Nat /\ lost \in Nat
    BY <1>3, RequestedFinite DEF Types
  <2> QED BY <1>1, <2>1, <2>2, <2>3, <2>4 DEF Account, CountInv, Held
<1>10. Quiet'
  BY <1>1 DEF Quiet, CountInv
<1> QED BY <1>8, <1>9, <1>10 DEF CountInv

LEMMA ShiftCounts ==
    ASSUME CountInv, Done <=> Done', Shift
    PROVE  CountInv'
<1>1. /\ tx # {} /\ shift = {} /\ shift' = tx /\ tx' = {}
      /\ UNCHANGED <<call, items, phase, progress, rx, selected, seen, memory,
                     before, lost>>
  BY DEF Shift
<1>2. Types'
  BY <1>1 DEF CountInv, Types, Place, Register, Memory, progress
<1>3. Account'
  <2>1. Held(tx) = 1 /\ Held(shift) = 0 /\ Held(tx)' = 0 /\ Held(shift)' = 1
        /\ Held(rx)' = Held(rx)
    BY <1>1 DEF Held
  <2>2. Len(seen) \in Nat
    BY DEF CountInv, Types
  <2> QED BY <1>1, <2>1, <2>2, SamePlaces DEF CountInv, Account, progress
<1>4. Quiet'
  BY <1>1 DEF Quiet, CountInv
<1> QED BY <1>2, <1>3, <1>4 DEF CountInv

LEMMA ExchangeCounts ==
    ASSUME CountInv, Done <=> Done', Exchange
    PROVE  CountInv'
<1>1. /\ shift # {} /\ shift' = {}
      /\ \/ rx = {} /\ rx' = {ByteOf(Device, Len(seen) + 1)} /\ lost' = lost
         \/ rx # {} /\ lost' = lost + 1 /\ rx' = rx
      /\ UNCHANGED <<call, items, phase, progress, tx, selected, memory, before>>
  BY DEF Exchange
<1>2. selected
  BY <1>1 DEF CountInv, Quiet
<1>3. PICK b \in shift : seen' = Append(seen, b)
  BY <1>2 DEF Exchange
<1>4. b \in Byte /\ seen \in Seq(Byte) /\ Len(seen) \in Nat /\ lost \in Nat
  BY DEF CountInv, Types, Register
<1>5. seen' \in Seq(Byte) /\ Len(seen') = Len(seen) + 1
  BY <1>3, <1>4, AppendLast
<1>6. Types'
  <2>1. ByteOf(Device, Len(seen) + 1) \in Byte
    BY <1>4 DEF ByteOf, Byte
  <2>2. Register(rx') /\ lost' \in Nat
    BY <1>1, <1>4, <2>1 DEF CountInv, Types, Register
  <2> QED BY <1>1, <1>5, <2>2 DEF CountInv, Types, Place, Register, Memory, progress
<1>7. Account'
  <2>1. Held(shift) = 1 /\ Held(shift)' = 0 /\ Held(tx)' = Held(tx)
    BY <1>1 DEF Held
  <2>2. Held(rx)' + lost' = Held(rx) + lost + 1
    <3>1. CASE rx = {} /\ rx' = {ByteOf(Device, Len(seen) + 1)} /\ lost' = lost
      <4>1. rx' # {}
        BY <3>1
      <4>2. Held(rx)' = 1 /\ Held(rx) = 0
        BY <3>1, <4>1 DEF Held
      <4> QED BY <1>4, <3>1, <4>2
    <3>2. CASE rx # {} /\ lost' = lost + 1 /\ rx' = rx
      <4>1. Held(rx)' = 1 /\ Held(rx) = 1
        BY <3>2 DEF Held
      <4> QED BY <1>4, <3>2, <4>1
    <3> QED BY <1>1, <3>1, <3>2
  <2>3. Held(tx) \in {0, 1} /\ Held(rx) \in {0, 1} /\ Held(rx)' \in {0, 1}
        /\ lost' \in Nat
    BY <1>1, <1>4 DEF Held
  <2>4. Position(in_item, in_off) \in Nat
    BY RequestedFinite DEF CountInv
  <2>5. /\ Position(in_item, in_off)' = Position(in_item, in_off)
        /\ Position(out_item, out_off)' = Position(out_item, out_off)
    BY <1>1, SamePlaces DEF progress
  <2>6. Position(out_item, out_off)' = Len(seen)' + Held(shift)' + Held(tx)'
    BY <1>4, <1>5, <2>1, <2>3, <2>5 DEF CountInv, Account
  <2>7. Len(seen)' = Position(in_item, in_off)' + Held(rx)' + lost'
    <3>1. Len(seen) = Position(in_item, in_off) + Held(rx) + lost
      BY DEF Account, CountInv
    <3>2. Len(seen) + 1 = Position(in_item, in_off) + (Held(rx)' + lost')
      BY <1>4, <2>2, <2>3, <2>4, <3>1
    <3>3. Len(seen) + 1 = Position(in_item, in_off) + Held(rx)' + lost'
      BY <2>3, <2>4, <3>2
    <3> QED BY <1>5, <2>5, <3>3
  <2> QED BY <2>6, <2>7 DEF Account
<1>8. Quiet'
  BY <1>1 DEF Quiet, CountInv
<1> QED BY <1>6, <1>7, <1>8 DEF CountInv

(***************************************************************************)
(* The bytes, step by step.                                                *)
(***************************************************************************)

\* What holds of the call that runs, when the calls of the program are apart.
LEMMA Apart ==
    ASSUME Types, CallsApart
    PROVE  /\ \A i \in 1 .. Len(call) : InPlace(call[i])
           /\ \A i, j \in 1 .. Len(call) :
                  /\ i < j /\ Receives(call[i]) /\ Sends(call[j])
                         => Into(call[i]) # From(call[j])
                  /\ i # j /\ Receives(call[i]) /\ Receives(call[j])
                         => Into(call[i]) # Into(call[j])
<1>1. DOMAIN call = 1 .. Len(call)
  BY Requests
<1>2. CASE call = <<>>
  <2>1. Len(call) = 0
    BY <1>2
  <2> QED BY <2>1
<1>3. CASE call # <<>>
  <2>1. Separate(call)
    BY <1>3 DEF Types, CallsApart
  <2>2. \A i, j \in 1 .. Len(call) :
            /\ call[i].make = "xfer_buffers" => call[i].out = call[i].in
            /\ i < j /\ Receives(call[i]) /\ Sends(call[j])
                   => Into(call[i]) # From(call[j])
            /\ i # j /\ Receives(call[i]) /\ Receives(call[j])
                   => Into(call[i]) # Into(call[j])
    BY <1>1, <2>1 DEF Separate
  <2> QED BY <2>2 DEF InPlace
<1> QED BY <1>2, <1>3

\* The byte that goes out is the one asked for.
LEMMA SendsAsked ==
    ASSUME Types, CallsApart, Unsent, out_item <= Len(call)
    PROVE  OutByte(items[out_item], out_off) = AskedAt(<<out_item, out_off>>)
<1> DEFINE r == call[out_item]
<1>1. /\ out_item \in 1 .. Len(call) /\ out_off \in 0 .. BufferSize - 1
      /\ items[out_item] = Operation(r) /\ r \in Request
  BY Requests DEF Types, Place
<1>2. InPlace(r)
  BY <1>1, Apart
<1>3. <<out_item, out_off>> \in Requested \ Passed(out_item, out_off)
  BY PositionNext DEF Types
<1>4. Sends(r) => memory[From(r)][out_off] = before[From(r)][out_off]
  BY <1>3 DEF Unsent
<1>5. ByteOf(Zero, 0) \in Byte
  BY DEF ByteOf, Byte
<1>6. Memory(memory) /\ in_off \in 0 .. BufferSize - 1
  BY DEF Types, Place
<1>7. AskedAt(<<out_item, out_off>>) = ByteAsked(r, out_off)
  BY DEF AskedAt
<1> HIDE DEF r
<1>8. /\ InPlace(r) /\ Sends(r) => OutByte(Operation(r), out_off) = memory[From(r)][out_off]
      /\ ~Sends(r) => OutByte(Operation(r), out_off) = ByteAsked(r, out_off)
  BY <1>1, <1>5, <1>6, Operations
<1>9. Sends(r) => ByteAsked(r, out_off) = before[From(r)][out_off]
  BY DEF Sends, From, ByteAsked
<1> QED BY <1>1, <1>2, <1>4, <1>7, <1>8, <1>9

\* The buffers of a request.
LEMMA RequestBuffers ==
    ASSUME NEW r \in Request
    PROVE  (Sends(r) => From(r) \in Buffers) /\ (Receives(r) => Into(r) \in Buffers)
BY DEF Request, Sends, Receives, From, Into

LEMMA SendByteData ==
    ASSUME DataInv, CallsApart, SendByte
    PROVE  InFlight' /\ Unsent' /\ Landed'
<1> DEFINE new == <<out_item, out_off>>
           pos == Position(out_item, out_off)
<1>1. /\ out_item <= Len(items) /\ tx = {}
      /\ tx' = {OutByte(items[out_item], out_off)}
      /\ out_item' = NextItem(out_item, out_off)
      /\ out_off' = NextOff(out_item, out_off)
      /\ UNCHANGED <<call, items, phase, in_item, in_off, shift, rx, selected, seen,
                     memory, before, lost>>
  BY DEF SendByte
<1>2. Types /\ Account
  BY DEF DataInv, CountInv
<1>3. out_item <= Len(call) /\ Place(out_item, out_off)
  BY <1>1, <1>2, Requests DEF Types
<1>4. /\ Passed(out_item, out_off)' = Passed(out_item, out_off) \cup {new}
      /\ Position(out_item, out_off)' = pos + 1
      /\ new \in Requested
      /\ pos \in Nat
  BY <1>1, <1>2, <1>3, PositionNext, SamePlaces, RequestedFinite
<1>5. /\ At(new) = pos
      /\ \A q : At(q)' = At(q)
      /\ \A q : AskedAt(q)' = AskedAt(q)
  BY <1>1, SamePlaces DEF At, AskedAt, ByteAsked
<1>6. tx' = {AskedAt(new)}
  BY <1>1, <1>2, <1>3, SendsAsked DEF DataInv
<1>7. Len(seen) \in Nat /\ pos = Len(seen) + Held(shift)
  <2>1. Held(tx) = 0 /\ Held(shift) \in {0, 1} /\ Len(seen) \in Nat
    BY <1>1, <1>2 DEF Held, Types
  <2> QED BY <1>2, <2>1 DEF Account
<1>8. InFlight'
  <2> SUFFICES ASSUME NEW q \in Passed(out_item, out_off)'
               PROVE  /\ At(q) < Len(seen) => seen[At(q) + 1] = AskedAt(q)
                      /\ At(q) = Len(seen) /\ shift # {} => shift = {AskedAt(q)}
                      /\ At(q) + 1 = pos + 1 => tx' = {AskedAt(q)}
    BY <1>1, <1>4, <1>5 DEF InFlight
  <2>1. CASE q = new
    <3>1. shift # {} => Held(shift) = 1
      BY DEF Held
    <3>2. ~(pos < Len(seen)) /\ (shift # {} => pos # Len(seen))
      <4>1. Held(shift) \in {0, 1}
        BY DEF Held
      <4> QED BY <1>7, <3>1, <4>1
    <3> QED BY <1>5, <1>6, <2>1, <3>2
  <2>2. CASE q \in Passed(out_item, out_off)
    <3>1. At(q) + 1 <= pos /\ At(q) \in Nat
      <4>1. out_item \in Nat /\ out_off \in Nat
        BY <1>2, Requests DEF Types, Place
      <4> QED BY <1>2, <2>2, <4>1, PositionBelow, RequestedFinite DEF At
    <3>2. At(q) + 1 # pos + 1
      BY <1>4, <3>1
    <3> QED BY <2>2, <3>2 DEF DataInv, InFlight
  <2> QED BY <1>4, <2>1, <2>2
<1>9. Unsent'
  BY <1>1, <1>4, SamePlaces DEF Unsent, DataInv
<1>10. Landed'
  BY <1>1, <1>5, SamePlaces DEF Landed, DataInv
<1> QED BY <1>8, <1>9, <1>10

LEMMA RecvByteData ==
    ASSUME DataInv, CallsApart, RecvByte
    PROVE  InFlight' /\ Unsent' /\ Landed'
<1> DEFINE new == <<in_item, in_off>>
           r == call[in_item]
<1>1. /\ phase = "in" /\ in_item <= Len(items) /\ rx # {} /\ Behind
      /\ in_item' = NextItem(in_item, in_off)
      /\ in_off' = NextOff(in_item, in_off)
      /\ rx' = {}
      /\ UNCHANGED <<call, items, phase, out_item, out_off, tx, shift, selected, seen,
                     before, lost>>
  BY DEF RecvByte, MayReceive, RxAfter
<1>2. PICK b \in rx : memory' = Stored(items[in_item], b)
  BY DEF RecvByte
<1>3. Types /\ InFlight /\ Unsent /\ Landed
  BY DEF DataInv, CountInv
<1>4. b \in Byte /\ rx = {b}
  BY <1>3 DEF Types, Register
<1>5. /\ Place(in_item, in_off) /\ in_item <= Len(call)
      /\ in_item \in 1 .. Len(call) /\ in_off \in 0 .. BufferSize - 1
      /\ items[in_item] = Operation(r) /\ r \in Request
      /\ Memory(memory)
  BY <1>1, <1>3, Requests DEF Types, Place
<1>6. /\ Passed(in_item, in_off)' = Passed(in_item, in_off) \cup {new}
      /\ new \notin Passed(in_item, in_off)
      /\ Passed(out_item, out_off)' = Passed(out_item, out_off)
      /\ Position(out_item, out_off)' = Position(out_item, out_off)
      /\ new \in Passed(out_item, out_off)
      /\ Requested' = Requested
  BY <1>1, <1>3, <1>5, PositionNext, SamePlaces, BehindIsPassed
<1>7. /\ At(new) = Position(in_item, in_off)
      /\ \A q : At(q)' = At(q)
      /\ \A q : AskedAt(q)' = AskedAt(q)
  BY <1>1, SamePlaces DEF At, AskedAt, ByteAsked
<1>8. InFlight'
  BY <1>1, <1>3, <1>6, <1>7 DEF InFlight
<1>9. \A q \in Requested : /\ q = <<q[1], q[2]>> /\ q[1] \in 1 .. Len(call)
                           /\ q[2] \in 0 .. BufferSize - 1
  BY <1>3, Requests DEF Requested
<1>10. /\ Receives(r) => /\ Into(r) \in Buffers
                         /\ memory' = [memory EXCEPT ![Into(r)][in_off] = b]
       /\ ~Receives(r) => memory' = memory
  <2>1. InPlace(r)
    BY <1>3, <1>5, Apart
  <2> HIDE DEF r
  <2> QED BY <1>2, <1>4, <1>5, <2>1, Operations
<1>10a.
      ASSUME NEW y \in Buffers, NEW k \in 0 .. BufferSize - 1,
             Receives(r) /\ Into(r) = y => k # in_off
      PROVE  memory'[y][k] = memory[y][k]
  <2>1. CASE ~Receives(r)
    BY <1>10, <2>1
  <2>2. CASE Receives(r)
    <3> DEFINE x == Into(r)
               w == [memory EXCEPT ![x][in_off] = b]
    <3>1. x \in Buffers /\ memory' = w /\ in_off \in 0 .. BufferSize - 1 /\ Memory(memory)
      BY <1>5, <1>10, <2>2
    <3>2. ~(x = y /\ in_off = k)
      BY <1>10a, <2>2
    <3> HIDE DEF x
    <3>3. w[y][k] = IF x = y /\ in_off = k THEN b ELSE memory[y][k]
      BY <3>1 DEF Memory
    <3> QED BY <3>1, <3>2, <3>3
  <2> QED BY <2>1, <2>2
<1>11. Unsent'
  <2> SUFFICES ASSUME NEW q \in Requested, q \notin Passed(out_item, out_off),
                      Sends(call[q[1]])
               PROVE  memory'[From(call[q[1]])][q[2]] = before[From(call[q[1]])][q[2]]
    BY <1>1, <1>6 DEF Unsent
  <2> DEFINE s == call[q[1]]
  <2>0. From(s) \in Buffers /\ q[2] \in 0 .. BufferSize - 1
    BY <1>3, <1>9, Requests, RequestBuffers
  <2>1. memory[From(s)][q[2]] = before[From(s)][q[2]]
    BY <1>3 DEF Unsent
  <2>2. CASE Receives(r) /\ Into(r) = From(s)
    <3>1. q[1] \in 1 .. Len(call)
      BY <1>9
    <3>2. ~(in_item < q[1])
      BY <1>3, <1>5, <2>2, <3>1, Apart
    <3>3. q # new
      BY <1>6
    <3>4. q[2] # in_off
      <4>1. /\ out_item \in Nat /\ in_item \in Nat /\ out_off \in Nat /\ in_off \in Nat
            /\ q[1] \in Nat /\ q[2] \in Nat
        BY <1>3, <1>9, Requests DEF Types, Place
      <4>2. ~(q[1] < out_item) /\ (q[1] = out_item => ~(q[2] < out_off))
        BY DEF Passed
      <4> QED BY <1>1, <3>2, <4>1, <4>2 DEF Behind
    <3> QED BY <1>10a, <2>0, <2>1, <3>4
  <2>3. CASE ~(Receives(r) /\ Into(r) = From(s))
    BY <1>10a, <2>0, <2>1, <2>3
  <2> QED BY <2>2, <2>3
<1>12. Landed'
  <2> SUFFICES ASSUME lost = 0, NEW q \in Passed(in_item, in_off) \cup {new},
                      Receives(call[q[1]])
               PROVE  memory'[Into(call[q[1]])][q[2]] = ByteOf(Device, At(q) + 1)
    BY <1>1, <1>6, <1>7 DEF Landed
  <2> DEFINE s == call[q[1]]
  <2>1. CASE q = new
    <3>1. b = ByteOf(Device, At(new) + 1)
      BY <1>1, <1>3, <1>4, <1>7 DEF Landed
    <3>2. s = r /\ q[2] = in_off
      BY <2>1
    <3>3. memory'[Into(r)][in_off] = b
      BY <1>5, <1>10, <2>1 DEF Memory
    <3> QED BY <2>1, <3>1, <3>2, <3>3
  <2>2. CASE q \in Passed(in_item, in_off)
    <3>0. Into(s) \in Buffers /\ q[2] \in 0 .. BufferSize - 1
      BY <1>3, <1>9, <2>2, Requests, RequestBuffers DEF Passed
    <3>1. memory[Into(s)][q[2]] = ByteOf(Device, At(q) + 1)
      BY <1>3, <2>2 DEF Landed
    <3>2. q \in Requested /\ q # new
      BY <1>6, <2>2 DEF Passed
    <3>3. CASE Receives(r) /\ Into(r) = Into(s)
      <4>1. q[1] = in_item
        BY <1>3, <1>5, <1>9, <3>2, <3>3, Apart
      <4>2. q[2] # in_off
        BY <1>9, <3>2, <4>1
      <4> QED BY <1>10a, <3>0, <3>1, <4>2
    <3>4. CASE ~(Receives(r) /\ Into(r) = Into(s))
      BY <1>10a, <3>0, <3>1, <3>4
    <3> QED BY <3>3, <3>4
  <2> QED BY <2>1, <2>2
<1> QED BY <1>8, <1>11, <1>12

LEMMA InterfaceData ==
    ASSUME DataInv, Shift \/ Exchange
    PROVE  InFlight' /\ Unsent' /\ Landed'
<1>1. UNCHANGED <<call, items, phase, progress, selected, memory, before>>
  BY DEF Shift, Exchange
<1>2. Types /\ Account /\ Quiet /\ InFlight /\ Unsent /\ Landed
  BY DEF DataInv, CountInv
<1>3. /\ Passed(in_item, in_off)' = Passed(in_item, in_off)
      /\ Passed(out_item, out_off)' = Passed(out_item, out_off)
      /\ Position(out_item, out_off)' = Position(out_item, out_off)
      /\ Position(in_item, in_off)' = Position(in_item, in_off)
      /\ Requested' = Requested
      /\ \A q : At(q)' = At(q)
      /\ \A q : AskedAt(q)' = AskedAt(q)
  BY <1>1, SamePlaces DEF progress, AskedAt, ByteAsked
<1>4. Unsent'
  BY <1>1, <1>2, <1>3 DEF Unsent
<1>5. ASSUME NEW q \in Passed(out_item, out_off)
      PROVE  At(q) \in Nat /\ At(q) + 1 <= Position(out_item, out_off)
  <2>1. out_item \in Nat /\ out_off \in Nat
    BY <1>2, Requests DEF Types, Place
  <2> QED BY <1>2, <2>1, PositionBelow, RequestedFinite DEF At
<1>6. /\ Len(seen) \in Nat /\ lost \in Nat /\ seen \in Seq(Byte)
      /\ Position(in_item, in_off) \in Nat
      /\ Position(out_item, out_off) = Len(seen) + Held(shift) + Held(tx)
      /\ Len(seen) = Position(in_item, in_off) + Held(rx) + lost
  BY <1>2, RequestedFinite DEF Types, Account
<1>7. CASE Shift
  <2>1. tx # {} /\ shift = {} /\ shift' = tx /\ tx' = {}
        /\ UNCHANGED <<rx, seen, lost>>
    BY <1>7 DEF Shift
  <2>2. Held(tx) = 1 /\ Held(shift) = 0
    BY <2>1 DEF Held
  <2>3. Position(out_item, out_off) = Len(seen) + 1
    BY <1>6, <2>2
  <2>4. InFlight'
    <3> SUFFICES ASSUME NEW q \in Passed(out_item, out_off)
                 PROVE  /\ At(q) < Len(seen) => seen[At(q) + 1] = AskedAt(q)
                        /\ At(q) = Len(seen) => tx = {AskedAt(q)}
      BY <1>3, <2>1 DEF InFlight
    <3> QED BY <1>2, <1>5, <1>6, <2>1, <2>3 DEF InFlight
  <2>5. Landed'
    BY <1>1, <1>2, <1>3, <2>1 DEF Landed
  <2> QED BY <1>4, <2>4, <2>5
<1>8. CASE Exchange
  <2>1. /\ shift # {} /\ shift' = {} /\ tx' = tx
        /\ \/ rx = {} /\ rx' = {ByteOf(Device, Len(seen) + 1)} /\ lost' = lost
           \/ rx # {} /\ lost' = lost + 1 /\ rx' = rx
    BY <1>8 DEF Exchange
  <2>2. selected
    BY <1>2, <2>1 DEF Quiet
  <2>3. PICK b \in shift : seen' = Append(seen, b)
    BY <1>8, <2>2 DEF Exchange
  <2>4. b \in Byte /\ shift = {b}
    BY <1>2 DEF Types, Register
  <2>5. /\ Len(seen') = Len(seen) + 1 /\ seen'[Len(seen) + 1] = b
        /\ \A k \in 1 .. Len(seen) : seen'[k] = seen[k]
    BY <1>6, <2>3, <2>4, AppendLast
  <2>6. InFlight'
    <3> SUFFICES ASSUME NEW q \in Passed(out_item, out_off)
                 PROVE  /\ At(q) < Len(seen') => seen'[At(q) + 1] = AskedAt(q)
                        /\ At(q) + 1 = Position(out_item, out_off) /\ tx # {}
                               => tx = {AskedAt(q)}
      BY <1>3, <2>1 DEF InFlight
    <3>1. /\ At(q) < Len(seen) => seen[At(q) + 1] = AskedAt(q)
          /\ At(q) = Len(seen) => shift = {AskedAt(q)}
          /\ At(q) + 1 = Position(out_item, out_off) /\ tx # {} => tx = {AskedAt(q)}
      BY <1>2, <2>1 DEF InFlight
    <3>2. At(q) \in Nat
      BY <1>5
    <3>3. CASE At(q) < Len(seen)
      <4>1. At(q) + 1 \in 1 .. Len(seen)
        BY <1>6, <3>2, <3>3
      <4> QED BY <2>5, <3>1, <3>3, <4>1
    <3>4. CASE At(q) = Len(seen)
      BY <2>4, <2>5, <3>1, <3>4
    <3>5. CASE At(q) > Len(seen)
      BY <1>6, <2>5, <3>1, <3>2, <3>5
    <3> QED BY <1>6, <3>2, <3>3, <3>4, <3>5
  <2>7. Landed'
    <3>1. CASE rx = {} /\ rx' = {ByteOf(Device, Len(seen) + 1)} /\ lost' = lost
      <4>1. lost = 0 => Len(seen) = Position(in_item, in_off)
        BY <1>6, <3>1 DEF Held
      <4> QED BY <1>1, <1>2, <1>3, <3>1, <4>1 DEF Landed
    <3>2. CASE lost' = lost + 1
      <4>1. lost' # 0
        BY <1>6, <3>2
      <4> QED BY <4>1 DEF Landed
    <3> QED BY <2>1, <3>1, <3>2
  <2> QED BY <1>4, <2>6, <2>7
<1> QED BY <1>7, <1>8

LEMMA LoopEndData ==
    ASSUME DataInv, SendLoopEnds \/ RecvLoopEnds
    PROVE  InFlight' /\ Unsent' /\ Landed'
<1>1. UNCHANGED <<call, items, progress, registers, seen, memory, before, lost>>
  BY DEF SendLoopEnds, RecvLoopEnds
<1>2. \A q : AskedAt(q)' = AskedAt(q)
  BY <1>1 DEF AskedAt, ByteAsked
<1>3. InFlight'
  BY <1>1, <1>2, SamePlaces DEF InFlight, DataInv, progress, registers
<1>4. Unsent'
  BY <1>1, SamePlaces DEF Unsent, DataInv, progress
<1>5. Landed'
  BY <1>1, SamePlaces DEF Landed, DataInv, progress, registers
<1> QED BY <1>3, <1>4, <1>5

(***************************************************************************)
(* The theorems.                                                           *)
(***************************************************************************)

\* Whatever the calls are, and however late the processor is, the transfer's
\* variables keep their types and every byte is accounted for.
THEOREM SpiInvariant == Spec => []CountInv
<1>1. Init => CountInv
  <2> SUFFICES ASSUME Init PROVE CountInv
    OBVIOUS
  <2>1. /\ call = <<>> /\ items = <<>> /\ phase = "idle"
        /\ out_item = 1 /\ out_off = 0 /\ in_item = 1 /\ in_off = 0
        /\ tx = {} /\ shift = {} /\ rx = {} /\ seen = <<>>
        /\ memory = [b \in Buffers |-> [n \in 0 .. BufferSize - 1 |-> ByteOf(b, n)]]
        /\ before = memory /\ lost = 0
    BY DEF Init, SpiInit
  <2>2. BufferSize \in Nat \ {0}
    BY SpiAssumption
  <2>3. Len(call) = 0 /\ DOMAIN call = {} /\ Len(items) = 0
    BY <2>1
  <2>4. Types
    <3>1. items = [i \in DOMAIN call |-> Operation(call[i])]
      BY <2>1, <2>3
    <3>2. Place(out_item, out_off) /\ Place(in_item, in_off)
      BY <2>1, <2>2, <2>3 DEF Place
    <3>3. \A b \in Buffers : \A n \in 0 .. BufferSize - 1 : ByteOf(b, n) \in Byte
      BY <2>2 DEF ByteOf, Byte
    <3>4. Memory(memory) /\ Memory(before)
      BY <2>1, <3>3 DEF Memory
    <3> QED BY <2>1, <3>1, <3>2, <3>4 DEF Types, Register
  <2>5. Account
    BY <2>1, <2>4, PositionEnds DEF Account, Held
  <2>6. Quiet
    BY <2>1, <2>3 DEF Quiet, MoreToDo
  <2> QED BY <2>4, <2>5, <2>6 DEF CountInv
<1>2. CountInv /\ [Next]_vars => CountInv'
  <2> SUFFICES ASSUME CountInv, [Next]_vars PROVE CountInv'
    OBVIOUS
  <2>1. CASE Still
    BY <2>1, StillInv
  <2>2. CASE Moves
    BY <2>2, StartCounts, SendByteCounts, LoopEndCounts, RecvByteCounts, ShiftCounts,
       ExchangeCounts DEF Moves
  <2> QED BY <2>1, <2>2, StepCases
<1> QED BY <1>1, <1>2, PTL DEF Spec

\* The receiver is behind the transmitter by the bytes in the interface and those
\* it lost, whatever the calls are (do_transmission).
THEOREM ReceiverIsBehind == Spec => []ReceiverBehind
<1>1. CountInv => ReceiverBehind
  <2> SUFFICES ASSUME CountInv
               PROVE  Position(out_item, out_off) - Position(in_item, in_off)
                          = Cardinality(tx) + Cardinality(shift) + Cardinality(rx) + lost
    BY DEF ReceiverBehind
  <2>1. /\ Held(tx) \in {0, 1} /\ Cardinality(tx) = Held(tx)
        /\ Held(shift) \in {0, 1} /\ Cardinality(shift) = Held(shift)
        /\ Held(rx) \in {0, 1} /\ Cardinality(rx) = Held(rx)
    BY Registers DEF CountInv, Types
  <2>2. /\ Position(out_item, out_off) \in Nat /\ Position(in_item, in_off) \in Nat
        /\ lost \in Nat /\ Len(seen) \in Nat
    BY RequestedFinite DEF CountInv, Types
  <2>3. /\ Position(out_item, out_off) = Len(seen) + Held(shift) + Held(tx)
        /\ Len(seen) = Position(in_item, in_off) + Held(rx) + lost
    BY DEF CountInv, Account
  <2> QED BY <2>1, <2>2, <2>3
<1> QED BY <1>1, SpiInvariant, PTL

\* When the requests of each call are apart, the bytes in the registers and in
\* memory are at any time those of their place.
THEOREM BytesKeepTheirPlace == CallsApart => (Spec => []DataInv)
<1> SUFFICES ASSUME CallsApart PROVE Spec => []DataInv
  OBVIOUS
<1>1. Init /\ CountInv => DataInv
  <2> SUFFICES ASSUME Init, CountInv PROVE DataInv
    OBVIOUS
  <2>1. /\ out_item = 1 /\ out_off = 0 /\ in_item = 1 /\ in_off = 0
        /\ rx = {} /\ before = memory
    BY DEF Init, SpiInit
  <2>2. Passed(1, 0) = {}
    BY PositionEnds DEF CountInv
  <2>3. Passed(out_item, out_off) = {} /\ Passed(in_item, in_off) = {}
    BY <2>1, <2>2
  <2> QED BY <2>1, <2>3 DEF DataInv, InFlight, Unsent, Landed
<1>2. DataInv /\ CountInv' /\ [Next]_vars => DataInv'
  <2> SUFFICES ASSUME DataInv, CountInv', [Next]_vars PROVE DataInv'
    OBVIOUS
  <2>0. CountInv /\ InFlight /\ Unsent /\ Landed
    BY DEF DataInv
  <2>1. CASE Still
    BY <2>0, <2>1, StillInv DEF DataInv
  <2>2. CASE Moves
    BY <2>0, <2>2, StartCounts, SendByteData, RecvByteData, InterfaceData, LoopEndData
       DEF Moves, DataInv
  <2> QED BY <2>1, <2>2, StepCases
<1> QED BY <1>1, <1>2, SpiInvariant, PTL DEF Spec

\* Then the device has seen what each call asked for, in order and nothing else,
\* when it returns (do_transmission).
THEOREM EveryByteIsSent == CallsApart => (Spec => []SentAsAsked)
<1> SUFFICES ASSUME CallsApart PROVE Spec => []SentAsAsked
  OBVIOUS
<1>1. DataInv => SentAsAsked
  <2> SUFFICES ASSUME DataInv, phase = "idle"
               PROVE  /\ Len(seen) = Cardinality(Requested)
                      /\ \A q \in Requested :
                             seen[Position(q[1], q[2]) + 1] = ByteAsked(call[q[1]], q[2])
    BY DEF SentAsAsked
  <2>1. CountInv /\ Types /\ InFlight
    BY DEF DataInv, CountInv
  <2>2. out_item = Len(call) + 1 /\ out_off = 0
    BY <2>1, Requests DEF CountInv, Quiet, MoreToDo, Types, Place
  <2>3. Passed(out_item, out_off) = Requested
    BY <2>1, <2>2, PositionEnds
  <2>4. Len(seen) = Cardinality(Requested) /\ Len(seen) \in Nat
    <3>1. Position(out_item, out_off) = Cardinality(Requested)
      BY <2>3 DEF Position
    <3>2. Held(shift) = 0 /\ Held(tx) = 0 /\ Len(seen) \in Nat
      BY <2>1 DEF CountInv, Quiet, Types, Held
    <3> QED BY <2>1, <3>1, <3>2 DEF CountInv, Account
  <2>5. ASSUME NEW q \in Requested PROVE seen[At(q) + 1] = AskedAt(q)
    <3>1. At(q) + 1 <= Position(out_item, out_off) /\ At(q) \in Nat
      BY <2>1, <2>2, <2>3, Requests, PositionBelow, RequestedFinite DEF At
    <3>2. At(q) < Len(seen)
      BY <2>3, <2>4, <3>1 DEF Position
    <3> QED BY <2>1, <2>3, <3>2 DEF InFlight
  <2> QED BY <2>4, <2>5 DEF At, AskedAt
<1> QED BY <1>1, BytesKeepTheirPlace, PTL

\* And every request that receives has the device's answers to its own bytes
\* (do_transmission).
THEOREM AnswersAreInPlace == CallsApart => (Spec => []ReceivedInPlace)
<1> SUFFICES ASSUME CallsApart PROVE Spec => []ReceivedInPlace
  OBVIOUS
<1>1. DataInv => ReceivedInPlace
  <2> SUFFICES ASSUME DataInv, phase = "idle", NEW q \in Requested, Receives(call[q[1]])
               PROVE  memory[Into(call[q[1]])][q[2]] = ByteOf(Device, At(q) + 1)
    BY DEF ReceivedInPlace, At
  <2>1. CountInv /\ Types /\ Landed
    BY DEF DataInv, CountInv
  <2>2. in_item = Len(call) + 1 /\ in_off = 0
    BY <2>1, Requests DEF CountInv, Quiet, MoreToDo, Types, Place
  <2>3. Passed(in_item, in_off) = Requested
    BY <2>1, <2>2, PositionEnds
  <2>4. lost = 0
    BY <2>1 DEF CountInv, Quiet
  <2> QED BY <2>1, <2>3, <2>4 DEF Landed
<1> QED BY <1>1, BytesKeepTheirPlace, PTL
-----------------------------------------------------------------------------
(***************************************************************************)
(* The clocks that setup() makes.  The step it is at says everything of    *)
(* the clock configuration: what has been written to it, that the system   *)
(* clock already runs from the source that was asked for last, and that    *)
(* the PLL is off for as long as its settings are written.                 *)
(***************************************************************************)
Fields == {"sw", "ahb_pre", "apb1_pre", "apb2_pre", "adc_pre", "pll_mul", "pll_src",
           "pll_xt_pre"}
Config(c, n) ==
    /\ DOMAIN c = Fields
    /\ c["sw"] = IF n <= 6 THEN "hsi" ELSE IF n <= 17 THEN "hse" ELSE "pll"
    /\ c["ahb_pre"] = 0 /\ c["apb2_pre"] = 0
    /\ c["apb1_pre"] = IF n <= 9 THEN 0 ELSE 4
    /\ c["adc_pre"] = IF n <= 8 THEN 0 ELSE 3
    /\ c["pll_mul"] = IF n <= 12 THEN 0 ELSE 7
    /\ c["pll_src"] = IF n <= 13 THEN "hsi" ELSE "hse"
    /\ c["pll_xt_pre"] = FALSE

SetupInv ==
    /\ at \in 1 .. 33
    /\ Config(cfgr, at) /\ sysclk = cfgr.sw
    /\ ws = IF at <= 11 THEN 0 ELSE 2
    /\ "hsi" \in ready
    /\ at > 5 => "hse" \in ready
    /\ at > 16 => "pll" \in ready
    /\ at <= 15 => "pll" \notin on

\* A crystal of 8 MHz and a terminal below 2.88 Mbaud; and what init() then divides by.
Terminal == Hse = 80000 /\ Baud < 28800
Divider == (720000 + Baud \div 2) \div Baud

\* What USART 1 has been set up with, and what it has been given.  The terminal has
\* read all of that but the byte that waits.
ConsoleInv ==
    /\ SetupInv
    /\ rcc_gpio_en \subseteq enabled
    /\ pins \in [DOMAIN Bank -> {"floating", "input", "output", "alternate"}]
    /\ at > 18 => pins["pa9"] = "alternate"
    /\ at > 19 => "usart1" \in enabled
    /\ at > 20 => usart = [baud |-> Divider, on |-> TRUE]
    /\ sends \in Nat /\ (sends > 0 => Done)
    /\ \/ tdr = <<>> /\ console = [i \in 1 .. sends |-> i]
       \/ sends > 0 /\ tdr = <<sends>> /\ console = [i \in 1 .. sends - 1 |-> i]

\* The steps of setup().
LEMMA SetupSteps ==
    /\ Len(Setup) = 32
    /\ Setup[1] = <<"osc_on", "hsi">> /\ Setup[2] = <<"wait_osc_on", "hsi">>
    /\ Setup[3] = <<"sw", "hsi">> /\ Setup[4] = <<"osc_on", "hse">>
    /\ Setup[5] = <<"wait_osc_on", "hse">> /\ Setup[6] = <<"sw", "hse">>
    /\ Setup[7] = <<"ahb_pre", 0>> /\ Setup[8] = <<"adc_pre", 3>>
    /\ Setup[9] = <<"apb1_pre", 4>> /\ Setup[10] = <<"apb2_pre", 0>>
    /\ Setup[11] = <<"ws", 2>> /\ Setup[12] = <<"pll_mul", 7>>
    /\ Setup[13] = <<"pll_src", "hse">> /\ Setup[14] = <<"pll_xt_pre", FALSE>>
    /\ Setup[15] = <<"osc_on", "pll">> /\ Setup[16] = <<"wait_osc_on", "pll">>
    /\ Setup[17] = <<"sw", "pll">>
    /\ Setup[18] = <<"gpio", "pa9">> /\ Setup[19] = <<"enable", "usart1">>
    /\ Setup[20] = <<"usart", 1>>
    /\ \A i \in 21 .. 32 :
           /\ Setup[i][1] \in {"gpio", "enable", "spi", "set"}
           /\ Setup[i][1] = "gpio" => Setup[i][2] \in DOMAIN Bank \ {"pa9"}
<1> DEFINE pins1 == [i \in 1 .. 3 |-> <<"gpio", SpiPins[1][i]>>]
           pins2 == [i \in 1 .. 3 |-> <<"gpio", SpiPins[2][i]>>]
           rest1 == <<<<"enable", "spi1">>, <<"spi", 1>>>>
           rest2 == <<<<"enable", "spi2">>, <<"spi", 2>>>>
           S == {ClockSetup[i] : i \in 1 .. 17} \cup {UsartInit[i] : i \in 1 .. 3}
                \cup {pins1[i] : i \in 1 .. 3} \cup {pins2[i] : i \in 1 .. 3}
                \cup {rest1[i] : i \in 1 .. 2} \cup {rest2[i] : i \in 1 .. 2}
                \cup {SpiDev[i] : i \in 1 .. 2}
<1>1. ASSUME NEW a \in Seq(S), NEW b \in Seq(S)
      PROVE  /\ a \o b \in Seq(S) /\ Len(a \o b) = Len(a) + Len(b)
             /\ \A i \in 1 .. Len(a) : (a \o b)[i] = a[i]
             /\ \A i \in 1 .. Len(b) : (a \o b)[Len(a) + i] = b[i]
  <2> HIDE DEF S
  <2> QED OBVIOUS
<1>2. /\ pins1[1] = <<"gpio", "pa5">> /\ pins1[2] = <<"gpio", "pa6">>
      /\ pins1[3] = <<"gpio", "pa7">> /\ pins2[1] = <<"gpio", "pb13">>
      /\ pins2[2] = <<"gpio", "pb14">> /\ pins2[3] = <<"gpio", "pb15">>
  BY DEF SpiPins
<1>3. /\ \A i \in 1 .. 17 : ClockSetup[i] \in S
      /\ \A i \in 1 .. 3 : UsartInit[i] \in S /\ pins1[i] \in S /\ pins2[i] \in S
      /\ \A i \in 1 .. 2 : rest1[i] \in S /\ rest2[i] \in S /\ SpiDev[i] \in S
  <2> HIDE DEF pins1, pins2, rest1, rest2
  <2> QED OBVIOUS
<1> HIDE DEF S
<1>4. /\ ClockSetup \in Seq(S) /\ UsartInit \in Seq(S) /\ SpiDev \in Seq(S)
      /\ pins1 \in Seq(S) /\ pins2 \in Seq(S) /\ rest1 \in Seq(S) /\ rest2 \in Seq(S)
  <2>1. ClockSetup \in Seq(S)
    BY <1>3 DEF ClockSetup
  <2>2. UsartInit \in Seq(S) /\ SpiDev \in Seq(S)
    BY <1>3 DEF UsartInit, SpiDev
  <2>3. pins1 \in Seq(S) /\ pins2 \in Seq(S) /\ rest1 \in Seq(S) /\ rest2 \in Seq(S)
    BY <1>3
  <2> QED BY <2>1, <2>2, <2>3
<1>5. /\ Len(ClockSetup) = 17 /\ Len(UsartInit) = 3 /\ Len(SpiDev) = 2
      /\ Len(pins1) = 3 /\ Len(pins2) = 3 /\ Len(rest1) = 2 /\ Len(rest2) = 2
  <2>1. Len(ClockSetup) = 17
    BY DEF ClockSetup
  <2>2. Len(UsartInit) = 3 /\ Len(SpiDev) = 2
    BY DEF UsartInit, SpiDev
  <2>3. Len(pins1) = 3 /\ Len(pins2) = 3 /\ Len(rest1) = 2 /\ Len(rest2) = 2
    OBVIOUS
  <2> QED BY <2>1, <2>2, <2>3
<1>6. /\ rest1[1] = <<"enable", "spi1">> /\ rest1[2] = <<"spi", 1>>
      /\ rest2[1] = <<"enable", "spi2">> /\ rest2[2] = <<"spi", 2>>
  OBVIOUS
<1> HIDE DEF pins1, pins2, rest1, rest2
<1> DEFINE spi1 == pins1 \o rest1
           spi2 == pins2 \o rest2
           upto20 == ClockSetup \o UsartInit
           upto25 == upto20 \o spi1
           upto30 == upto25 \o spi2
<1>7. Setup = upto30 \o SpiDev
  BY DEF Setup, SpiSetup, pins1, pins2, rest1, rest2
<1>8. /\ Len(spi1) = 5 /\ spi1[1] = pins1[1] /\ spi1[2] = pins1[2] /\ spi1[3] = pins1[3]
      /\ spi1[4] = rest1[1] /\ spi1[5] = rest1[2] /\ spi1 \in Seq(S)
      /\ Len(spi2) = 5 /\ spi2[1] = pins2[1] /\ spi2[2] = pins2[2] /\ spi2[3] = pins2[3]
      /\ spi2[4] = rest2[1] /\ spi2[5] = rest2[2] /\ spi2 \in Seq(S)
  <2>1. /\ spi1 \in Seq(S) /\ Len(spi1) = Len(pins1) + Len(rest1)
        /\ \A i \in 1 .. Len(pins1) : spi1[i] = pins1[i]
        /\ \A i \in 1 .. Len(rest1) : spi1[Len(pins1) + i] = rest1[i]
    BY <1>1, <1>4
  <2>2. /\ spi2 \in Seq(S) /\ Len(spi2) = Len(pins2) + Len(rest2)
        /\ \A i \in 1 .. Len(pins2) : spi2[i] = pins2[i]
        /\ \A i \in 1 .. Len(rest2) : spi2[Len(pins2) + i] = rest2[i]
    BY <1>1, <1>4
  <2> HIDE DEF spi1, spi2
  <2>3. /\ Len(spi1) = 3 + 2 /\ \A i \in 1 .. 3 : spi1[i] = pins1[i]
        /\ \A i \in 1 .. 2 : spi1[3 + i] = rest1[i]
    BY <1>5, <2>1
  <2>4. /\ Len(spi2) = 3 + 2 /\ \A i \in 1 .. 3 : spi2[i] = pins2[i]
        /\ \A i \in 1 .. 2 : spi2[3 + i] = rest2[i]
    BY <1>5, <2>2
  <2>5. spi1[3 + 1] = rest1[1] /\ spi1[3 + 2] = rest1[2]
    BY <2>3
  <2>6. spi2[3 + 1] = rest2[1] /\ spi2[3 + 2] = rest2[2]
    BY <2>4
  <2>7. /\ spi1[1] = pins1[1] /\ spi1[2] = pins1[2] /\ spi1[3] = pins1[3]
        /\ spi2[1] = pins2[1] /\ spi2[2] = pins2[2] /\ spi2[3] = pins2[3]
    BY <2>3, <2>4
  <2>8. Len(spi1) = 5 /\ Len(spi2) = 5
    BY <2>3, <2>4
  <2>9. spi1[4] = rest1[1] /\ spi1[5] = rest1[2]
    BY <2>5
  <2>10. spi2[4] = rest2[1] /\ spi2[5] = rest2[2]
    BY <2>6
  <2> HIDE DEF upto20, upto25, upto30
  <2> QED BY <2>1, <2>2, <2>7, <2>8, <2>9, <2>10
<1> HIDE DEF spi1, spi2
<1>9. /\ upto20 \in Seq(S) /\ Len(upto20) = 20
      /\ \A i \in 1 .. 17 : upto20[i] = ClockSetup[i]
      /\ \A i \in 1 .. 3 : upto20[17 + i] = UsartInit[i]
  <2>1. /\ upto20 \in Seq(S) /\ Len(upto20) = Len(ClockSetup) + Len(UsartInit)
        /\ \A i \in 1 .. Len(ClockSetup) : upto20[i] = ClockSetup[i]
        /\ \A i \in 1 .. Len(UsartInit) : upto20[Len(ClockSetup) + i] = UsartInit[i]
    BY <1>1, <1>4
  <2> HIDE DEF upto20
  <2> QED BY <1>5, <2>1
<1> HIDE DEF upto20
<1>10. /\ upto25 \in Seq(S) /\ Len(upto25) = 25
       /\ \A i \in 1 .. 20 : upto25[i] = upto20[i]
       /\ \A i \in 1 .. 5 : upto25[20 + i] = spi1[i]
  <2>1. /\ upto25 \in Seq(S) /\ Len(upto25) = Len(upto20) + Len(spi1)
        /\ \A i \in 1 .. Len(upto20) : upto25[i] = upto20[i]
        /\ \A i \in 1 .. Len(spi1) : upto25[Len(upto20) + i] = spi1[i]
    <3>1. upto20 \in Seq(S) /\ spi1 \in Seq(S)
      BY <1>8, <1>9
    <3> QED BY <1>1, <3>1
  <2> HIDE DEF upto25
  <2> QED BY <1>8, <1>9, <2>1
<1> HIDE DEF upto25
<1>11. /\ upto30 \in Seq(S) /\ Len(upto30) = 30
       /\ \A i \in 1 .. 25 : upto30[i] = upto25[i]
       /\ \A i \in 1 .. 5 : upto30[25 + i] = spi2[i]
  <2>1. /\ upto30 \in Seq(S) /\ Len(upto30) = Len(upto25) + Len(spi2)
        /\ \A i \in 1 .. Len(upto25) : upto30[i] = upto25[i]
        /\ \A i \in 1 .. Len(spi2) : upto30[Len(upto25) + i] = spi2[i]
    <3>1. upto25 \in Seq(S) /\ spi2 \in Seq(S)
      BY <1>8, <1>10
    <3> QED BY <1>1, <3>1
  <2> HIDE DEF upto30
  <2> QED BY <1>8, <1>10, <2>1
<1> HIDE DEF upto30
<1>12. /\ Len(Setup) = 32
       /\ \A i \in 1 .. 30 : Setup[i] = upto30[i]
       /\ \A i \in 1 .. 2 : Setup[30 + i] = SpiDev[i]
  <2>1. /\ Len(Setup) = Len(upto30) + Len(SpiDev)
        /\ \A i \in 1 .. Len(upto30) : Setup[i] = upto30[i]
        /\ \A i \in 1 .. Len(SpiDev) : Setup[Len(upto30) + i] = SpiDev[i]
    <3>1. upto30 \in Seq(S) /\ SpiDev \in Seq(S)
      BY <1>4, <1>11
    <3> QED BY <1>1, <1>7, <3>1
  <2> QED BY <1>5, <1>11, <2>1
<1>13. /\ \A i \in 1 .. 17 : Setup[i] = ClockSetup[i]
       /\ Setup[18] = UsartInit[1] /\ Setup[19] = UsartInit[2] /\ Setup[20] = UsartInit[3]
       /\ Setup[21] = pins1[1] /\ Setup[22] = pins1[2] /\ Setup[23] = pins1[3]
       /\ Setup[24] = rest1[1] /\ Setup[25] = rest1[2]
       /\ Setup[26] = pins2[1] /\ Setup[27] = pins2[2] /\ Setup[28] = pins2[3]
       /\ Setup[29] = rest2[1] /\ Setup[30] = rest2[2]
       /\ Setup[31] = SpiDev[1] /\ Setup[32] = SpiDev[2]
  <2>1. /\ upto20[17 + 1] = UsartInit[1] /\ upto20[17 + 2] = UsartInit[2]
        /\ upto20[17 + 3] = UsartInit[3]
    BY <1>9
  <2>2. /\ upto25[20 + 1] = spi1[1] /\ upto25[20 + 2] = spi1[2] /\ upto25[20 + 3] = spi1[3]
        /\ upto25[20 + 4] = spi1[4] /\ upto25[20 + 5] = spi1[5]
    BY <1>10
  <2>3. /\ upto30[25 + 1] = spi2[1] /\ upto30[25 + 2] = spi2[2] /\ upto30[25 + 3] = spi2[3]
        /\ upto30[25 + 4] = spi2[4] /\ upto30[25 + 5] = spi2[5]
    BY <1>11
  <2>4. Setup[30 + 1] = SpiDev[1] /\ Setup[30 + 2] = SpiDev[2]
    BY <1>12
  <2>5. /\ \A i \in 1 .. 25 : Setup[i] = upto25[i]
        /\ \A i \in 1 .. 20 : Setup[i] = upto20[i]
    BY <1>10, <1>11, <1>12
  <2>6. \A i \in 1 .. 17 : Setup[i] = ClockSetup[i]
    <3>1. ASSUME NEW i \in 1 .. 17 PROVE upto20[i] = ClockSetup[i] /\ i \in 1 .. 20
      BY <1>9
    <3> QED BY <2>5, <3>1
  <2>7. Setup[18] = UsartInit[1] /\ Setup[19] = UsartInit[2] /\ Setup[20] = UsartInit[3]
    BY <2>1, <2>5
  <2>8. /\ Setup[21] = pins1[1] /\ Setup[22] = pins1[2] /\ Setup[23] = pins1[3]
        /\ Setup[24] = rest1[1] /\ Setup[25] = rest1[2]
    BY <1>8, <2>2, <2>5
  <2>9. /\ Setup[26] = upto30[26] /\ Setup[27] = upto30[27] /\ Setup[28] = upto30[28]
        /\ Setup[29] = upto30[29] /\ Setup[30] = upto30[30]
    BY <1>12
  <2>10. /\ Setup[26] = pins2[1] /\ Setup[27] = pins2[2] /\ Setup[28] = pins2[3]
         /\ Setup[29] = rest2[1] /\ Setup[30] = rest2[2]
    BY <1>8, <2>3, <2>9
  <2> QED BY <2>4, <2>6, <2>7, <2>8, <2>10
<1>14. /\ Setup[18] = <<"gpio", "pa9">> /\ Setup[19] = <<"enable", "usart1">>
       /\ Setup[20] = <<"usart", 1>>
  BY <1>13 DEF UsartInit
<1>15. /\ Setup[21] = <<"gpio", "pa5">> /\ Setup[22] = <<"gpio", "pa6">>
       /\ Setup[23] = <<"gpio", "pa7">> /\ Setup[24] = <<"enable", "spi1">>
       /\ Setup[25] = <<"spi", 1>> /\ Setup[26] = <<"gpio", "pb13">>
       /\ Setup[27] = <<"gpio", "pb14">> /\ Setup[28] = <<"gpio", "pb15">>
       /\ Setup[29] = <<"enable", "spi2">> /\ Setup[30] = <<"spi", 2>>
  BY <1>2, <1>6, <1>13
<1>16. Setup[31] = <<"gpio", "pa2">> /\ Setup[32] = <<"set", "pa2">>
  BY <1>13 DEF SpiDev
<1>17. ASSUME NEW i \in 21 .. 32
       PROVE  /\ Setup[i][1] \in {"gpio", "enable", "spi", "set"}
              /\ Setup[i][1] = "gpio" => Setup[i][2] \in DOMAIN Bank \ {"pa9"}
  <2>1. \/ i = 21 \/ i = 22 \/ i = 23 \/ i = 24 \/ i = 25 \/ i = 26
        \/ i = 27 \/ i = 28 \/ i = 29 \/ i = 30 \/ i = 31 \/ i = 32
    OBVIOUS
  <2>2. {"pa2", "pa5", "pa6", "pa7", "pb13", "pb14", "pb15"} \subseteq DOMAIN Bank \ {"pa9"}
    BY DEF Bank
  <2> QED BY <1>15, <1>16, <2>1, <2>2
<1>18. \A i \in 1 .. 17 : Setup[i] = ClockSetup[i]
  BY <1>13
<1>19. /\ Setup[1] = <<"osc_on", "hsi">>
       /\ Setup[2] = <<"wait_osc_on", "hsi">>
       /\ Setup[3] = <<"sw", "hsi">>
  BY <1>18 DEF ClockSetup
<1>20. /\ Setup[4] = <<"osc_on", "hse">>
       /\ Setup[5] = <<"wait_osc_on", "hse">>
       /\ Setup[6] = <<"sw", "hse">>
  BY <1>18 DEF ClockSetup
<1>21. /\ Setup[7] = <<"ahb_pre", 0>>
       /\ Setup[8] = <<"adc_pre", 3>>
       /\ Setup[9] = <<"apb1_pre", 4>>
  BY <1>18 DEF ClockSetup
<1>22. /\ Setup[10] = <<"apb2_pre", 0>>
       /\ Setup[11] = <<"ws", 2>>
       /\ Setup[12] = <<"pll_mul", 7>>
  BY <1>18 DEF ClockSetup
<1>23. /\ Setup[13] = <<"pll_src", "hse">>
       /\ Setup[14] = <<"pll_xt_pre", FALSE>>
       /\ Setup[15] = <<"osc_on", "pll">>
  <2>1. Setup[13] = ClockSetup[13] /\ Setup[14] = ClockSetup[14] /\ Setup[15] = ClockSetup[15]
    BY <1>18
  <2>2. Setup[13] = <<"pll_src", "hse">> /\ Setup[15] = <<"osc_on", "pll">>
    BY <2>1 DEF ClockSetup
  <2>3. Setup[14] = <<"pll_xt_pre", FALSE>>
    BY <2>1 DEF ClockSetup
  <2> QED BY <2>2, <2>3
<1>24. /\ Setup[16] = <<"wait_osc_on", "pll">>
       /\ Setup[17] = <<"sw", "pll">>
  BY <1>18 DEF ClockSetup
<1> QED BY <1>12, <1>14, <1>17, <1>19, <1>20, <1>21, <1>22, <1>23, <1>24

\* A step of setup().
LEMMA SetupMoves ==
    ASSUME SetupInv, SetupStep
    PROVE  ~Done /\ at \in 1 .. 32 /\ at' = at + 1
<1>1. ~Done
  BY DEF SetupStep, OscOn, WaitOscOn, SetCfgr, SetWaitStates, SetPeriphEnable,
         GpioSetup, GpioSet, SetUsart, SetSpi, Here
<1> QED BY <1>1, SetupSteps DEF SetupInv, SetupStep, Done

LEMMA SetupPreserves ==
    ASSUME SetupInv, SetupStep
    PROVE  SetupInv'
<1>1. ~Done /\ at \in 1 .. 32 /\ at' = at + 1
  BY SetupMoves
<1> DEFINE f == Setup[at][1]
<1>2. \/ OscOn /\ f = "osc_on"
      \/ WaitOscOn /\ f = "wait_osc_on"
      \/ SetCfgr /\ f \in DOMAIN Cfgr
      \/ SetWaitStates /\ f = "ws"
      \/ /\ UNCHANGED <<on, ready, cfgr, sysclk, ws>>
         /\ f \in {"enable", "gpio", "set", "usart", "spi"}
  BY DEF SetupStep, OscOn, WaitOscOn, SetCfgr, SetWaitStates, SetPeriphEnable, GpioSetup,
         GpioSet, SetUsart, SetSpi, Here, clocks
<1>3. CASE OscOn /\ f = "osc_on"
  <2>1. at \in {1, 4, 15}
    BY <1>1, <1>3, SetupSteps
  <2>2. /\ on' = on \cup {Arg} /\ UNCHANGED <<ready, cfgr, sysclk, ws>>
    BY <1>3 DEF OscOn
  <2>3. Arg = "pll" => at = 15
    BY <2>1, SetupSteps DEF Arg
  <2>4. Config(cfgr, at) => Config(cfgr, at')
    BY <1>1, <2>1 DEF Config
  <2> QED BY <1>1, <2>1, <2>2, <2>3, <2>4 DEF SetupInv
<1>4. CASE WaitOscOn /\ f = "wait_osc_on"
  <2>1. at \in {2, 5, 16}
    BY <1>1, <1>4, SetupSteps
  <2>2. Arg \in ready /\ UNCHANGED <<on, ready, cfgr, sysclk, ws>>
    BY <1>4 DEF WaitOscOn, clocks
  <2>3. (at = 5 => Arg = "hse") /\ (at = 16 => Arg = "pll")
    BY SetupSteps DEF Arg
  <2>4. Config(cfgr, at) => Config(cfgr, at')
    BY <1>1, <2>1 DEF Config
  <2> QED BY <1>1, <2>1, <2>2, <2>3, <2>4 DEF SetupInv
<1>5. CASE SetCfgr /\ f \in DOMAIN Cfgr
  <2>1. at \in {3, 6, 7, 8, 9, 10, 12, 13, 14, 17}
    BY <1>1, <1>5, SetupSteps DEF Cfgr
  <2>2. PICK field \in DOMAIN Cfgr :
            /\ f = field
            /\ cfgr' = IF field \in {"pll_mul", "pll_src", "pll_xt_pre"} /\ "pll" \in on
                       THEN cfgr ELSE [cfgr EXCEPT ![field] = Arg]
            /\ sysclk' = IF cfgr'.sw \in ready THEN cfgr'.sw ELSE sysclk
            /\ UNCHANGED <<on, ready, ws>>
    BY <1>5 DEF SetCfgr, Here
  <2>3. f \in {"pll_mul", "pll_src", "pll_xt_pre"} => "pll" \notin on
    BY <2>1, SetupSteps DEF SetupInv
  <2>4. /\ DOMAIN cfgr' = Fields
        /\ \A x \in Fields : cfgr'[x] = IF x = f THEN Arg ELSE cfgr[x]
    <3>1. DOMAIN cfgr = Fields /\ cfgr' = [cfgr EXCEPT ![f] = Arg]
      BY <2>2, <2>3 DEF SetupInv, Config
    <3> QED BY <3>1
  <2>5. Config(cfgr', at')
    <3>1. Config(cfgr, at)
      BY DEF SetupInv
    <3>2. /\ at = 3 => f = "sw" /\ Arg = "hsi"
          /\ at = 6 => f = "sw" /\ Arg = "hse"
          /\ at = 7 => f = "ahb_pre" /\ Arg = 0
          /\ at = 8 => f = "adc_pre" /\ Arg = 3
          /\ at = 9 => f = "apb1_pre" /\ Arg = 4
          /\ at = 10 => f = "apb2_pre" /\ Arg = 0
          /\ at = 12 => f = "pll_mul" /\ Arg = 7
          /\ at = 13 => f = "pll_src" /\ Arg = "hse"
          /\ at = 17 => f = "sw" /\ Arg = "pll"
      BY SetupSteps DEF Arg
    <3>3. at = 14 => f = "pll_xt_pre" /\ Arg = FALSE
      <4>1. Setup[14] = <<"pll_xt_pre", FALSE>>
        BY SetupSteps
      <4>2. Setup[14][1] = "pll_xt_pre" /\ Setup[14][2] = FALSE
        BY <4>1
      <4> QED BY <4>2, Zenon DEF Arg
    <3> HIDE DEF f
    <3>4. CASE at \in {3, 6, 17}
      BY <1>1, <2>4, <3>1, <3>2, <3>4 DEF Config, Fields
    <3>5. CASE at \in {7, 8, 9}
      BY <1>1, <2>4, <3>1, <3>2, <3>5 DEF Config, Fields
    <3>6. CASE at \in {10, 12, 13}
      BY <1>1, <2>4, <3>1, <3>2, <3>6 DEF Config, Fields
    <3>7. CASE at = 14
      BY <1>1, <2>4, <3>1, <3>3, <3>7 DEF Config, Fields
    <3> QED BY <2>1, <3>4, <3>5, <3>6, <3>7
  <2>6. sysclk' = cfgr'.sw
    <3>1. cfgr'.sw = IF at <= 5 THEN "hsi" ELSE IF at <= 16 THEN "hse" ELSE "pll"
      BY <1>1, <2>5 DEF Config
    <3> QED BY <2>1, <2>2, <3>1 DEF SetupInv
  <2> QED BY <1>1, <2>1, <2>2, <2>5, <2>6 DEF SetupInv
<1>6. CASE SetWaitStates /\ f = "ws"
  <2>1. at = 11
    BY <1>1, <1>6, SetupSteps
  <2>2. ws' = 2 /\ UNCHANGED <<on, ready, cfgr, sysclk>>
    BY <1>6, <2>1, SetupSteps DEF SetWaitStates, Arg
  <2>3. Config(cfgr, at) => Config(cfgr, at')
    BY <1>1, <2>1 DEF Config
  <2> QED BY <1>1, <2>1, <2>2, <2>3 DEF SetupInv
<1>7. CASE /\ UNCHANGED <<on, ready, cfgr, sysclk, ws>>
           /\ f \in {"enable", "gpio", "set", "usart", "spi"}
  <2>1. at > 17
    BY <1>1, <1>7, SetupSteps
  <2>2. Config(cfgr, at) => Config(cfgr, at')
    BY <1>1, <2>1 DEF Config
  <2> QED BY <1>1, <1>7, <2>1, <2>2 DEF SetupInv
<1> QED BY <1>2, <1>3, <1>4, <1>5, <1>6, <1>7

\* What a configuration that setup() goes through gives.
LEMMA Rates ==
    ASSUME SetupInv, Hse \in Nat, Hsi \in Nat
    PROVE  /\ SysClk = IF at <= 6 THEN Hsi ELSE IF at <= 17 THEN Hse ELSE Hse * 9
           /\ Ahb = SysClk
           /\ Apb(cfgr.apb1_pre) = IF at <= 9 THEN Ahb ELSE Ahb \div 2
           /\ Apb(cfgr.apb2_pre) = Ahb
           /\ Adc = IF at <= 8 THEN Ahb \div 2 ELSE Ahb \div 8
<1>1. /\ at \in 1 .. 33 /\ Config(cfgr, at) /\ sysclk = cfgr.sw
  BY DEF SetupInv
<1>2. PllClock = IF at > 17 THEN Hse * 9 ELSE PllClock
  BY <1>1 DEF PllClock, Config
<1>3. SysClk = IF at <= 6 THEN Hsi ELSE IF at <= 17 THEN Hse ELSE Hse * 9
  BY <1>1, <1>2 DEF SysClk, Config
<1>4. SysClk \in Nat
  BY <1>3
<1>5. Ahb = SysClk
  BY <1>1, <1>4 DEF Ahb, Config
<1>6. Apb(cfgr.apb2_pre) = Ahb
  BY <1>1, <1>4, <1>5 DEF Apb, Config
<1>7. Apb(cfgr.apb1_pre) = IF at <= 9 THEN Ahb ELSE Ahb \div 2
  BY <1>1, <1>4, <1>5 DEF Apb, Config
<1>8. Adc = IF at <= 8 THEN Ahb \div 2 ELSE Ahb \div 8
  BY <1>1, <1>6 DEF Adc, Config
<1> QED BY <1>3, <1>5, <1>6, <1>7, <1>8

\* Nothing but setup() and an oscillator that settles changes a clock.
LEMMA StepSetupInv == SetupInv /\ [Next]_vars => SetupInv'
<1> SUFFICES ASSUME SetupInv, [Next]_vars PROVE SetupInv'
  OBVIOUS
<1>1. CASE SetupStep
  BY <1>1, SetupPreserves
<1>2. CASE \E o \in Oscillators : Settles(o)
  <2>1. PICK o \in Oscillators :
            /\ o \in on \ ready /\ ready' = ready \cup {o}
            /\ sysclk' = IF cfgr.sw = o THEN o ELSE sysclk
            /\ UNCHANGED <<at, on, cfgr, ws>>
    BY <1>2 DEF Settles
  <2> QED BY <2>1 DEF SetupInv
<1>3. CASE UNCHANGED <<at, clocks>>
  BY <1>3 DEF SetupInv, clocks
<1> QED BY <1>1, <1>2, <1>3 DEF Next, Processor, Call, UsartSend, ByteOut, ByteIn, UsartShifts,
                                Outside, vars

\* Everything starts as a reset leaves it.
LEMMA InitSetupInv == Init => SetupInv
BY DEF Init, SetupInv, Config, Cfgr, Fields

\* The multiple of b nearest to c.
Nearest(c, b) == ((c + b \div 2) \div b) * b

\* It is no further than half of b.
LEMMA NearestIsNear ==
    ASSUME NEW c \in Nat, NEW b \in Nat \ {0}
    PROVE  /\ Nearest(c, b) \in Nat
           /\ 2 * Nearest(c, b) <= 2 * c + b /\ 2 * c <= 2 * Nearest(c, b) + b
<1> DEFINE a == c + b \div 2
           n == a \div b
           r == a % b
           x == n * b
<1>1. a \in Nat /\ 2 * a <= 2 * c + b /\ 2 * c + b <= 2 * a + 1
  OBVIOUS
<1> HIDE DEF a
<1>2. n \in Nat /\ r \in 0 .. b - 1 /\ a = (b * n) + r
  BY <1>1, DivMod
<1> HIDE DEF n, r
<1>3. x \in Nat /\ a = x + r
  BY <1>2
<1> HIDE DEF x
<1>4. x \in Nat /\ 2 * x <= 2 * c + b /\ 2 * c <= 2 * x + b
  BY <1>1, <1>2, <1>3
<1> QED BY <1>4 DEF x, n, a, Nearest

\* The baud rate that the divider gives is within 2 % of the terminal's.
LEMMA DividerFits ==
    ASSUME Terminal
    PROVE  LET error == Divider * Baud - (Hse * 9) IN
           error \in Int /\ 50 * error < Hse * 9 /\ -50 * error < Hse * 9
<1> DEFINE c == Hse * 9
           x == Nearest(c, Baud)
<1>1. c \in Nat /\ Baud \in Nat \ {0} /\ c = 720000
  BY Stm32Assumption, SMT DEF Terminal
<1>2. x = Divider * Baud
  BY <1>1, SMT DEF Divider, Nearest
<1> HIDE DEF c
<1>3. x \in Nat /\ 2 * x <= 2 * c + Baud /\ 2 * c <= 2 * x + Baud
  BY <1>1, NearestIsNear
<1> HIDE DEF x
<1>4. Baud < 28800
  BY DEF Terminal
<1>5. x - c \in Int /\ 50 * (x - c) < c /\ -50 * (x - c) < c
  BY <1>1, <1>3, <1>4, SMT
<1> QED BY <1>2, <1>5 DEF c

\* A step of setup() on USART 1.
LEMMA SetupSerial ==
    ASSUME ConsoleInv, SetupStep, SetupInv'
    PROVE  ConsoleInv'
<1>1. ~Done /\ at \in 1 .. 32 /\ at' = at + 1 /\ UNCHANGED <<tdr, console, sends>>
  BY SetupMoves DEF ConsoleInv, SetupStep, serial
<1>2. sends = 0 /\ tdr = <<>> /\ console = [i \in 1 .. sends |-> i]
  BY <1>1 DEF ConsoleInv
<1> DEFINE f == Setup[at][1]
           Banks == /\ rcc_gpio_en' \subseteq enabled'
                    /\ pins' \in [DOMAIN Bank ->
                                     {"floating", "input", "output", "alternate"}]
                    /\ pins["pa9"] = "alternate" => pins'["pa9"] = "alternate"
                    /\ at = 18 => pins'["pa9"] = "alternate"
           Unit == /\ enabled \subseteq enabled'
                   /\ at = 19 => "usart1" \in enabled'
                   /\ at = 20 => usart' = [baud |-> Divider, on |-> TRUE]
                   /\ at # 20 => usart' = usart
<1>3. /\ at = 18 => f = "gpio" /\ Arg = "pa9"
      /\ at = 19 => f = "enable" /\ Arg = "usart1"
      /\ at = 20 => f = "usart" /\ Arg = 1
      /\ f = "gpio" => at >= 18 /\ Arg \in DOMAIN Bank /\ (at # 18 => Arg # "pa9")
      /\ f = "usart" => at = 20
  <2>1. /\ at = 18 => f = "gpio" /\ Arg = "pa9"
        /\ at = 19 => f = "enable" /\ Arg = "usart1"
        /\ at = 20 => f = "usart" /\ Arg = 1
    BY SetupSteps DEF Arg
  <2>2. f = "gpio" => at >= 18 /\ Arg \in DOMAIN Bank /\ (at # 18 => Arg # "pa9")
    <3>1. "pa9" \in DOMAIN Bank
      BY DEF Bank
    <3>2. CASE at \in 21 .. 32
      BY <3>2, SetupSteps DEF Arg
    <3>3. CASE at < 21
      <4>1. f = "gpio" => at = 18
        BY <1>1, <3>3, SetupSteps
      <4> QED BY <2>1, <3>1, <4>1
    <3> QED BY <1>1, <3>2, <3>3
  <2>3. f = "usart" => at = 20
    BY <1>1, SetupSteps
  <2> QED BY <2>1, <2>2, <2>3
<1>4. Banks /\ Unit
  <2>1. CASE f = "gpio"
    <3>1. GpioSetup
      BY <2>1 DEF SetupStep, OscOn, WaitOscOn, SetCfgr, SetWaitStates, SetPeriphEnable,
                  GpioSet, SetUsart, SetSpi, Here, Cfgr
    <3> DEFINE bank == Bank[Arg]
    <3>2. /\ enabled' = IF bank \in rcc_gpio_en THEN enabled ELSE enabled \cup {bank}
          /\ rcc_gpio_en' = IF bank \in rcc_gpio_en THEN rcc_gpio_en
                            ELSE rcc_gpio_en \cup {bank}
          /\ pins' = IF bank \in enabled' THEN [pins EXCEPT ![Arg] = Mode(Arg)] ELSE pins
          /\ usart' = usart
      BY <3>1 DEF GpioSetup, BankEnabled
    <3> HIDE DEF bank
    <3>3. rcc_gpio_en' \subseteq enabled' /\ bank \in enabled'
      BY <3>2 DEF ConsoleInv
    <3>4. Mode(Arg) \in {"input", "output", "alternate"} /\ Mode("pa9") = "alternate"
      BY Zenon DEF Mode
    <3>5. Banks
      <4>1. Arg \in DOMAIN Bank
        BY <1>3, <2>1
      <4>2. pins' = [pins EXCEPT ![Arg] = Mode(Arg)]
        BY <3>2, <3>3
      <4> QED BY <1>3, <2>1, <3>3, <3>4, <4>1, <4>2 DEF ConsoleInv
    <3>6. Unit
      BY <1>3, <2>1, <3>2
    <3> QED BY <3>5, <3>6
  <2>2. CASE f = "usart"
    <3>1. SetUsart
      BY <2>2 DEF SetupStep, OscOn, WaitOscOn, SetCfgr, SetWaitStates, SetPeriphEnable,
                  GpioSetup, GpioSet, SetSpi, Here, Cfgr
    <3>2. at = 20 /\ Arg = 1
      BY <1>3, <2>2
    <3>3. "usart1" \in enabled
      BY <3>2 DEF ConsoleInv
    <3>4. /\ usart' = [baud |-> Divider, on |-> TRUE]
          /\ UNCHANGED <<enabled, rcc_gpio_en, pins>>
      <4>1. (ThisClock(1) + Baud \div 2) \div Baud = Divider
        BY SMT DEF ThisClock, Divider
      <4> QED BY <3>1, <3>2, <3>3, <4>1 DEF SetUsart, clocks
    <3> QED BY <3>2, <3>3, <3>4 DEF ConsoleInv
  <2>3. CASE f \notin {"gpio", "usart"}
    <3>1. /\ UNCHANGED <<rcc_gpio_en, pins, usart>> /\ enabled \subseteq enabled'
          /\ f = "enable" => Arg \in enabled'
      BY <2>3 DEF SetupStep, OscOn, WaitOscOn, SetCfgr, SetWaitStates, SetPeriphEnable,
                  GpioSetup, GpioSet, SetUsart, SetSpi, Here, Cfgr, clocks, ports
    <3> QED BY <1>3, <2>3, <3>1 DEF ConsoleInv
  <2> QED BY <2>1, <2>2, <2>3
<1> HIDE DEF f
<1>5. /\ rcc_gpio_en' \subseteq enabled'
      /\ pins' \in [DOMAIN Bank -> {"floating", "input", "output", "alternate"}]
      /\ at' > 18 => pins'["pa9"] = "alternate"
      /\ at' > 19 => "usart1" \in enabled'
  BY <1>1, <1>4 DEF ConsoleInv
<1>6. at' > 20 => usart' = [baud |-> Divider, on |-> TRUE]
  <2>1. at > 20 => usart = [baud |-> Divider, on |-> TRUE]
    BY DEF ConsoleInv
  <2> QED BY <1>1, <1>4, <2>1
<1> HIDE DEF Banks, Unit
<1>7. /\ sends' = 0 /\ sends' \in Nat /\ tdr' = <<>>
      /\ console' = [i \in 1 .. sends' |-> i]
  BY <1>1, <1>2
<1> QED BY <1>5, <1>6, <1>7 DEF ConsoleInv

\* The USART takes a byte, or sends it, and the terminal reads it as it is.
LEMMA SerialStep ==
    ASSUME ConsoleInv, [Next]_vars, SetupInv', Terminal
    PROVE  ConsoleInv'
<1>1. CASE SetupStep
  BY <1>1, SetupSerial
<1>2. CASE UsartSend
  <2>1. /\ Done /\ tdr = <<>> /\ tdr' = <<sends + 1>> /\ sends' = sends + 1
        /\ UNCHANGED <<at, clocks, ports, console>>
    BY <1>2 DEF UsartSend
  <2>2. Done'
    BY <2>1 DEF Done
  <2>3. console = [i \in 1 .. sends |-> i]
    BY <2>1 DEF ConsoleInv
  <2> QED BY <2>1, <2>2, <2>3 DEF ConsoleInv, clocks, ports
<1>3. CASE UsartShifts
  <2>1. /\ tdr # <<>> /\ tdr' = <<>>
        /\ console' = Append(console, IF Legible THEN tdr[1] ELSE 0)
        /\ UNCHANGED <<at, clocks, ports, sends>>
    BY <1>3 DEF UsartShifts
  <2>2. sends \in Nat /\ sends > 0 /\ tdr = <<sends>>
        /\ console = [i \in 1 .. sends - 1 |-> i] /\ Done
    BY <2>1 DEF ConsoleInv
  <2>3. Legible
    <3>1. at = 33
      <4>1. at \in 1 .. 33
        BY DEF ConsoleInv, SetupInv
      <4>2. at > Len(Setup) /\ Len(Setup) = 32
        BY <2>2, SetupSteps DEF Done
      <4> QED BY <4>1, <4>2
    <3>2. pins["pa9"] = "alternate" /\ usart.baud = Divider
      BY <3>1 DEF ConsoleInv
    <3>3. Apb(cfgr.apb2_pre) = Hse * 9
      <4>1. Hse \in Nat /\ Hsi \in Nat
        BY Stm32Assumption
      <4> QED BY <3>1, <4>1, Rates DEF ConsoleInv
    <3> QED BY <3>2, <3>3, DividerFits DEF Legible
  <2>4. console' = Append([i \in 1 .. sends - 1 |-> i], sends)
    BY <2>1, <2>2, <2>3
  <2>5. console' = [i \in 1 .. sends |-> i]
    BY <2>2, <2>4
  <2>6. Done'
    BY <2>1, <2>2 DEF Done
  <2> QED BY <2>1, <2>2, <2>5, <2>6 DEF ConsoleInv, clocks, ports
<1>4. CASE \E o \in Oscillators : Settles(o)
  <2>1. UNCHANGED <<at, enabled, ports, serial>>
    BY <1>4 DEF Settles
  <2> QED BY <2>1 DEF ConsoleInv, ports, serial, Done
<1>5. CASE UNCHANGED <<at, clocks, ports, serial>>
  BY <1>5 DEF ConsoleInv, clocks, ports, serial, Done
<1> QED BY <1>1, <1>2, <1>3, <1>4, <1>5 DEF Next, Processor, Call, ByteOut, ByteIn, Outside, vars

\* At no point of the setup is a clock faster than what it feeds can take, for every
\* crystal of up to 8 MHz (clock_setup_ext_8mhz_72mhz).
THEOREM ClocksWithinLimits ==
    Hsi <= 240000 /\ Hse <= 80000 => (Spec => []WithinLimits)
<1> SUFFICES ASSUME Hsi <= 240000, Hse <= 80000 PROVE Spec => []WithinLimits
  OBVIOUS
<1>1. SetupInv => WithinLimits
  <2> SUFFICES ASSUME SetupInv PROVE WithinLimits
    OBVIOUS
  <2>1. Hsi \in Nat /\ Hse \in Nat
    BY Stm32Assumption
  <2>2. at \in 1 .. 33 /\ ws = IF at <= 11 THEN 0 ELSE 2
    BY DEF SetupInv
  <2>3. SysClk \in Nat /\ SysClk <= 240000 * (ws + 1) /\ SysClk <= 720000
    BY <2>1, <2>2, Rates
  <2>4. Apb(cfgr.apb1_pre) <= 360000 /\ Adc <= 140000
    BY <2>1, <2>2, <2>3, Rates
  <2> QED BY <2>3, <2>4 DEF WithinLimits
<1> QED BY <1>1, InitSetupInv, StepSetupInv, PTL DEF Spec

\* Every byte given to usart::send is read by a terminal at that rate, in order, for
\* every rate below 2.88 Mbaud: the clock that init() assumes is the one that setup()
\* makes of a crystal of 8 MHz (usart.cpp:16-21).
THEOREM ConsoleReads ==
    Terminal => (Spec => []ConsoleInOrder)
<1> SUFFICES ASSUME Terminal PROVE Spec => []ConsoleInOrder
  OBVIOUS
<1>1. Init => ConsoleInv
  <2> SUFFICES ASSUME Init PROVE ConsoleInv
    OBVIOUS
  <2>1. SetupInv
    BY InitSetupInv
  <2>2. /\ at = 1 /\ rcc_gpio_en = {} /\ pins = [p \in DOMAIN Bank |-> "floating"]
        /\ tdr = <<>> /\ console = <<>> /\ sends = 0
    BY DEF Init
  <2>3. console = [i \in 1 .. sends |-> i]
    BY <2>2
  <2> QED BY <2>1, <2>2, <2>3 DEF ConsoleInv
<1>2. ConsoleInv /\ [Next]_vars => ConsoleInv'
  BY StepSetupInv, SerialStep DEF ConsoleInv
<1>3. ConsoleInv => ConsoleInOrder
  <2> SUFFICES ASSUME ConsoleInv PROVE console \o tdr = [i \in 1 .. sends |-> i]
    BY DEF ConsoleInOrder
  <2>1. CASE tdr = <<>> /\ console = [i \in 1 .. sends |-> i]
    BY <2>1 DEF ConsoleInv
  <2>2. CASE sends > 0 /\ tdr = <<sends>> /\ console = [i \in 1 .. sends - 1 |-> i]
    BY <2>2 DEF ConsoleInv
  <2> QED BY <2>1, <2>2 DEF ConsoleInv
<1> QED BY <1>1, <1>2, <1>3, PTL DEF Spec
=============================================================================
