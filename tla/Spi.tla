--------------------------------- MODULE Spi ---------------------------------
(***************************************************************************)
(* SPI transfers: transmit::do_transmission (include/tart/chip/            *)
(* transmit.hpp) on an spi_dev (include/tart/chip/spi.hpp) of the STM32    *)
(* (src/chip/stm32f103x8/spi.cpp).                                         *)
(*                                                                         *)
(* The processor feeds the transmitter while it has room, then empties the *)
(* receiver, and so on until every byte of every operation has gone out    *)
(* and its answer has come in.  The shift register works on its own.  A    *)
(* byte is known by where it comes from: [of |-> source, at |-> index].    *)
(* Stm32 sets the interface up and makes the calls.                        *)
(***************************************************************************)
EXTENDS Naturals, Sequences, FiniteSets

CONSTANTS
    Buffers,      \* memory of the program
    BufferSize,   \* bytes in a buffer
    Raws,         \* values sent by send_bytes
    Device,       \* the device, which answers byte n with [of |-> Device, at |-> n]
    Zero,         \* the byte sent in order to receive one
    Calls,        \* sequences of requests, each the arguments of one call
    MaxCalls      \* bound: calls of do_transmission

\* The arguments of do_transmission, by the function that makes them.  A size
\* of 0 is left out: do_transmission would never come to its end.
Sizes == 1 .. BufferSize
Request ==
    [make : {"send_bytes"}, raw : Raws]
    \cup [make : {"send_buffer", "recv_buffer"}, buf : Buffers, size : Sizes]
    \cup [make : {"xfer_buffers"}, out : Buffers, in : Buffers, size : Sizes]

ASSUME SpiAssumption ==
    /\ BufferSize \in Nat \ {0}
    /\ Calls \subseteq Seq(Request) /\ <<>> \notin Calls
    /\ {Device, Zero} \cap (Buffers \cup Raws) = {} /\ Device # Zero
    /\ MaxCalls \in Nat

VARIABLES
    call,         \* the requests of the last call
    items,        \* their operations
    phase,        \* "idle", or the inner loop that runs: "out" or "in"
    out_item, out_off, in_item, in_off,
    tx, shift, rx,     \* what each register of the interface holds: a set
    selected,     \* the device's chip select is active
    seen,         \* the bytes the device has taken since it was selected
    memory,       \* [Buffers -> bytes, by offset]
    before,       \* history: memory when the call was made
    lost,         \* history: bytes the receiver had no room for in this call
    calls         \* calls made

progress == <<out_item, out_off, in_item, in_off>>
registers == <<tx, shift, rx>>
transfer == <<call, items, phase, progress, registers, selected, seen, memory,
              before, lost, calls>>

Byte == [of : Buffers \cup Raws \cup {Device, Zero}, at : Nat]
ByteOf(source, n) == [of |-> source, at |-> n]

-----------------------------------------------------------------------------
(***************************************************************************)
(* send_bytes, send_buffer, recv_buffer and xfer_buffers.                  *)
(***************************************************************************)
Operation(r) ==
    CASE r.make = "send_bytes" -> [m |-> "out_single", raw |-> r.raw, size |-> 1]
      [] r.make = "send_buffer" ->
             [m |-> "out_buffer", out_ptr |-> r.buf, size |-> r.size]
      [] r.make = "recv_buffer" -> [m |-> "in", in_ptr |-> r.buf, size |-> r.size]
      [] r.make = "xfer_buffers" ->
             [m |-> "both", in_ptr |-> r.out, out_ptr |-> r.in, size |-> r.size]

\* Every variable has its type (do_transmission).
SpiTypeOK ==
    /\ call \in Calls \cup {<<>>}
    /\ items = [i \in DOMAIN call |-> Operation(call[i])]
    /\ phase \in {"idle", "out", "in"}
    /\ {out_item, in_item} \subseteq 1 .. Len(items) + 1
    /\ out_item <= Len(items) => out_off \in 0 .. items[out_item].size - 1
    /\ in_item <= Len(items) => in_off \in 0 .. items[in_item].size - 1
    /\ \A register \in {tx, shift, rx} : \A b, c \in register : b \in Byte /\ b = c
    /\ selected \in BOOLEAN
    /\ seen \in Seq(Byte)
    /\ {memory, before} \subseteq [Buffers -> [0 .. BufferSize - 1 -> Byte]]
    /\ lost \in Nat /\ calls \in 0 .. MaxCalls

SpiInit ==
    /\ call = <<>> /\ items = <<>> /\ phase = "idle"
    /\ out_item = 1 /\ out_off = 0 /\ in_item = 1 /\ in_off = 0
    /\ tx = {} /\ shift = {} /\ rx = {}
    /\ selected = FALSE /\ seen = <<>>
    /\ memory = [b \in Buffers |-> [n \in 0 .. BufferSize - 1 |-> ByteOf(b, n)]]
    /\ before = memory
    /\ lost = 0 /\ calls = 0

-----------------------------------------------------------------------------
(***************************************************************************)
(* The interface.  Its behaviour is not in the repository.                 *)
(***************************************************************************)
Shift ==
    /\ tx # {} /\ shift = {}
    /\ shift' = tx /\ tx' = {}
    /\ UNCHANGED <<call, items, phase, progress, rx, selected, seen, memory,
                   before, lost, calls>>

\* A byte has been exchanged.  When the processor was late and the receiver
\* still holds the one before, the new one is lost.
Exchange ==
    /\ shift # {} /\ shift' = {}
    /\ \E b \in shift : seen' = IF selected THEN Append(seen, b) ELSE seen
    /\ \/ rx = {} /\ rx' = {ByteOf(Device, Len(seen) + 1)} /\ UNCHANGED lost
       \/ rx # {} /\ lost' = lost + 1 /\ UNCHANGED rx
    /\ UNCHANGED <<call, items, phase, progress, tx, selected, memory, before, calls>>

-----------------------------------------------------------------------------
(***************************************************************************)
(* do_transmission.                                                        *)
(***************************************************************************)
Start(c) ==
    /\ phase = "idle" /\ calls < MaxCalls
    /\ call' = c /\ items' = [i \in DOMAIN c |-> Operation(c[i])]
    /\ out_item' = 1 /\ out_off' = 0 /\ in_item' = 1 /\ in_off' = 0
    /\ selected' = TRUE /\ seen' = <<>>
    /\ before' = memory
    /\ phase' = "out"
    /\ lost' = 0 /\ calls' = calls + 1
    /\ UNCHANGED <<registers, memory>>

\* A bug: the first byte of the buffer again and again.
MutantFirstByte(item, off) ==
    CASE item.m = "in" -> ByteOf(Zero, 0)
      [] item.m = "out_single" -> ByteOf(item.raw, 0)
      [] item.m \in {"out_buffer", "both"} -> memory[item.out_ptr][0]
OutByte(item, off) ==
    CASE item.m = "in" -> ByteOf(Zero, 0)
      [] item.m = "out_single" -> ByteOf(item.raw, 0)
      [] item.m \in {"out_buffer", "both"} -> memory[item.out_ptr][off]

\* The next position: a byte on, or the start of the next operation.
NextItem(item, off) == IF off + 1 = items[item].size THEN item + 1 ELSE item
NextOff(item, off) == IF off + 1 = items[item].size THEN 0 ELSE off + 1

SendByte ==
    /\ phase = "out"
    /\ out_item <= Len(items) /\ tx = {}
    /\ tx' = {OutByte(items[out_item], out_off)}
    /\ out_item' = NextItem(out_item, out_off)
    /\ out_off' = NextOff(out_item, out_off)
    /\ UNCHANGED <<call, items, phase, in_item, in_off, shift, rx, selected, seen,
                   memory, before, lost, calls>>

SendLoopEnds ==
    /\ phase = "out"
    /\ ~(out_item <= Len(items) /\ tx = {})
    /\ phase' = "in"
    /\ UNCHANGED <<call, items, progress, registers, selected, seen, memory, before,
                   lost, calls>>

\* A byte that has been sent has not been received.
Behind == IF out_item = in_item THEN out_off > in_off ELSE out_item > in_item

MayReceive == in_item <= Len(items) /\ Behind /\ rx # {}

\* A bug: what comes in goes where the transmitter stands.
MutantStoresAtOut(item, b) ==
    IF item.m \in {"both", "in"}
    THEN [memory EXCEPT ![item.in_ptr][out_off] = b] ELSE memory
Stored(item, b) ==
    IF item.m \in {"both", "in"}
    THEN [memory EXCEPT ![item.in_ptr][in_off] = b] ELSE memory

\* A bug: the receiver is not read when its byte is discarded.
MutantDiscardsUnread(item) == IF item.m \in {"both", "in"} THEN {} ELSE rx
RxAfter(item) == {}

RecvByte ==
    /\ phase = "in"
    /\ MayReceive
    /\ \E b \in rx : memory' = Stored(items[in_item], b)
    /\ rx' = RxAfter(items[in_item])
    /\ in_item' = NextItem(in_item, in_off)
    /\ in_off' = NextOff(in_item, in_off)
    /\ UNCHANGED <<call, items, phase, out_item, out_off, tx, shift, selected, seen,
                   before, lost, calls>>

MoreToDo == out_item <= Len(items) \/ in_item <= Len(items)

RecvLoopEnds ==
    /\ phase = "in"
    /\ ~MayReceive
    /\ \/ MoreToDo /\ phase' = "out" /\ UNCHANGED selected
       \/ ~MoreToDo /\ phase' = "idle" /\ selected' = FALSE
    /\ UNCHANGED <<call, items, progress, registers, seen, memory, before, lost, calls>>

Transmission == SendByte \/ SendLoopEnds \/ RecvByte \/ RecvLoopEnds

-----------------------------------------------------------------------------
(***************************************************************************)
(* Properties.  What was asked for is said in terms of the requests.       *)
(***************************************************************************)
\* The bytes on the bus that the call asks for: <<i, n>> is byte n of request i.
SizeOf(r) == IF r.make = "send_bytes" THEN 1 ELSE r.size
Requested ==
    {q \in (DOMAIN call) \X (0 .. BufferSize - 1) : q[2] < SizeOf(call[q[1]])}

\* Those before a byte, and how many they are.
Passed(item, off) == {q \in Requested : q[1] < item \/ (q[1] = item /\ q[2] < off)}
Position(item, off) == Cardinality(Passed(item, off))

\* What a request sends, or has the device see in order to receive.
ByteAsked(r, n) ==
    CASE r.make = "send_bytes" -> ByteOf(r.raw, 0)
      [] r.make = "send_buffer" -> before[r.buf][n]
      [] r.make = "recv_buffer" -> ByteOf(Zero, 0)
      [] r.make = "xfer_buffers" -> before[r.out][n]

\* When do_transmission returns, the device has seen every byte of every request,
\* in order and nothing else, while it was selected.
SentAsAsked ==
    phase = "idle" =>
        /\ Len(seen) = Cardinality(Requested)
        /\ \A q \in Requested :
               seen[Position(q[1], q[2]) + 1] = ByteAsked(call[q[1]], q[2])

Receives(r) == r.make \in {"recv_buffer", "xfer_buffers"}
Into(r) == IF r.make = "recv_buffer" THEN r.buf ELSE r.in

\* And every request that receives has the device's answers to its own bytes, not
\* those to the bytes before or after (do_transmission).
ReceivedInPlace ==
    phase = "idle" =>
        \A q \in Requested :
            Receives(call[q[1]]) =>
                memory[Into(call[q[1]])][q[2]] = ByteOf(Device, Position(q[1], q[2]) + 1)

\* "in_item is never larger than out_item", transmit.hpp:138: the receiving side is
\* behind the sending side by exactly the bytes in the interface, and those that
\* it lost.
ReceiverBehind ==
    phase # "idle" =>
        Position(out_item, out_off) - Position(in_item, in_off)
            = Cardinality(tx) + Cardinality(shift) + Cardinality(rx) + lost

\* The requests of a call do not disturb each other: what one receives is not
\* sent by a later one, nor overwritten by another.  An exchange is in place:
\* xfer_buffers takes its two buffers for one another.
Sends(r) == r.make \in {"send_buffer", "xfer_buffers"}
From(r) == IF r.make = "send_buffer" THEN r.buf ELSE r.out
Separate(c) ==
    \A i, j \in DOMAIN c :
        /\ c[i].make = "xfer_buffers" => c[i].out = c[i].in
        /\ i < j /\ Receives(c[i]) /\ Sends(c[j]) => Into(c[i]) # From(c[j])
        /\ i # j /\ Receives(c[i]) /\ Receives(c[j]) => Into(c[i]) # Into(c[j])
=============================================================================
