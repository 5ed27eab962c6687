------------------------------ MODULE Enc28j60 ------------------------------
(***************************************************************************)
(* The ENC28J60 driver (src/drivers/enc28j60.cpp) and the chip it drives.  *)
(*                                                                         *)
(* The processor does one thing at a time: io_service polls the chip       *)
(* (do_poll), or a coroutine runs: run(), which copies received frames out *)
(* of the chip's ring, or a call of send_packet().  do_poll raises events  *)
(* and the coroutines they wake run later from the run queue.  The chip    *)
(* works on its own between any two register accesses: it receives into    *)
(* the ring, transmits, and sets interrupt flags.  A step of the driver is *)
(* the register accesses between two points where the chip may interfere.  *)
(*                                                                         *)
(* The chip is not reset with the processor: setup() finds it as a run of  *)
(* the program that was interrupted left it, or as the power found it.     *)
(***************************************************************************)
EXTENDS Naturals, Sequences, FiniteSets, SequencesExt

CONSTANTS
    Frames,       \* frames from the network, each of which arrives once
    Units,        \* [Frames -> Nat \ {0}]: the room a frame takes in the ring
    Garbage,      \* what a read of an overwritten frame, or of one being
                  \* written, yields
    RingSize,     \* units of the receive ring (rx_start .. rx_end)
    Senders,      \* calls of send_packet; each also names the frame it sends
    Aborted,      \* the sent frames whose transmission the chip may abort
    MaxRestarts   \* bound: transmissions restarted by a bank switch

ASSUME EncAssumption ==
    /\ Units \in [Frames -> Nat \ {0}]
    /\ RingSize \in Nat /\ RingSize > 1
    /\ Garbage \notin Frames \cup Senders
    /\ Aborted \subseteq Senders
    /\ MaxRestarts \in Nat

rx_start == 0
rx_end == RingSize - 1
Ring == rx_start .. rx_end

VARIABLES
    \* the chip
    mem,          \* [Ring -> frame]: what the units of the ring hold
    nextOf,       \* [Ring -> Ring]: the next-packet pointer of a frame's header
    erxwrpt,      \* where the next frame will be written
    erxrdpt,      \* the read pointer, which the chip does not write past
    epktcnt,      \* frames in the ring
    flags,        \* EIR: rxerif, a frame was dropped for want of room;
                  \* txif, a transmission has ended; txerif, one was aborted
    txbuf,        \* what the transmit buffer holds
    txrts,        \* a transmission is in progress
    wire,         \* frames that went out
    rxen,         \* reception is enabled
    unit,         \* "starting": the oscillator is; "busy": the PHY is; or "ready"
    restarts,     \* transmissions restarted so far
    arrived,      \* frames that have arrived, taken or dropped
    stored,       \* history: accepted frames run() has not handed over, in order
    \* the driver
    cpu,          \* what the processor executes between two chip steps
    sampled,      \* do_poll's copies of EIR and EPKTCNT
    cur_ptr, next_ptr, held,   \* run(): its pointers, the frame it has copied
    runner,       \* run(): waiting for receive_irq_, woken, or past that
    receive_error_, transmit_error_,
    recv_queue_,
    sendq,        \* callers of send_packet: the holder of send_mutex_, then waiters
    sender        \* where the holder stands

ring == <<mem, nextOf, erxwrpt, epktcnt, arrived, stored>>
transmitter == <<txbuf, txrts, wire, restarts>>
receiving == <<cur_ptr, next_ptr, held, runner, receive_error_, recv_queue_>>
sending == <<sendq, sender, transmit_error_>>
mode == <<rxen, unit>>
vars == <<ring, erxrdpt, flags, transmitter, mode, cpu, sampled, receiving, sending>>

NoFlags == [txif |-> FALSE, txerif |-> FALSE, rxerif |-> FALSE]
NoSample == [flags |-> NoFlags, epktcnt |-> FALSE]

\* Every variable has its type (enc28j60_nic).
TypeOK ==
    /\ mem \in [Ring -> Frames \cup {Garbage}]
    /\ nextOf \in [Ring -> Ring]
    /\ {erxwrpt, erxrdpt, cur_ptr, next_ptr} \subseteq Ring
    /\ epktcnt \in 0 .. RingSize
    /\ flags \in [txif : BOOLEAN, txerif : BOOLEAN, rxerif : BOOLEAN]
    /\ txbuf \in Senders \cup {Garbage}
    /\ {txrts, receive_error_, transmit_error_} \subseteq BOOLEAN
    /\ wire \in Seq(Senders \cup {Garbage})
    /\ restarts \in 0 .. MaxRestarts
    /\ arrived \subseteq Frames
    /\ stored \in Seq(Frames)
    /\ rxen \in BOOLEAN /\ unit \in {"starting", "busy", "ready"}
    /\ cpu \in {"reset", "wait_ost", "set_ring", "set_phy", "wait_phy", "free",
                "read_epktcnt", "clear_rxerif", "clear_txif", "clear_txerif",
                "read_data", "free_ring", "hand_over",
                "fill", "program", "trigger", "stopped"}
    /\ sampled.flags \in [txif : BOOLEAN, txerif : BOOLEAN, rxerif : BOOLEAN]
    /\ sampled.epktcnt \in BOOLEAN
    /\ held \in Frames \cup {Garbage}
    /\ runner \in {"waiting", "woken", "running", "yielded"}
    /\ recv_queue_ \in Seq(Frames \cup {Garbage})
    /\ sendq \in Seq(Senders)
    /\ sender \in {"none", "ready", "running", "waiting", "woken"}

\* Before setup(): a chip that receives, transmits and has raised flags, with or
\* without a frame in its ring, or one just powered up.
Init ==
    /\ mem = [i \in Ring |-> Garbage]
    /\ nextOf = [i \in Ring |-> rx_start]
    /\ \/ /\ erxwrpt \in Ring /\ erxrdpt = rx_end /\ epktcnt \in {0, 1}
          /\ flags \in [DOMAIN NoFlags -> BOOLEAN] /\ txrts \in BOOLEAN
          /\ rxen = TRUE /\ unit = "ready"
       \/ /\ erxwrpt = rx_start /\ erxrdpt = rx_start /\ epktcnt = 0
          /\ flags = NoFlags /\ txrts = FALSE /\ rxen = FALSE /\ unit = "starting"
    /\ txbuf = Garbage
    /\ wire = <<>> /\ restarts = 0 /\ arrived = {} /\ stored = <<>>
    /\ cpu = "reset" /\ sampled = NoSample
    /\ cur_ptr = rx_start /\ next_ptr = rx_start /\ held = Garbage
    /\ runner = "waiting"
    /\ receive_error_ = FALSE /\ transmit_error_ = FALSE
    /\ recv_queue_ = <<>>
    /\ sendq = <<>> /\ sender = "none"

-----------------------------------------------------------------------------
(***************************************************************************)
(* The chip.  Its behaviour is not in the repository; it is what the       *)
(* driver's use of the registers relies on.                                *)
(***************************************************************************)
UnitsFrom(ptr, n) == {(ptr + k) % RingSize : k \in 0 .. n - 1}

\* What the chip does before its reset does not matter.
Running == cpu \notin {"reset", "stopped"}

\* A frame is stored unless it would reach the read pointer.
ChipReceive(f) ==
    /\ Running /\ rxen
    /\ f \notin arrived
    /\ arrived' = arrived \cup {f}
    /\ LET room == UnitsFrom(erxwrpt, Units[f])
           after == (erxwrpt + Units[f]) % RingSize
           fits == Units[f] < RingSize /\ erxrdpt \notin room
       IN  \/ /\ fits
              /\ mem' = [i \in Ring |-> IF i \in room THEN f ELSE mem[i]]
              /\ nextOf' = [nextOf EXCEPT ![erxwrpt] = after]
              /\ erxwrpt' = after
              /\ epktcnt' = epktcnt + 1
              /\ stored' = Append(stored, f)
              /\ UNCHANGED flags
           \/ /\ ~fits
              /\ flags' = [flags EXCEPT !.rxerif = TRUE]
              /\ UNCHANGED <<mem, nextOf, erxwrpt, epktcnt, stored>>
    /\ UNCHANGED <<mode, erxrdpt, transmitter, cpu, sampled, receiving, sending>>

\* A transmission ends: what the buffer holds has gone out, TXRTS clears.
\* set_bank() reads ECON1, changes the bank and writes it back; when the
\* transmission ends between the two, the write sets TXRTS again and the chip
\* transmits once more.  Every register access starts with set_bank().
ChipTransmitted ==
    /\ Running
    /\ txrts
    /\ wire' = Append(wire, txbuf)
    /\ flags' = [flags EXCEPT !.txif = TRUE]
    /\ \/ txrts' = FALSE /\ UNCHANGED restarts
       \/ /\ cpu # "free" /\ restarts < MaxRestarts
          /\ restarts' = restarts + 1
          /\ UNCHANGED txrts
    /\ UNCHANGED <<mode, txbuf, ring, erxrdpt, cpu, sampled, receiving, sending>>

\* A transmission is aborted, with or without TXIF.
ChipAborted ==
    /\ Running
    /\ txrts /\ txbuf \in Aborted
    /\ txrts' = FALSE
    /\ \E ended \in BOOLEAN :
           flags' = [flags EXCEPT !.txerif = TRUE, !.txif = @ \/ ended]
    /\ UNCHANGED <<mode, txbuf, wire, restarts, ring, erxrdpt, cpu, sampled,
                   receiving, sending>>

\* The oscillator has started, or the PHY has taken what was written to it.
ChipReady ==
    /\ cpu # "reset" /\ unit # "ready" /\ unit' = "ready"
    /\ UNCHANGED <<rxen, ring, erxrdpt, flags, transmitter, cpu, sampled, receiving,
                   sending>>

-----------------------------------------------------------------------------
(***************************************************************************)
(* setup().                                                                *)
(***************************************************************************)
DriverUnchanged == UNCHANGED <<sampled, receiving, sending>>

\* A bug: the chip is not reset.
MutantNoChipReset ==
    /\ cpu = "reset" /\ cpu' = "wait_ost"
    /\ UNCHANGED <<ring, erxrdpt, flags, transmitter, mode>> /\ DriverUnchanged
SetupReset ==
    /\ cpu = "reset" /\ cpu' = "wait_ost"
    /\ rxen' = FALSE /\ unit' = "starting"
    /\ erxwrpt' = rx_start /\ erxrdpt' = rx_start /\ epktcnt' = 0
    /\ flags' = NoFlags /\ txrts' = FALSE
    /\ UNCHANGED <<mem, nextOf, arrived, stored, txbuf, wire, restarts>> /\ DriverUnchanged

SetupWaitOst ==
    /\ cpu = "wait_ost" /\ unit # "starting" /\ cpu' = "set_ring"
    /\ UNCHANGED <<ring, erxrdpt, flags, transmitter, mode>> /\ DriverUnchanged

\* Writing ERXST also moves the write pointer there.
SetupRing ==
    /\ cpu = "set_ring" /\ cpu' = "set_phy"
    /\ erxwrpt' = rx_start /\ erxrdpt' = rx_end
    /\ UNCHANGED <<mem, nextOf, epktcnt, arrived, stored, flags, transmitter, mode>>
    /\ DriverUnchanged

SetupPhy ==
    /\ cpu = "set_phy" /\ cpu' = "wait_phy"
    /\ unit' = "busy"
    /\ UNCHANGED <<rxen, ring, erxrdpt, flags, transmitter>> /\ DriverUnchanged

SetupEnable ==
    /\ cpu = "wait_phy" /\ unit = "ready" /\ cpu' = "free"
    /\ rxen' = TRUE
    /\ UNCHANGED <<unit, ring, erxrdpt, flags, transmitter>> /\ DriverUnchanged

Setup == SetupReset \/ SetupWaitOst \/ SetupRing \/ SetupPhy \/ SetupEnable

-----------------------------------------------------------------------------
(***************************************************************************)
(* do_poll().  A coroutine it wakes runs later, from the run queue; an     *)
(* event raised when nobody waits for it is lost.                          *)
(***************************************************************************)
Raised(waiter) == IF waiter = "waiting" THEN "woken" ELSE waiter

PollStart ==
    /\ cpu = "free"
    /\ sampled' = [flags |-> flags, epktcnt |-> epktcnt > 0]
    /\ cpu' = "read_epktcnt"
    /\ UNCHANGED <<mode, ring, erxrdpt, flags, transmitter, receiving, sending>>

\* A bug: receive_error_ is written by every poll.
MutantAlwaysWritesError(something) ==
    /\ runner' = IF something THEN Raised(runner) ELSE runner
    /\ receive_error_' = sampled.flags.rxerif

\* receive_error_ is written only when there is something to receive.
ReceiveIrq(something) ==
    \/ /\ something
       /\ runner' = Raised(runner)
       /\ receive_error_' = sampled.flags.rxerif
    \/ ~something /\ UNCHANGED <<runner, receive_error_>>

PollReceive ==
    /\ cpu = "read_epktcnt"
    /\ ReceiveIrq(epktcnt > 0 \/ sampled.epktcnt \/ sampled.flags.rxerif)
    /\ cpu' = "clear_rxerif"
    /\ UNCHANGED <<mode, ring, erxrdpt, flags, transmitter, sampled, cur_ptr, next_ptr,
                   held, recv_queue_, sending>>

PollTransmit ==
    /\ cpu = "clear_rxerif"
    /\ flags' = [flags EXCEPT !.rxerif = @ /\ ~sampled.flags.rxerif]
    /\ \/ /\ sampled.flags.txif \/ sampled.flags.txerif
          /\ sender' = Raised(sender)
          /\ transmit_error_' = sampled.flags.txerif
       \/ /\ ~sampled.flags.txif /\ ~sampled.flags.txerif
          /\ UNCHANGED <<sender, transmit_error_>>
    /\ cpu' = "clear_txif"
    /\ UNCHANGED <<mode, ring, erxrdpt, transmitter, sampled, receiving, sendq>>

\* A bug: TXIF set since do_poll read it is cleared too.
MutantClearsUnseen(f) == [f EXCEPT !.txif = FALSE]

\* TXIF is cleared only when do_poll saw it, and TXERIF after it likewise.
Acknowledged(f) == [f EXCEPT !.txif = @ /\ ~sampled.flags.txif]

PollTxif ==
    /\ cpu = "clear_txif"
    /\ flags' = Acknowledged(flags)
    /\ cpu' = "clear_txerif"
    /\ UNCHANGED <<mode, ring, erxrdpt, transmitter, sampled, receiving, sending>>

PollEnd ==
    /\ cpu = "clear_txerif"
    /\ flags' = [flags EXCEPT !.txerif = @ /\ ~sampled.flags.txerif]
    /\ cpu' = "free" /\ sampled' = NoSample
    /\ UNCHANGED <<mode, ring, erxrdpt, transmitter, receiving, sending>>

Poll == PollStart \/ PollReceive \/ PollTransmit \/ PollTxif \/ PollEnd

-----------------------------------------------------------------------------
(***************************************************************************)
(* run().                                                                  *)
(***************************************************************************)
\* A bug: a receive error ends run().
MutantErrorEndsRun ==
    /\ cpu = "free" /\ runner = "woken"
    /\ receive_error_' = FALSE
    /\ runner' = "running"
    /\ IF receive_error_ THEN UNCHANGED <<next_ptr, cpu>>
                         ELSE next_ptr' = nextOf[cur_ptr] /\ cpu' = "read_data"
    /\ UNCHANGED <<mode, ring, erxrdpt, flags, transmitter, sampled, cur_ptr, held,
                   recv_queue_, sending>>

\* Woken: after a receive error, wait again; otherwise read the header.
RunWoken ==
    /\ cpu = "free" /\ runner = "woken"
    /\ receive_error_' = FALSE
    /\ \/ receive_error_ /\ runner' = "waiting" /\ UNCHANGED <<next_ptr, cpu>>
       \/ /\ ~receive_error_
          /\ runner' = "running"
          /\ next_ptr' = nextOf[cur_ptr]
          /\ cpu' = "read_data"
    /\ UNCHANGED <<mode, ring, erxrdpt, flags, transmitter, sampled, cur_ptr, held,
                   recv_queue_, sending>>

\* What the units from first up to end hold.
ReadBuffer(first, end) ==
    LET read == UnitsFrom(first, (end + RingSize - first) % RingSize)
        whole == {f \in Frames : read # {} /\ \A i \in read : mem[i] = f}
    IN  IF whole = {} THEN Garbage ELSE CHOOSE f \in whole : TRUE

ReadData ==
    /\ cpu = "read_data"
    /\ held' = ReadBuffer(cur_ptr, next_ptr)
    /\ cur_ptr' = next_ptr
    /\ cpu' = "free_ring"
    /\ UNCHANGED <<mode, ring, erxrdpt, flags, transmitter, sampled, next_ptr, runner,
                   receive_error_, recv_queue_, sending>>

\* A bug: the pointer goes one unit too far.
MutantOneTooFar(ptr) == ptr

\* The read pointer goes to the last unit read.
Before(ptr) == IF ptr = rx_start THEN rx_end ELSE ptr - 1

FreeRing ==
    /\ cpu = "free_ring"
    /\ erxrdpt' = Before(next_ptr)
    /\ cpu' = "hand_over"
    /\ UNCHANGED <<mode, ring, flags, transmitter, sampled, receiving, sending>>

\* The frame is queued, the chip told to count it off, and run() yields.
HandOver ==
    /\ cpu = "hand_over"
    /\ recv_queue_' = Append(recv_queue_, held)
    /\ epktcnt' = epktcnt - 1
    /\ stored' = Tail(stored)
    /\ runner' = "yielded"
    /\ cpu' = "free"
    /\ UNCHANGED <<mode, mem, nextOf, erxwrpt, arrived, erxrdpt, flags, transmitter,
                   sampled, cur_ptr, next_ptr, held, receive_error_, sending>>

RunYielded ==
    /\ cpu = "free" /\ runner = "yielded"
    /\ runner' = "waiting"
    /\ UNCHANGED <<mode, ring, erxrdpt, flags, transmitter, cpu, sampled, cur_ptr,
                   next_ptr, held, receive_error_, recv_queue_, sending>>

Run == RunWoken \/ ReadData \/ FreeRing \/ HandOver \/ RunYielded

\* recv_packet() takes the oldest frame.
RecvPacket ==
    /\ cpu = "free"
    /\ recv_queue_ # <<>>
    /\ recv_queue_' = Tail(recv_queue_)
    /\ UNCHANGED <<mode, ring, erxrdpt, flags, transmitter, cpu, sampled, cur_ptr,
                   next_ptr, held, runner, receive_error_, sending>>

-----------------------------------------------------------------------------
(***************************************************************************)
(* send_packet().  send_mutex_ is granted in the order of the calls.       *)
(***************************************************************************)
SendPacket(t) ==
    /\ cpu = "free"
    /\ t \notin ToSet(sendq) \cup ToSet(wire)
    /\ sendq' = Append(sendq, t)
    /\ sender' = IF sendq = <<>> THEN "ready" ELSE sender
    /\ UNCHANGED <<mode, ring, erxrdpt, flags, transmitter, cpu, sampled, receiving,
                   transmit_error_>>

\* A bug: the transmit logic is not reset.
MutantNoReset ==
    /\ cpu = "free" /\ sender = "ready"
    /\ sender' = "running"
    /\ flags' = [flags EXCEPT !.txif = FALSE, !.txerif = FALSE]
    /\ cpu' = "fill"
    /\ UNCHANGED <<mode, transmitter, ring, erxrdpt, sampled, receiving, sendq,
                   transmit_error_>>

\* Reset the transmit logic, which ends what it is transmitting, and clear the
\* flags an earlier transmission left.
SendReset ==
    /\ cpu = "free" /\ sender = "ready"
    /\ sender' = "running"
    /\ txrts' = FALSE
    /\ flags' = [flags EXCEPT !.txif = FALSE, !.txerif = FALSE]
    /\ cpu' = "fill"
    /\ UNCHANGED <<mode, txbuf, wire, restarts, ring, erxrdpt, sampled, receiving, sendq,
                   transmit_error_>>

\* Writing the frame into the buffer takes many transfers.
SendFill ==
    /\ cpu = "fill"
    /\ txbuf' = Garbage
    /\ cpu' = "program"
    /\ UNCHANGED <<mode, txrts, wire, restarts, ring, erxrdpt, flags, sampled, receiving,
                   sending>>

SendProgram ==
    /\ cpu = "program"
    /\ txbuf' = Head(sendq)
    /\ cpu' = "trigger"
    /\ UNCHANGED <<mode, txrts, wire, restarts, ring, erxrdpt, flags, sampled, receiving,
                   sending>>

SendTrigger ==
    /\ cpu = "trigger"
    /\ txrts' = TRUE
    /\ sender' = "waiting"
    /\ cpu' = "free"
    /\ UNCHANGED <<mode, txbuf, wire, restarts, ring, erxrdpt, flags, sampled, receiving,
                   sendq, transmit_error_>>

\* Woken: the assertion stops the program after an aborted transmission;
\* otherwise the mutex goes to the next caller and the call returns.
SendWoken ==
    /\ cpu = "free" /\ sender = "woken"
    /\ transmit_error_' = FALSE
    /\ \/ transmit_error_ /\ cpu' = "stopped" /\ UNCHANGED <<sendq, sender>>
       \/ /\ ~transmit_error_
          /\ sendq' = Tail(sendq)
          /\ sender' = IF Len(sendq) > 1 THEN "ready" ELSE "none"
          /\ UNCHANGED cpu
    /\ UNCHANGED <<mode, ring, erxrdpt, flags, transmitter, sampled, receiving>>

Send == SendReset \/ SendFill \/ SendProgram \/ SendTrigger \/ SendWoken

-----------------------------------------------------------------------------
Next ==
    \/ \E f \in Frames : ChipReceive(f)
    \/ ChipTransmitted \/ ChipAborted \/ ChipReady
    \/ Setup \/ Poll \/ Run \/ RecvPacket
    \/ \E t \in Senders : SendPacket(t)
    \/ Send

Spec == Init /\ [][Next]_vars

\* The chip finishes what it transmits and becomes ready.  The main loop polls again and again,
\* and runs what is in the run queue before it polls again.
Fairness ==
    /\ WF_vars(ChipTransmitted \/ ChipAborted)
    /\ WF_vars(ChipReady) /\ WF_vars(Setup) /\ WF_vars(Poll)
    /\ SF_vars(Run) /\ SF_vars(Send)

FairSpec == Spec /\ Fairness

-----------------------------------------------------------------------------
(***************************************************************************)
(* Properties.                                                             *)
(***************************************************************************)
\* The buffer is never written while the chip transmits from it, and what the
\* chip transmits is the frame of the call that holds the mutex, or a repetition
\* of the one sent last (send_packet).
TxBufferStable ==
    /\ cpu \in {"fill", "program", "trigger"} => ~txrts
    /\ txrts /\ cpu # "reset" =>
           \/ sendq # <<>> /\ txbuf = Head(sendq)
           \/ wire # <<>> /\ txbuf = Last(wire)

\* run() reads the ring only when there is a frame in it: however many times
\* do_poll runs before the coroutine it woke, the coroutine either finds the
\* error flag set or a frame (run, do_poll).
WokenForAFrame ==
    /\ runner = "woken" /\ ~receive_error_ => epktcnt > 0
    /\ cpu \in {"read_data", "free_ring", "hand_over"} => epktcnt > 0

\* From setup() on: with every frame handed over, the whole ring but one unit is
\* free, and run() is where the next frame will be (setup, run).
RoomWhenDrained ==
    epktcnt = 0 /\ rxen /\ cpu # "reset" =>
        /\ cur_ptr = erxwrpt
        /\ erxrdpt \notin UnitsFrom(erxwrpt, RingSize - 1)

\* Every call of send_packet returns: again and again none is under way, unless
\* an aborted transmission stopped the program (send_packet, do_poll).
EverySendReturns == []<>(sendq = <<>> \/ cpu = "stopped")

\* Every frame the chip accepted is handed over in the end: again and again none
\* is left in the ring, unless the program was stopped (run, do_poll).
EveryFrameDelivered == []<>(stored = <<>> \/ cpu = "stopped")

\* The driver is a network interface as the stack expects it: frames in order,
\* whole and once; callers return after their own frame went out.
OnTheWire == {t \in Senders : sendq # <<>> /\ t = Head(sendq) /\ t \in ToSet(wire)}

Abstract == INSTANCE Nic WITH
    rxq <- recv_queue_ \o stored,
    calling <- IF OnTheWire = {} THEN sendq ELSE Tail(sendq),
    transmitted <- OnTheWire

ImplementsNic == Abstract!NicSpec
=============================================================================
