# Models of tart

TLA+ modules, TLC configurations and TLAPS proofs for
[tart](src/README.md), an asynchronous C++20 library for microcontrollers
(RP2040, STM32F103): start-up of the two chips, pins and serial log, SPI
transfers, an ENC28J60 Ethernet driver and a small IPv4 stack (ARP, ICMP, UDP, TCP), written as
coroutines on one thread.

Paths below are relative to the repository (`src/`). The repository has no
tests; libasync, frigg, libarch and cxxshim are submodules that are not part of
it, so what they do is modelled from how the code uses them. At this commit
`meson.build` leaves the STM32F103, the network stack, the ENC28J60 and W25x
drivers and `service.cpp` out of the build while the RP2040 port is under way;
they are modelled as they stand.

## How the program runs

One thread. A coroutine runs until it awaits something that is not ready;
raising an event puts its waiters on the run queue, and they run later, in an
order the models leave open. The main loop (`io_service`, `irq_service`) drains
the run queue, then polls the drivers (`do_poll`), then waits for an interrupt.
What is concurrent is therefore: coroutines, between two awaits; the chips
(ENC28J60, SPI shift register, UART, oscillators, PLLs, multiplexers), at any
time; the network
and other hosts; and a reset of the core, at any time.

## Inventory

| Part | State | Operations | Calls, is called by | What is hard | What makes it correct |
|---|---|---|---|---|---|
| TCP endpoint (`src/net/ipv4/tcp.cpp`) | list of sockets; per socket addresses, state and next state, sequence numbers, receive queue, events | `push_packet`/`process_packet`, `listen`, `connect`, `recv`, `send`, `close` | dispatcher calls in, owners call in, replies go to the NIC | dispatcher and owner interleave at every await; `close` deletes the socket; events are not latched; sequence numbers wrap; loss, repetition | streams arrive in order, no acknowledged byte is lost, no wake-up is lost, nothing deleted is used, every connection and close ends |
| ENC28J60 (`src/drivers/enc28j60.cpp`) | receive ring of the chip, flags, read pointers, receive queue, the call that sends | `setup`, `do_poll`, `run`, `recv_packet`, `send_packet` | polled by the loop; used by the stack through `net::nic` | flags are sampled, acted on and cleared separately; the ring wraps; a register write can repeat a transmission; `setup` meets a chip that an earlier run left | it is a NIC: frames whole, in order, once; calls return after their frame went out |
| UDP and ports (`udp.cpp`, `net/port.hpp`) | list of sockets, receive queues; bitmap of ports | `push_packet`, `listen`, `connect`, `recv`, `send`, `close`; `allocate`, `free` | dispatcher, owners, ARP | a listening and a connected socket on one port; ports leak | one socket per peer and port, only the peer's datagrams, the allocator's ports are accounted for |
| ARP (`src/net/arp.cpp`) | routes with a doorbell each | `push_packet`, `mac_of` | dispatcher, UDP and TCP senders | several callers, one query; the answer before the query's send returns; loss | one route per address, results are answers, calls return |
| Packets (`net/builder.hpp`, `checksum.hpp`, `ether.hpp`, `ipv4.hpp`, `icmp`, `tcp`, `udp`) | a buffer built in three passes | `build_packet`, `from_*`, dispatch, reply to a ping | all processors | sizes, padding, odd lengths, patched lengths | checksums verify, what is parsed is what was built |
| SPI (`chip/transmit.hpp`, `chip/spi.hpp`, stm32 `spi.cpp`) | position of the transmitter and the receiver in a list of operations | `do_transmission` | ENC28J60, W25x | the shift register runs by itself and a late processor loses a byte | bytes out as asked, bytes in at their place |
| Clocks (`drivers/clk`, `drivers/reset`, `hw.hpp`) | enables, multiplexers, dividers, PLLs, oscillator, resets | start/stop of each, `hw_initialize` | boot | hardware follows late; the core is reset alone; codes of inputs differ between clocks | the processor keeps its clock, waits end, a clock runs at its `freq()` |
| PLL parameters (`rp2-pll.hpp`) | loop counters, best setting | `rp2_pll_params::compute` | Clocks, at compile time | ties, truncation, both directions | the closest setting |
| GPIO, UART, log of the RP2040 (`drivers/gpio`, `drivers/uart`, `log.cpp`) | pins, registers, FIFO, log sink | `init`, `configure`, `set`, `toggle`, `try_write`, `blocking_write` | `hw_initialize`, the program | order of reset, pins and divider; a full FIFO; a reset while bytes are under way | what is logged is what a terminal reads |
| STM32F103 (`chip/stm32f103x8`) | clock configuration, enables, wait states, pins, USART, SPI interfaces | `platform::setup`, `spi_dev`, `usart::send` | boot, SPI | the order of prescalers, wait states and switches; peripherals without a clock lose writes | no clock exceeds its limit, the console can be read, transfers work |
| Event loop (`irq_service.hpp`, `async/service.hpp`) | queue of pollables, pending flag | `post`, `wait`, `run_iteration` | everything | test-then-wait race, starvation of pollables | nobody runnable is left waiting |
| Time (`time.hpp`, `systick.cpp`) | 64-bit counter | `ms_now`, interrupt | drivers | torn read | monotone |
| Boot, vector table, allocator, buffers, atomics, runtime | – | – | – | – | see *Not modelled* |
| W25x | – | two flash commands | – | – | see *Not modelled* |
| Example service (`src/service.hpp`) | – | accept loop and `connection_worker` | TCP | – | through Tcp: it is the owner of the sockets |

`PROJECT.json` has the same list with the status of each part, the hazards
of the code at their lines with the properties that cover them, and for every
definition the lines it was translated from.

## Modules

Each component module has its state as VARIABLES, one action per stretch of
code between two awaits (or per register access, where the hardware can come
between two), and ends with its properties. Names are those of the source where
TLA+ allows. `MC*` modules give the instances, `*Proofs` modules the theorems.
Definitions called `Mutant...` are plausible bugs of the definition they precede
and are used only to see that a property notices them.

    Tcp  <-extends-  TcpLink           TcpLink is proved to implement Tcp
    Nic  <-implemented by-  Enc28j60   proved and checked, ImplementsNic
    Board  -extends->  Clocks, PllParams      compiler, clock tree, pins, UART
    Stm32  -extends->  Spi                    set-up of the chip, then transfers
    Udp (with the port allocator)   Arp   Packets

Clocks, PllParams and Spi are components without a next-state relation that runs
by itself in a configuration: Board and Stm32 compose them with what comes before
and after, and it is the compositions that TLC runs. (PllParams has one,
`SearchNext`, which Board takes as its own step and the proofs are about.)

**Tcp.** The dispatcher takes a segment (`PushPacket`), `process_packet` picks
its branch (`TakeAck`, `TakeSyn`, `TakeFinAck`, `TakeFin`, `TakeData`); a branch
that replies suspends the dispatcher (`disp`) until the NIC has sent the reply,
and goes on in `AfterSynAck`, `AfterFinAck`, `AfterDataAck`, `AfterLastAck`. The
test of `state_` that follows each await in the code is `LaterBranches`. The
owner of a socket is where `own` says: `Listen`, `Accept`, `RecvWait`,
`Cancelled`, `Take`, `Ignore`, `Answer` (`Send`), `SendDone`, `Close`,
`FinSent`, `Closed`. The module is open: any segment of `Packets` may arrive at
any time.

**TcpLink** closes it with peers that connect, send their script, acknowledge,
retransmit and close, and with a network that keeps the order of segments and may
lose them. `got` is the history of what each worker received. An assertion that
fails stops the system (`failed`).

**Nic** is what the stack relies on: `Arrive`, `HandOut`, `Call`, `Air`,
`Repeat`, `Return`. **Enc28j60** has the chip (`ChipReceive`,
`ChipTransmitted`, `ChipAborted`), `do_poll` from its reading of the registers to
the last flag it clears, each flag with an access of its own
(`PollStart`, `PollReceive`, `PollTransmit`, `PollTxif`, `PollEnd`), `run` from its wake-up to the update of the read
pointer (`RunWoken`, `ReadData`, `FreeRing`, `HandOver`, `RunYielded`) and
`send_packet` (`SendReset` ... `SendWoken`). The ring is in units of a frame's
length. `setup` has its waits between its steps (`SetupReset`, `SetupWaitOst`,
`SetupRing`, `SetupPhy`, `SetupEnable`); `Init` is a chip after power-up or with
frames, flags, pointers and a transmission that an earlier run left. The
refinement maps the frames in the ring behind those of `recv_queue_`.

**Udp**, **Arp**: the processors' `push_packet` and the calls of the program,
split where they await. The port allocator is `bitmap_`. **Packets**: one step
for each of the three passes over each part, bytes as in the buffer.

**Spi**: each access of the data register is an action (`SendByte`, `RecvByte`),
the shift register has its own (`Shift`, `Exchange`). **Stm32** gives it the chip
around it: `platform::setup` and the constructor of `spi_dev` as a list of
register accesses (`Setup`), one `SetupStep` each, the oscillators
(`Settles`), and USART 1 (`UsartSend`, `UsartShifts`). `SysClk`, `Ahb`, `Apb`,
`Adc` are the rates a configuration gives.

**Clocks**: each register access of `start` and `stop`, each loop that waits, and
the hardware (`XoscSettles`, `PllLocks`, `MuxSwitches`, resets); `ClockRate` is
what a clock comes to run at. **PllParams**: a turn of a loop per step.
**Board**: the compiler runs PllParams for both PLLs (`Compile`), then the
program its calls: those of Clocks, the resets of the blocks (`ResetBlock`), pins
(`Configure`, `Set`, `Toggle`), the UART (`SetUart`) and the log (`LogBegin`,
`WriteByte`, `LogEnd`); the UART sends (`UartSends`) to a terminal set to the
rate asked for, and the core may be reset (`RestartCore`). Processor steps need
`SysRuns`: without CLK_SYS nothing executes.

### What the models abstract

- Wake-ups are deferred through the run queue. If `raise()` ran the waiter at
  once, `closed_.raise()` (`tcp.cpp:77`) would delete the socket before
  `cancel_closed_` of the same socket is used.
- Every TCP socket has one owner, as in `service.hpp`: `send_mutex_` is never
  contended. `connect()` and `want_syn_ack` are not modelled; nothing calls them.
- The acknowledgement number of a received segment plays no part in Tcp, because
  the code never reads it, nor do received checksums, which it never checks.
- Local TCP ports are below `port_allocator::base`, so `close()` frees none. UDP
  listens below it, too (`UdpAssumption`): closing a listening socket at or above
  it frees a port that was not allocated.
- Payloads are sequences of few byte values, addresses are model values; only
  Packets has bytes. Sequence numbers are modulo `SeqSpace`.
- An SPI operation of size 0 is excluded (`SpiAssumption`): `do_transmission`
  would not end.
- Frequencies are in units that divide all of an instance's: 25 Hz in MCBoard,
  100 Hz in MCSpi. The truncated quotients of the code come out as they do in Hz
  where the code divides by products of these; the quotients of PllParams are
  those of the unit.
- A block or peripheral in reset, or without a clock, loses what is written to
  it. A terminal reads a byte when the rate is within a step of the divider
  (MCBoard) or 2 % (MCSpi) and the pin is routed and its output on.
- In Stm32 the NSS pins, pa4 and pb12, are taken to be high: `spi.cpp:36` and
  `:45-46` clear `ss_oe`, `ssm` and `ssi`, so that NSS is an input and a low one
  would end master mode. Bytes have no parity: with it `word_length(false)` would
  leave seven bits of data.
- Of `close()` in Tcp the branch that waits for `notify_` (`tcp.cpp:215-220`) is left
  out: `CloseStates`, checked and proved, says that no worker reaches it. A worker
  closes its socket once, so that a repeated `close()` does not occur.
- In Enc28j60 two assertions of the driver are left out, that a frame is shorter than
  1522 bytes (`enc28j60.cpp:180`; the chip keeps longer ones out) and that the status
  vector has the bit for a finished transmission (`:262`).

## Runs

| Run | Instance and bounds | Shows |
|---|---|---|
| MCTcp | 2 sockets, 1 port, 2 remote ports, sequence numbers modulo 4, 11 segments (SYN, ACK, data, FIN, in and out of order) that may arrive at any time and any number of times, queue of at most 1 | `TypeOK`, `NoUseAfterFree`, `OneBranchPerPacket`, `NoLostWakeup`, `CloseStates` |
| MCTcpPolite | 2 peers, 2 sockets, numbers modulo 16 that wrap in the first peer's data, its request of 1+2 bytes, an answer of a byte, a second peer that only connects and closes; fairness | `StreamInOrder`, `PeerTakesAll`, `AssertsHold`, `EveryPeerFinishes`, `EveryCloseReturns`, `EveryRequestAnswered` |
| MCTcpLossy | 1 stop-and-wait peer, two segments of 2 bytes, answers of 2 bytes, 2 losses, 2 retransmissions | `StreamInOrder`, `AckedIsDelivered` |
| MCTcpPipelined | 1 peer, two requests of a byte, that does not wait: it sends the next request, or half-closes, before it has the answer | `AssertConnectedHolds` is violated |
| MCEnc28j60 | a chip left in any state by an earlier run, then `setup`; frames of 1, 2 and 2 units, ring of 4, so that frames wrap and one is refused; 2 calls of `send_packet`, the second may be aborted; 1 repeated transmission; fairness | `TxBufferStable`, `WokenForAFrame`, `RoomWhenDrained`, `ImplementsNic`, `EverySendReturns`, `EveryFrameDelivered` |
| MCUdp | 3 sockets, used again after close, 3 allocator ports, 2 hosts, queue of at most 1, lengths that parse right and wrong; sockets and hosts are symmetric | `OneSocketPerPeer`, `PortsAccounted` |
| MCUdpPorts | 2 sockets, 4 allocator ports | `PortsRunOutFairly` is violated |
| MCArp | 3 callers, 2 hosts, one with two addresses over time; 1 query by each host, 1 loss, 1 answer repeated or unasked; fairness | `OneRoutePerHost`, `ResultIsAnAnswer`, `NoReplyUnasked`, `EveryCallReturns`, `EveryQueryReplied` |
| MCSpi | `setup` of the STM32 at 72 MHz from an 8 MHz crystal, 5 lists of operations of every kind, buffers of 4 bytes, 3 calls, processor early or late, 2 bytes for the USART; fairness | `SentAsAsked`, `ReceivedInPlace`, `ReceiverBehind`, `WithinLimits`, `ConsoleInOrder`, `Completes` |
| MCBoard | the dividers and limits of the hardware, PLL settings for 12 and 7 MHz and four targets, searched in both directions; with the board's settings `hw_initialize`, everything stopped, `hw_initialize`, a LED that blinks, messages of 1 and 3 bytes for a FIFO of 2; 2 resets of the core anywhere; fairness | `CpuClocked`, `StartedRuns`, `Closest`, `LogOnTheLine`, `ProgramEnds` |
| MCBoardRate | the same without resets | `RunsAtFreq` is violated |
| MCPackets | 2 hosts, payloads of 0, 1, 2, 3 and 5 bytes with words that carry, options, padding | `ChecksumsVerify`, `ParsedAsBuilt`, `EchoReturnsPing` |

Why the bounds are enough. In MCTcp the hazards are between one owner, the
dispatcher and one other connection on the port, which two sockets give; the
set of segments has one for each branch and each way to be out of place. A ring
of four units is the smallest in which frames of two sizes wrap at different
places and one must be refused. Three UDP sockets and three
allocator ports are two that share a port beside one of its own, and let the
allocator run dry. Three ARP calls are
two for one host and one for another. In MCBoard the ranges of the search are
those of the code; a FIFO of two is full in the middle of a message of three and
between two messages. Two resets of the core let the second fall
into the recovery from the first. `CHECK_DEADLOCK FALSE` is set where scripts and
budgets end, or where a failed assertion stops the program.

### Properties that read less plainly than they are meant

Each module states its types (`TypeOK`, `TreeTypeOK`, `SpiTypeOK`,
`SearchTypeOK`); a run lists them for Tcp only, the others are there for the
reader and for proofs. `ActorsAgree` and `BestOfVisited` are proved and not listed
by a run.

`CloseStates`: with it the branches of `close()` that Tcp has are all that a worker
takes. It rests on the order of listen, handshake and worker, and on
`process_packet` noting in `next_state_` that a socket in `want_ack` is about to be
closed and not opened.

Liveness is stated as "again and again nobody is waiting" (`[]<>`) where the
number of calls, frames or queries is finite: as each is made once, this says
that each one ends.

`NoLostWakeup`: `closed_` and `notify_` are raised, not latched; a coroutine that
waits on one must be in a state from which the raise is still to come. The
second test of `state_` in `close()` is what this rests on.

`AckedIsDelivered`: the code acknowledges data before it queues it. Between the
two the bytes are in the hands of the dispatcher; otherwise whatever a peer has
seen acknowledged has been queued, except on a socket that was closed.

`StreamInOrder` on a lossy network holds for a peer that has one segment under
way. `process_packet` accepts any `seq_num >= in_seq_` (`tcp.cpp:112`), so with a
window a segment after a lost one is taken with a gap. The peer's segments have
two bytes: the code also accepts `in_seq_ - 1`, and a repeated segment of one
byte would be delivered twice. The numbers of this run do not wrap: the comparison
of `tcp.cpp:112` is of plain integers, so that after a wrap an old segment would be
taken again. Nothing in the repository says otherwise; what holds is that numbers
wrap safely where nothing is repeated (MCTcpPolite).

`Completes` and `ReceivedInPlace`: a processor that is late by a byte loses it.
`do_transmission` then waits for ever, and never returns with bytes at the wrong
place.

`PortsAccounted` has the leak in it: the ports that `listen()` allocated and
nothing frees are `listened`. What it shows is that nothing else leaks, is freed
twice or is given to two connections.

`Closest` speaks of the end of a search. Board has a search for each crystal and
target of the instance; those of the board go on to the rest of the program,
where the compiler's variables are gone (`pc = "returned"`).

`LogOnTheLine` is about bytes as the terminal reads them: it needs the clock
of the UART to run at the rate `freq()` claims, the divider, the pins, the resets
and the FIFO to be right together. A byte of a message from before a reset of the
core that is still in the FIFO when it happens is no part of the log.

`ProgramEnds` and `CpuClocked` hold although CLK_SYS runs from the wrong PLL:
both PLLs are started.

## Fairness

- TcpLink: weak fairness of the endpoint as a whole (its NIC transmits, its
  coroutines run: the run queue is drained between polls), of the delivery of
  each peer's segments and of each peer's own steps. Nothing is fair about loss,
  retransmission, or which of two enabled coroutines runs first.
- Enc28j60: the chip ends a transmission and gets ready after its reset,
  `setup` goes on, `do_poll` is called again and again; strong fairness of `run`
  and `send_packet`, as the loop empties the run queue before it polls again, while
  the poll disables them in between. `io_service::wait` stops at the first
  pollable that is busy (`async/service.hpp:22-25`), which would starve those
  behind it; the NIC is the only one that is ever attached, so its poll is not.
- Arp: callers proceed, the NIC sends, the dispatcher takes frames, a host that
  hears a query answers it.
- Stm32: the processor executes, enabled oscillators settle, the shift register
  and the USART send what they hold. A late processor is left to chance.
- Board: the compiler ends, the processor executes while it has a clock, an
  oscillator that is on settles, a PLL that is on locks, a multiplexer with both
  inputs running switches, the UART sends while its clock runs. Nothing is fair
  about resets of the core.

## Disagreements in the code

Shown by a run (see `findings` in PROJECT.json):

- `send()` asserts `connected` (`tcp.cpp:176`), `connected()` is also true in
  `want_ack`: a request that follows before the answer to the one before is
  acknowledged, or a half-close before the answer, stops the program
  (MCTcpPipelined; TLC's shortest trace is the half-close).
- "out of ports..." (`port.hpp:22`): each UDP `listen()` keeps a port for ever
  (MCUdpPorts).
- `rp2-clk.cpp:107`: the code of CLK_SYS's auxiliary input is looked up among
  those of the generic clocks, where `pll_sys` is 1; in CLK_SYS_CTRL 1 is
  `pll_usb` (`hw/rp2040/clocks.hpp:42-44`). With the board's settings the
  processor runs at 48 MHz, not at the 125 of `hw.hpp:51` (MCBoardRate).

Met while translating; the models do what the code does:

- `assert(tcp.ack)` (`tcp.cpp:106`) is reached by the SYN of another host that
  uses the source port of an open connection, as sockets are chosen by ports only
  (`tcp.cpp:35`). No run is kept for it; MCTcpPolite with `PeerAddress` giving both
  peers the same port refutes `AssertsHold` in ten states.
- `udp.hpp:28`: in `(hi << 8) | lo - 8` the subtraction binds first; for a low
  byte below 8 the length is wrong and the datagram is taken for a fragment
  (`LengthParsed`).
- `port.hpp:29`: closing a UDP socket that listened on a port of the allocator's
  range frees what was not allocated.
- `transmit.hpp:56`: `xfer_buffers(out, in)` fills `in_ptr` with `out` and the
  other way round; right only for an exchange in place (`Operation`).
- `rp2-clk.cpp:103`: CLK_PERI's input is looked up with the RTC's attachment:
  `pll_usb`, whose code among CLK_PERI's is 1, and 1 is `pll_sys` on the chip. So
  CLK_PERI runs at the 125 MHz that `freq()` says, though it is attached to
  CLK_SYS, which does not. Two errors cancel, and the log can be read: correcting
  the attachment alone makes CLK_PERI follow CLK_SYS to 48 MHz and the log
  illegible (`MutantPeriAttached` is that correction, which `LogOnTheLine` refuses).
- `rp2-clk.cpp:125`: the quotient is the inverse of the divider that the comment
  above it speaks of; the RTC gets 0, which divides by 65536.
- `rp2-osc.cpp:13`: `disable_v` is the value of `enable_v`; `stop()` leaves the
  oscillator running.
- `rp2-gpio.cpp:61`: the pull-up follows the `pull_down` flag, against
  `gpio.hpp:7`: the pin of rx, which asks for a pull-up, gets none (`Configure`).
- `pl011.cpp:61`: the fraction of the divider is rounded and may come to 64, which
  the six bits of the register take for 0. At 125 MHz and 115200 it does not.
- `spi_dev` makes its select pin an output before it sets it high: the device is
  selected for a moment (`GpioSetup`).

## Proofs

Checked by TLAPS for every value of the constants that the ASSUMEs of the
modules allow. `Lemmas` has the facts about sequences, least elements, induction
over numbers and counting that several of them cite.

**TcpProofs**, `Spec => []...` for Tcp: `TypeCorrect` (`TypeOK`),
`ActorsAlwaysAgree` (`ActorsAgree`), and from it `MemorySafety`
(`NoUseAfterFree`), `SingleBranch` (`OneBranchPerPacket`), `WakeupsArrive`
(`NoLostWakeup`), `CloseBranches` (`CloseStates`). None of the four is inductive:
that a socket is not deleted while the dispatcher is inside it follows from no
local fact, but from where the owner can be in each state of the socket.
`ActorsAgree` says that: `OwnerInv` relates `own` to `state_`, `next_state_` and
the cancellation, `DispatcherInv` the position of the dispatcher to both, and
`ListInv` keeps the list free of deleted and repeated sockets. The proof has one
lemma for each group of actions (the branches of `process_packet`, what follows a
reply, the owner's steps) and assumes `DispatcherAssumption`,
`PacketsAssumption`, `ResponsesAssumption`, `AddressAssumption`,
`SeqSpaceAssumption`.

**TcpLinkProofs**: `LinkImplementsTcp`, `LinkSpec => Spec`: each step of the
closed system is a step of the open one or leaves it unchanged. With it the
properties of Tcp hold for the closed system (`LinkMemorySafety`).

`StreamDelivered` (`StreamInOrder`) and `AssertsNeverFail` (`AssertsHold`) hold
under `PolitePeers`: peers that wait for the answer to a request before the next,
with a port each, on a network that loses nothing, or on one that loses segments
in either direction, which the peers repeat (`Lossy /\ Distinguishable`): for any
number of peers and sockets, any scripts, payloads, initial sequence numbers,
sequence space and number of losses. The hypotheses are there for a reason:
MCTcpPipelined shows `assert(state_ == connected)` fail with an impolite peer; the
SYN of a second peer with the same port reaches a connected socket, without an ACK;
and as `process_packet` compares sequence numbers as plain integers and lets
`in_seq_ - 1` in, a repetition is told from new data only where the numbers do not
wrap and no segment is a single byte (`Distinguishable`). That
`send()` finds its socket connected is a fact about all parties at once: a peer
acknowledges an answer before it sends more, in order, so when the end of the next
request is in the queue the endpoint has taken that acknowledgement; and a peer
closes only when all its requests are answered. The invariant,
`LinkInv`, therefore has for each connection (`ConnInv`) three counts, of the
pieces that the worker has taken, the receive queue has got and the endpoint has
acknowledged (`Facts`), and ties the state of the socket to what is on its way:
nothing the peer must acknowledge (`Opened`), a SYN-ACK or answer (`Waiting`), or
the peer's acknowledgement of it ahead of everything else (`Acked`). When the peer
closes, the worker may still have pieces to take, none of which ends a request
(`Passive`). TLC checked `LinkInv` on the instance of MCTcpPolite before it was
proved.

That is the invariant without losses (`KeptFlow`). With them, segments of the peer
may be anywhere in any number of copies, so that `LossyFlow` says what may be on
the way at all: of the peer, acknowledgements of no more than the endpoint has,
pieces up to the one it has sent last, and its FIN once all is answered
(`Known`); of the endpoint, acknowledgements of no more than it has (`Numbered`);
and that the peer is at most one segment ahead (`Window`). An old segment is then
below `in_seq_ - 1` or the piece the endpoint has last, of two bytes or more, and
is dropped. `AcknowledgedDelivered` (`AckedIsDelivered`, with `Lossy`): the peer
has `acked` at most what the endpoint has counted (`Window`, `Closing`), and that is
in the queue or in the dispatcher's hands (`Facts`); that the exception for closed
sockets is the owner's own `close()` is `CloseCancels`.

`EverythingTaken` (`PeerTakesAll`, with `NothingLost`): the segments on their way to
a peer, first those of the network, then those of the NIC, follow on each other from
what the peer expects to what its socket sends next (`Chain`, `SequenceInv`). The
endpoint has two variables for that next number: `out_seq_` of a connected socket,
`next_out_seq_` of one that waits for an acknowledgement, since `process_packet`
copies it only then. `close()` numbers its FIN from `out_seq_` in both states; that is
right because `send()` sets both, and because a socket whose SYN-ACK is not
acknowledged yet, where they differ, has no worker to close it (`Counted`). TLC checked
`SequenceInv` on the instance of MCTcpPolite first.

**Enc28j60Proofs**: `BufferIsStable` (`TxBufferStable`), `AlwaysAFrame`
(`WokenForAFrame`), `DrainedRingIsFree` (`RoomWhenDrained`), and `DriverIsANic`:
the driver on its chip implements Nic under the refinement mapping of
`ImplementsNic`, step by step. The inductive invariant has two halves. Received:
the frames not yet read lie in the ring one after the other, from where `run` will
read to where the chip will write (`RingHolds`, with the pointers that wrap), and
the chip's count, what `do_poll` sampled of it and the place of `run` agree
(`RunnerAgrees`, `SampleAgrees`). Sent: who holds the mutex, which frame is in the
buffer and which flags can be seen while it has not gone out (`CallsAgree`,
`Transmits`, `NotYetAired`). Without the layout of the ring the refinement fails
at the first wrap: what `run` hands out is what the chip wrote only because
pointers and lengths agree.

**UdpProofs**: `DatagramsGoToOneSocket` (`OneSocketPerPeer`), `AllocatorAccounts`
(`PortsAccounted`) and `FreeNeverFails`, that the assertion of
`port_allocator::free` holds. One socket per peer rests on the order of the list:
on each port the sockets that listen come after those with a peer
(`ClaimedFirst`), so that a datagram of a peer never claims a second one.

**ArpProofs**: `RoutesAreUnique` (`OneRoutePerHost`), `ResultsAreAnswers`
(`ResultIsAnAnswer`), `RepliesAreAsked` (`NoReplyUnasked`). A caller that was
woken reads the table later: the address of every resolved route is one that its
host gave (`ResolvedIsAnAnswer`). That no reply goes out unasked needs a count of
the queries of each host still to be dispatched (`QueriesCounted`).

**SpiProofs**: `ReceiverIsBehind` (`ReceiverBehind`) for every list of requests;
`EveryByteIsSent` (`SentAsAsked`) and `AnswersAreInPlace` (`ReceivedInPlace`)
under `CallsApart`: no request receives into what a later one of the same call
sends or another one receives into, and an exchange is in place. MCSpi has this
as an ASSUME of its calls; the code's callers keep to it, and without it the
statements are false. `CountInv` accounts for each byte between transmitter,
shift register, receiver and loss, `DataInv` says which byte each of them and
each place of memory holds, by the number of bytes before it (`Position`); the
properties themselves speak only of the end of a transfer.
Of the chip that Stm32 sets up: `ClocksWithinLimits` (`WithinLimits`) for an
internal oscillator of at most 24 MHz and every crystal of at most 8 MHz, and
`ConsoleReads` (`ConsoleInOrder`) for a crystal of 8 MHz and every rate below 2.88
Mbaud (`Terminal`). `SetupInv` says what each step of `setup()` has left in the
clock configuration, by the number of the step; `ConsoleInv` that `usart::init` has
the nearest divider at the clock which that makes (within the terminal's tolerance,
by `NearestIsNear`) and that all that was sent but the byte that waits has been
read.

**BoardProofs**: the search for PLL parameters, for any ranges of the dividers
and the oscillator: `SearchTypeCorrect`, `KeepsBest` (`BestOfVisited`, the loop
invariant: nothing visited is closer than `best`), `ReturnsClosest` (`Closest`
of a search by itself), and `BoardSearchesClosest` (`Closest` of Board).
`ProcessorKeepsItsClock` (`CpuClocked`): in any program that starts or stops a
PLL only where `preinit_clks_to_internal` has put CLK_REF and CLK_SYS on their
first inputs, with no start of them in between (`PllsFreed`), CLK_SYS always has
a source that runs, resets of the core included; and
`HwInitializeKeepsTheClock`: `hw_initialize` is such a program. The invariant
(`ClockInv`) says where each multiplexer stands at each place of the program,
looking back along it (`InternalIn`).
`StartedClocksRun` (`StartedRuns`): what `start` has returned for runs until it is
stopped, in any program that starts nothing again that is up and keeps the source of
a clock up for as long as the clock is (`Orderly`); `HwInitializeStartsTheClocks`:
`hw_initialize` is one, whatever is attached to what. The invariant, `StartedInv`,
says of each unit what its registers hold once it is up (`Serves`) and at each line
of its `start` (`Ready`). That a second `start` after a reset of the core finds a PLL
locked or a multiplexer switched already, and that the registers of a PLL in reset
take no write (`Freed`), are in it.
`LogsOnTheLine` (`LogOnTheLine`): the terminal reads what is logged, each byte once and
in order, in any program that sets up first what it logs through (`SetsUp`), with a
divider that fits its registers and a clock that runs as `freq()` says (`Readable`);
`HwInitializeLogs`: every program that begins with `hw_initialize` does. The invariant
(`LogInv`) says of the program's calls what each leaves once it has been made (`Made`)
and that no later call, of the program or of another run, undoes it: the blocks that
are out of reset (`BlocksInv`), the PLLs' settings, exact where the target can be made
(`PllInv`), the source of CLK_PERI (`PeriInv`), the divider and the pin (`PortInv`).
From them every byte that leaves the FIFO while there is a sink is legible (`Legibly`):
the divider is off by less than one of its steps (`DividerError`), although each of its
parts is a truncated quotient. `Queued` is the order of the bytes, with those that an
earlier run has left in front.

Hypotheses other than the ASSUMEs: `CallsApart`, `PllsFreed`, `Orderly` and `SetsUp`, about
the calls a program makes, which hold of the programs TLC runs and of those in the
repository; `Readable`, about the rate of the UART, which holds of the board's 115200
baud at 125 MHz (a divider of 67 and 52/64) and fails where the quotients give a
fraction of 64; and `PolitePeers`, about the clients and the network, which holds of
MCTcpPolite and MCTcpLossy, with `NothingLost`, which holds of the former, and
`Lossy`, which holds of the latter.

Only model-checked: everything under fairness, and what folds over data compute,
which is outside what TLAPS's backends reach (Packets).

## Not modelled

- Event loop: a thin layer over libasync, whose source is elsewhere. Nothing posts
  to `irq_w` and nothing is attached to `io_service` at this commit; `wait()` tests
  `pending_`, neither volatile nor behind a barrier, which the compiler may read
  once before the loop, so that a model would show one build's behaviour. Other
  modules take from it what *Fairness* says.
- Time: the vector of `systick` is null (`arm-vector-table.hpp`) and nothing reads
  `ms_now()`; a 64-bit read in two loads would be torn by a carry.
- Boot: a CRC computed by the compiler, assembly for the flash chip, copying of
  `.data`. Board has that a reset of the core runs the program again, with `.bss`
  cleared and the chip as it was.
- UART: `try_read`, which nothing calls; `fatal`'s endless loop. STM32F103: parity,
  the other USARTs, `gpio::get`, the receive side of the USART, fault handlers.
- Allocator, buffers, atomics: a bump pointer below frigg's slab allocator, whose
  source is elsewhere; a move-only owner; two routines for its spinlock.
- W25x: two stateless commands over the transfers of Spi.
- Runtime (`memcpy`, `strlen`, operators new and delete).
- ENC28J60 `read_phy`, which has no caller; TCP `connect()`, a stub.

## Plan

1. TCP: two peers on a lossy network.
2. The network stack on Enc28j60: Tcp's replies through `send_packet` while
   frames keep coming in.
3. The event loop, once drivers are attached to it again.
