-------------------------------- MODULE Board --------------------------------
(***************************************************************************)
(* A board with the RP2040, from the compiler to the first line of its     *)
(* log: the settings of the PLLs are computed, hw_initialize               *)
(* (include/tart/chip/rp2040/hw.hpp) starts the clock tree with them,      *)
(* takes the pins out of reset, lights the LED and configures the UART,    *)
(* and the program logs through it (drivers/gpio/rp2-gpio.cpp,             *)
(* drivers/uart/pl011.cpp, include/tart/drivers/uart.hpp, src/log.cpp).    *)
(*                                                                         *)
(* The chip works on by itself: the UART sends what its FIFO holds, at the *)
(* rate its clock and its divider give, on whatever pin it is routed to;   *)
(* and the core can be reset at any point, while the chip is not.          *)
(***************************************************************************)
EXTENDS Clocks, PllParams, SequencesExt

CONSTANTS
    Target,        \* target_clk of each PLL
    Baud,          \* uart_params::baud_rate, in the units of Freq
    FifoSize,      \* bytes the UART holds
    Lengths        \* lengths of the messages logged

ASSUME BoardAssumption ==
    /\ Freq["xosc"] \in Inputs /\ Target \in [Plls -> Targets]
    /\ Baud \in Nat \ {0} /\ FifoSize \in Nat \ {0}

VARIABLES
    held,          \* the blocks in reset, PLLs apart
    io, pads, sio, \* the registers of the pins: function, pad, and the outputs
    uart,          \* registers of the UART, and the divider it runs with
    fifo,          \* bytes the UART has yet to send
    terminal,      \* what a terminal on the tx pin has read since the core's reset
    sink,          \* log.cpp: whether a log sink is set
    left, written  \* blocking_write: bytes left; all bytes stored so far

port == <<held, io, pads, sio, uart>>
traffic == <<fifo, terminal>>
logger == <<sink, left, written>>
vars == <<search, tree, port, traffic, logger>>

Pins == {"tx", "rx", "led"}
Fn == [tx |-> 2, rx |-> 2, led |-> 5]
Flags == [tx |-> {"output"}, rx |-> {"input", "pull_up"}, led |-> {"output"}]

\* The registers of the blocks after a reset.
PadOff == [pull_up |-> FALSE, pull_down |-> TRUE, input_en |-> TRUE, output_dis |-> FALSE]
UartOff == [ibaud |-> 0, fbaud |-> 0, divider |-> 0, fifo_en |-> FALSE, on |-> FALSE]

Noise == 0     \* a byte the terminal cannot read, or one of an earlier run

\* The settings of both PLLs are computed.
Built == \A p \in Plls : params[p] # NoSetting

TypeOK ==
    /\ SearchTypeOK \/ Built
    /\ TreeTypeOK
    /\ held \subseteq Blocks \ Plls
    /\ io \in [Pins -> Nat]
    /\ pads \in [Pins -> [pull_up : BOOLEAN, pull_down : BOOLEAN, input_en : BOOLEAN,
                          output_dis : BOOLEAN]]
    /\ sio \in [out_en : SUBSET Pins, out : SUBSET Pins]
    /\ uart \in [ibaud : Nat, fbaud : Nat, divider : Nat, fifo_en : BOOLEAN, on : BOOLEAN]
    /\ fifo \in Seq(Nat) /\ terminal \in Seq(Nat)
    /\ sink \in BOOLEAN /\ left \in Nat /\ written \in Nat

Init ==
    /\ SearchInit /\ TreeInit
    /\ params = [p \in Plls |-> NoSetting]
    /\ held = Blocks \ Plls
    /\ io = [p \in Pins |-> 31] /\ pads = [p \in Pins |-> PadOff]
    /\ sio = [out_en |-> {}, out |-> {}]
    /\ uart = UartOff /\ fifo = <<>> /\ terminal = <<>>
    /\ sink = FALSE /\ left = 0 /\ written = 0

-----------------------------------------------------------------------------
\* The compiler: the settings of pll_sys, then those of pll_usb.  A search with
\* other arguments ends with its result.
Searching(p) == input_clk = Freq["xosc"] /\ target_clk = Target[p] /\ ~low_vco

SysSettings ==
    /\ pc = "done" /\ Searching("pll_sys") /\ params["pll_sys"] = NoSetting
    /\ params' = [params EXCEPT !["pll_sys"] = best]
    /\ target_clk' = Target["pll_usb"] /\ pc' = "outer" /\ fbdiv' = FbdivMax
    /\ pd1' = 1 /\ pd2' = 1 /\ best' = NoSetting /\ best_margin' = target_clk'
    /\ UNCHANGED <<input_clk, low_vco>>
UsbSettings ==
    /\ pc = "done" /\ Searching("pll_usb")
    /\ params["pll_sys"] # NoSetting /\ params["pll_usb"] = NoSetting
    /\ params' = [params EXCEPT !["pll_usb"] = best]
    /\ pc' = "returned"
    /\ UNCHANGED <<arguments, fbdiv, pd2, pd1, best, best_margin>>

Compile ==
    /\ \/ SearchNext /\ UNCHANGED params
       \/ SysSettings \/ UsbSettings
    /\ UNCHANGED <<program, xosc, pll, mux, restarts, port, traffic, logger>>

-----------------------------------------------------------------------------
\* block_reset::reset and rp2_resets::reset.  The UART is out of reset only once
\* its clock runs.
ResetBlock(b) ==
    \/ /\ Here("reset", b, "enter") /\ Untouched(b)
       /\ triggered' = [triggered EXCEPT ![b] = TRUE]
       /\ held' = held \ {b}
       /\ io' = IF b = "io_bank0" THEN [p \in Pins |-> 31] ELSE io
       /\ pads' = IF b = "pads_bank0" THEN [p \in Pins |-> PadOff] ELSE pads
       /\ uart' = IF b = "uart0" THEN UartOff ELSE uart
       /\ fifo' = IF b = "uart0" THEN <<>> ELSE fifo
       /\ line' = "wait" /\ UNCHANGED <<at, sio>>
    \/ /\ Here("reset", b, "enter") /\ ~Untouched(b)
       /\ Return /\ UNCHANGED <<port, fifo>>
    \/ /\ Here("reset", b, "wait") /\ (b = "uart0" => AuxRuns("peri"))
       /\ Return /\ UNCHANGED <<port, fifo>>

\* rp2_gpio::configure; a block in reset takes no write.
Configure(p) ==
    /\ Here("configure", p, "enter") /\ Return
    /\ io' = [io EXCEPT ![p] = IF "io_bank0" \in held THEN @ ELSE Fn[p]]
    /\ pads' = [pads EXCEPT ![p] =
           IF "pads_bank0" \in held THEN @
           ELSE [pull_down |-> "pull_down" \in Flags[p], pull_up |-> "pull_down" \in Flags[p],
                 input_en |-> "input" \in Flags[p], output_dis |-> "output" \notin Flags[p]]]
    /\ sio' = [sio EXCEPT !.out_en =
           IF Fn[p] # 5 THEN @ ELSE IF "output" \in Flags[p] THEN @ \cup {p} ELSE @ \ {p}]
    /\ UNCHANGED <<held, uart, fifo>>

\* rp2_gpio::set, with true and with false, and toggle.
Set(p) ==
    /\ \/ Here("set", p, "enter") /\ sio' = [sio EXCEPT !.out = @ \cup {p}]
       \/ Here("clear", p, "enter") /\ sio' = [sio EXCEPT !.out = @ \ {p}]
    /\ Return /\ UNCHANGED <<held, io, pads, uart, fifo>>
Toggle(p) ==
    /\ Here("toggle", p, "enter") /\ Return
    /\ sio' = [sio EXCEPT !.out = SymDiff(@, {p})]
    /\ UNCHANGED <<held, io, pads, uart, fifo>>

\* pl011_uart::configure: the parts of the divider; ((freq * 1000) / (16 * baud)
\* - int_part * 1000) is written as the thousandths of the remainder.
IntPart == Freq["peri"] \div (16 * Baud)
FracPart == (((((Freq["peri"] % (16 * Baud)) * 1000) \div (16 * Baud)) * 64) + 500) \div 1000

\* The UART takes the divider over when line_control is written, 16 bits and 6.
UartAfter(step) ==
    IF "uart0" \in held THEN uart
    ELSE CASE step = "off" -> [uart EXCEPT !.on = FALSE]
           [] step = "divider" -> [uart EXCEPT !.ibaud = IntPart % 65536, !.fbaud = FracPart % 64]
           [] step = "line_control" -> [uart EXCEPT !.divider = uart.ibaud * 64 + uart.fbaud,
                                                    !.fifo_en = TRUE]
           [] step = "on" -> [uart EXCEPT !.on = TRUE]
UartSteps == {"off", "divider", "line_control", "on"}

SetUart(step) ==
    /\ Here("uart0", step, "enter") /\ Return
    /\ uart' = UartAfter(step)
    /\ UNCHANGED <<held, io, pads, sio, fifo>>

-----------------------------------------------------------------------------
\* tx_full, and what a byte stored does.
Depth == IF uart.fifo_en THEN FifoSize ELSE 1
TxFull == "uart0" \notin held /\ Len(fifo) = Depth
Stored(b) == IF "uart0" \in held \/ Len(fifo) = Depth THEN fifo ELSE Append(fifo, b)

SetLogSink ==
    /\ Here("set_log_sink", "uart0", "enter") /\ Return
    /\ sink' = TRUE /\ UNCHANGED <<left, written, fifo>>

\* A message of n bytes: blocking_write calls try_write until all are stored.
LogBegin(n) ==
    \/ /\ Here("log", n, "enter") /\ sink
       /\ left' = n /\ GoTo("write")
       /\ UNCHANGED <<sink, written, fifo>>
    \/ /\ Here("log", n, "enter") /\ ~sink
       /\ Return /\ UNCHANGED <<logger, fifo>>
WriteByte ==
    /\ line = "write" /\ left > 0 /\ ~TxFull
    /\ fifo' = Stored(written + 1)
    /\ left' = left - 1 /\ written' = written + 1
    /\ UNCHANGED <<program, sink>>
LogEnd ==
    /\ line = "write" /\ left = 0
    /\ Return /\ UNCHANGED <<logger, fifo>>
Log == (\E n \in Lengths : LogBegin(n)) \/ WriteByte \/ LogEnd

-----------------------------------------------------------------------------
\* hw_initialize.
GpioInit == <<<<"reset", "io_bank0">>, <<"reset", "pads_bank0">>>>
UartConfigure ==
    <<<<"reset", "uart0">>, <<"configure", "tx">>, <<"configure", "rx">>>>
    \o [i \in 1 .. 4 |-> <<"uart0", <<"off", "divider", "line_control", "on">>[i]>>]
HwInitialize ==
    StartClocks \o GpioInit \o <<<<"configure", "led">>, <<"set", "led">>>> \o UartConfigure

Processor ==
    /\ Built /\ UNCHANGED <<search, terminal>>
    /\ \/ ClockCalls /\ UNCHANGED <<port, fifo, logger>>
       \/ /\ SysRuns /\ UNCHANGED <<params, xosc, pll, mux, restarts>>
          /\ \/ /\ UNCHANGED logger
                /\ \/ \E b \in Blocks \ Plls : ResetBlock(b)
                   \/ \E p \in Pins : Configure(p) \/ Set(p) \/ Toggle(p)
                   \/ \E step \in UartSteps : SetUart(step)
             \/ /\ UNCHANGED port
                /\ SetLogSink \/ Log

\* The terminal is set to Baud, wired to the tx pin, and takes a rate within a
\* step of the divider.
Error == uart.divider * Baud - 4 * ClockRate("peri")
Legible ==
    /\ io["tx"] = Fn["tx"] /\ ~pads["tx"].output_dis
    /\ -Baud < Error /\ Error < Baud

UartSends ==
    /\ fifo # <<>> /\ uart.on /\ AuxRuns("peri")
    /\ fifo' = Tail(fifo)
    /\ terminal' = IF Head(fifo) = Noise THEN terminal
                   ELSE Append(terminal, IF Legible THEN Head(fifo) ELSE Noise)
    /\ UNCHANGED <<search, tree, port, logger>>

\* A reset of the core, which clears .bss and leaves the chip as it is.
RestartCore ==
    /\ Built /\ Restart
    /\ fifo' = [i \in DOMAIN fifo |-> Noise] /\ terminal' = <<>>
    /\ sink' = FALSE /\ left' = 0 /\ written' = 0
    /\ UNCHANGED <<search, port>>

Next ==
    \/ Compile \/ Processor \/ UartSends \/ RestartCore
    \/ Hardware /\ UNCHANGED <<search, port, traffic, logger>>

\* The compiler comes to an end, the processor executes; an oscillator that is on
\* settles, a PLL that is on locks, a multiplexer with two running inputs
\* switches, and the UART sends.
Fairness ==
    /\ WF_vars(Compile) /\ WF_vars(Processor) /\ WF_vars(UartSends)
    /\ WF_vars(XoscSettles /\ UNCHANGED <<search, port, traffic, logger>>)
    /\ \A p \in Plls : WF_vars(PllLocks(p) /\ UNCHANGED <<search, port, traffic, logger>>)
    /\ \A c \in Glitchless :
           WF_vars(MuxSwitches(c) /\ UNCHANGED <<search, port, traffic, logger>>)

Spec == Init /\ [][Next]_vars /\ Fairness

-----------------------------------------------------------------------------
\* What the program logged is what a terminal on pin 0 reads: every byte, in
\* order, at the rate it is set to, but for those still in the FIFO, which are
\* behind what an earlier run has left there
\* (pl011.cpp:50-94, uart.hpp:41-54, hw.hpp:57-79).
LogOnTheLine ==
    \E n \in 0 .. Len(fifo) :
        /\ \A i \in 1 .. n : fifo[i] = Noise
        /\ terminal \o SubSeq(fifo, n + 1, Len(fifo)) = [i \in 1 .. written |-> i]

\* The program comes to its end, the LED lit and its log sent: none of the loops
\* that wait for the hardware waits for what cannot happen (hw.hpp:57-79).
Lit == io["led"] = 5 /\ ~pads["led"].output_dis /\ "led" \in sio.out_en \cap sio.out
Ended == at = Len(Program) + 1 /\ Lit /\ Len(terminal) = written
OtherSearch == ~Searching("pll_sys") /\ ~(Searching("pll_usb") /\ params["pll_sys"] # NoSetting)
ProgramEnds == <>[](Ended \/ OtherSearch)
=============================================================================
