-------------------------------- MODULE Clocks --------------------------------
(***************************************************************************)
(* The clock tree of the RP2040 and the code that starts it: hw_initialize *)
(* (include/tart/chip/rp2040/hw.hpp), rp2_clk_controller, rp2_pll,         *)
(* rp2_xosc and rp2_resets (drivers/clk, drivers/reset).                   *)
(*                                                                         *)
(* The program makes a sequence of calls, each of a few register accesses, *)
(* and runs only while CLK_SYS does.  Oscillator, PLLs and multiplexers    *)
(* follow the registers in their own time.  The core can be reset alone:   *)
(* the program then starts over with the tree as it left it.  Board puts   *)
(* this together with the rest of the board.                               *)
(***************************************************************************)
EXTENDS Naturals, Sequences

Generic == {"adc", "usb", "rtc"}
Clocks == Generic \cup {"peri", "sys", "ref"}
Plls == {"pll_sys", "pll_usb"}
Glitchless == {"ref", "sys"}     \* has_glmux

CONSTANTS
    Attached,     \* rp2_clk_attachments: the parent of each clock
    Freq,         \* freq() of each clock and of the oscillator, in units of
                  \* a common divisor
    Program,      \* the calls made, as <<routine, unit>>
    MaxRestarts   \* bound: resets of the core

ASSUME ClocksAssumption ==
    /\ DOMAIN Attached = Clocks
    /\ \A c \in Generic : Attached[c] \in Plls \cup {"xosc"}
    /\ Attached["peri"] \in Plls \cup {"xosc", "sys"}
    /\ Attached["sys"] \in Plls \cup {"xosc", "ref"}
    /\ Attached["ref"] \in {"pll_usb", "xosc"}
    /\ Freq \in [Clocks \cup {"xosc"} -> Nat \ {0}]
    /\ Len(Program) \in Nat /\ DOMAIN Program = 1 .. Len(Program)
    /\ MaxRestarts \in Nat

\* The block_reset objects.
Blocks == Plls \cup {"io_bank0", "pads_bank0", "uart0"}

VARIABLES
    params,       \* rp2_pll_params of each PLL, as computed by the compiler
    at, line,     \* where the program is: which call, and where in it
    triggered,    \* flags & reset_triggered of each block_reset
    xosc,         \* the oscillator: its enable field, and whether it is stable
    pll,          \* the PLLs: their registers, and whether they have locked
    mux,          \* the registers of each clock, and the input in use
    restarts      \* resets of the core

program == <<at, line, triggered>>
tree == <<params, program, xosc, pll, mux, restarts>>

TreeTypeOK ==
    /\ at \in 1 .. Len(Program) + 1 /\ line \in STRING
    /\ triggered \in [Blocks -> BOOLEAN]
    /\ xosc \in [enable : Nat, stable : BOOLEAN]
    /\ pll \in [Plls -> [held : BOOLEAN, on : BOOLEAN, lock : BOOLEAN, post : BOOLEAN,
                         fbdiv : Nat, postdiv : (1 .. 7) \X (1 .. 7)]]
    /\ mux \in [Clocks -> [src : 0 .. 2, aux : 0 .. 4, selected : 0 .. 2,
                           enable : BOOLEAN, div : Nat]]
    /\ restarts \in 0 .. MaxRestarts

\* Power on: the PLLs are held in reset and everything runs from the ring
\* oscillator.  A divider of 256 is 1 in 24.8 fixed point.
PllOff(held) == [held |-> held, on |-> FALSE, lock |-> FALSE, post |-> FALSE,
                 fbdiv |-> 0, postdiv |-> <<7, 7>>]
TreeInit ==
    /\ at = 1 /\ line = "enter"
    /\ triggered = [b \in Blocks |-> FALSE]
    /\ xosc = [enable |-> 0, stable |-> FALSE]
    /\ pll = [p \in Plls |-> PllOff(TRUE)]
    /\ mux = [c \in Clocks |-> [src |-> 0, aux |-> 0, selected |-> 0,
                                enable |-> FALSE, div |-> 256]]
    /\ restarts = 0

-----------------------------------------------------------------------------
(***************************************************************************)
(* The hardware.  ref runs from the ring oscillator (input 0), the         *)
(* auxiliary input (1: pll_usb) or the crystal (2); sys from ref (0) or    *)
(* from the auxiliary input (1).                                           *)
(***************************************************************************)
EnableV == 4011      \* 0xfab, which the oscillator takes for: run
DisableV == 4011     \* disable_v of rp2-osc.cpp: 0xfab as well
Disable == 3358      \* hw::xosc::ctrl::enable_val::disable: 0xd1e

\* The auxiliary inputs of the multiplexers (RP2040 datasheet, 2.15.7).
AuxInput(c, n) ==
    CASE c = "sys"  -> (CASE n = 0 -> "pll_sys" [] n = 1 -> "pll_usb" [] n = 3 -> "xosc"
                          [] OTHER -> "none")
      [] c = "peri" -> (CASE n = 0 -> "sys" [] n = 1 -> "pll_sys" [] n = 2 -> "pll_usb"
                          [] n = 4 -> "xosc" [] OTHER -> "none")
      [] OTHER      -> (CASE n = 0 -> "pll_usb" [] n = 1 -> "pll_sys" [] n = 3 -> "xosc"
                          [] OTHER -> "none")
PllRuns(p) == pll[p].lock /\ pll[p].post
SourceRuns(s) == CASE s \in Plls -> PllRuns(s) [] s = "xosc" -> xosc.stable
                   [] OTHER -> FALSE
RefRunsFrom(n) == CASE n = 0 -> TRUE [] n = 1 -> PllRuns("pll_usb") [] n = 2 -> xosc.stable
RefRuns == RefRunsFrom(mux["ref"].selected)
SysRunsFrom(n) == IF n = 0 THEN RefRuns ELSE SourceRuns(AuxInput("sys", mux["sys"].aux))
SysRuns == SysRunsFrom(mux["sys"].selected)
\* A clock without a multiplexer of its own kind runs from its auxiliary input.
AuxRuns(c) ==
    /\ mux[c].enable
    /\ LET s == AuxInput(c, mux[c].aux) IN IF s = "sys" THEN SysRuns ELSE SourceRuns(s)
RunsFrom(c, n) == IF c = "ref" THEN RefRunsFrom(n) ELSE SysRunsFrom(n)

\* What the PLLs and the clocks run at.  A divider of 0 divides by 65536; peri
\* has none.
PllOut(p) == ((Freq["xosc"] * pll[p].fbdiv) \div pll[p].postdiv[1]) \div pll[p].postdiv[2]
Divided(f, div) == IF div = 0 THEN f \div 65536 ELSE (f * 256) \div div
SourceRate(s) == CASE s \in Plls -> PllOut(s) [] s = "xosc" -> Freq["xosc"]
RefRate == Divided(SourceRate(IF mux["ref"].selected = 1 THEN "pll_usb" ELSE "xosc"),
                   mux["ref"].div)
SysRate == IF mux["sys"].selected = 0 THEN RefRate
           ELSE Divided(SourceRate(AuxInput("sys", mux["sys"].aux)), mux["sys"].div)
ClockRate(c) ==
    CASE c = "ref" -> RefRate
      [] c = "sys" -> SysRate
      [] c = "peri" /\ AuxInput(c, mux[c].aux) = "sys" -> SysRate
      [] c = "peri" /\ AuxInput(c, mux[c].aux) # "sys" -> SourceRate(AuxInput(c, mux[c].aux))
      [] OTHER -> Divided(SourceRate(AuxInput(c, mux[c].aux)), mux[c].div)

XoscSettles ==
    /\ xosc.enable = EnableV /\ ~xosc.stable
    /\ xosc' = [xosc EXCEPT !.stable = TRUE]
    /\ UNCHANGED <<params, program, pll, mux, restarts>>

\* A PLL that is on locks, given its reference, the crystal.
PllLocks(p) ==
    /\ pll[p].on /\ ~pll[p].lock /\ xosc.stable
    /\ pll' = [pll EXCEPT ![p].lock = TRUE]
    /\ UNCHANGED <<params, program, xosc, mux, restarts>>

\* The multiplexer changes over at an edge of the old and one of the new clock.
MuxSwitches(c) ==
    /\ mux[c].selected # mux[c].src
    /\ RunsFrom(c, mux[c].selected) /\ RunsFrom(c, mux[c].src)
    /\ mux' = [mux EXCEPT ![c].selected = mux[c].src]
    /\ UNCHANGED <<params, program, xosc, pll, restarts>>

\* A reset of the core: _start copies .data again, nothing else is reset.
Restart ==
    /\ restarts < MaxRestarts /\ restarts' = restarts + 1
    /\ at' = 1 /\ line' = "enter" /\ triggered' = [b \in Blocks |-> FALSE]
    /\ UNCHANGED <<params, xosc, pll, mux>>

-----------------------------------------------------------------------------
\* The program.
Here(routine, unit, l) ==
    /\ at <= Len(Program) /\ Program[at] = <<routine, unit>> /\ line = l
GoTo(l) == line' = l /\ UNCHANGED <<at, triggered>>
Return == at' = at + 1 /\ line' = "enter" /\ UNCHANGED triggered

\* One clock of preinit_clks_to_internal.
Internal(c) ==
    \/ /\ Here("internal", c, "enter")
       /\ mux' = [mux EXCEPT ![c].src = 0]
       /\ GoTo("wait") /\ UNCHANGED <<xosc, pll>>
    \/ /\ Here("internal", c, "wait") /\ mux[c].selected = 0
       /\ Return /\ UNCHANGED <<xosc, pll, mux>>

XoscStart ==
    \/ /\ Here("start", "xosc", "enter")
       /\ xosc' = [xosc EXCEPT !.enable = EnableV]
       /\ GoTo("wait") /\ UNCHANGED <<pll, mux>>
    \/ /\ Here("start", "xosc", "wait") /\ xosc.stable
       /\ Return /\ UNCHANGED <<xosc, pll, mux>>

XoscStop ==
    /\ Here("stop", "xosc", "enter")
    /\ xosc' = [xosc EXCEPT !.enable = DisableV]
    /\ Return /\ UNCHANGED <<pll, mux>>

\* The registers of a PLL held in reset take no write.
Write(p, new) == pll' = [pll EXCEPT ![p] = IF pll[p].held THEN @ ELSE new]

\* block_reset::reset resets the block the first time only.
Untouched(b) == ~triggered[b]

Locked(p) == pll[p].lock

PllStart(p) ==
    \/ /\ Here("start", p, "enter")
       /\ pll' = [pll EXCEPT ![p] = IF Untouched(p) THEN PllOff(FALSE) ELSE @]
       /\ triggered' = [triggered EXCEPT ![p] = TRUE]
       /\ line' = "program" /\ UNCHANGED <<at, xosc, mux>>
    \/ /\ Here("start", p, "program")
       /\ Write(p, [pll[p] EXCEPT !.fbdiv = params[p].fbdiv, !.on = TRUE, !.post = FALSE])
       /\ GoTo("lock") /\ UNCHANGED <<xosc, mux>>
    \/ /\ Here("start", p, "lock") /\ Locked(p)
       /\ GoTo("post") /\ UNCHANGED <<xosc, pll, mux>>
    \/ /\ Here("start", p, "post")
       /\ Write(p, [pll[p] EXCEPT !.post = TRUE,
                       !.postdiv = <<params[p].postdiv1, params[p].postdiv2>>])
       /\ Return /\ UNCHANGED <<xosc, mux>>

PllStop(p) ==
    /\ Here("stop", p, "enter")
    /\ Write(p, [pll[p] EXCEPT !.on = FALSE, !.lock = FALSE, !.post = FALSE])
    /\ Return /\ UNCHANGED <<xosc, mux>>

-----------------------------------------------------------------------------
\* generic_clk_att, peri_clk_att, ref_clk_att and determine_src_aux, which looks
\* the input of sys up among the codes of the generic clocks.
GenericAtt(s) == CASE s = "pll_usb" -> 0 [] s = "pll_sys" -> 1 [] s = "xosc" -> 3
PeriAtt(s) == CASE s = "sys" -> 0 [] s = "pll_usb" -> 1 [] s = "pll_sys" -> 2
                [] s = "xosc" -> 4

\* A bug: the code of peri is looked up for the attachment it was given.
MutantPeriAttached(c) ==
    CASE c \in Generic -> GenericAtt(Attached[c])
      [] c = "peri" -> PeriAtt(Attached["peri"])
      [] c = "sys" -> IF Attached[c] = "ref" THEN 0 ELSE GenericAtt(Attached[c])
      [] c = "ref" -> 0

\* determine_src_aux looks the code of peri up for the attachment of rtc.
Aux(c) ==
    CASE c \in Generic -> GenericAtt(Attached[c])
      [] c = "peri" -> PeriAtt(Attached["rtc"])
      [] c = "sys" -> IF Attached[c] = "ref" THEN 0 ELSE GenericAtt(Attached[c])
      [] c = "ref" -> 0
Src(c) ==
    CASE c = "sys" -> IF Attached[c] = "ref" THEN 0 ELSE 1
      [] c = "ref" -> IF Attached[c] = "pll_usb" THEN 1 ELSE 2
      [] OTHER -> 0

FreqOf(u) == IF u \in Plls THEN params[u].actual_clk ELSE Freq[u]
DivFor(c) == (Freq[c] * 256) \div FreqOf(Attached[c])
DivBefore(c) == IF DivFor(c) > mux[c].div THEN DivFor(c) ELSE mux[c].div
Parks(c) == c \in Glitchless /\ Src(c) # 0

MutantNoWait(c) == TRUE
Switched(c) == mux[c].selected = Src(c)

ClkStart(c) ==
    \/ /\ Here("start", c, "enter") /\ Parks(c)
       /\ mux' = [mux EXCEPT ![c].div = DivBefore(c), ![c].src = 0]
       /\ GoTo("parked") /\ UNCHANGED <<xosc, pll>>
    \/ /\ Here("start", c, "parked") /\ mux[c].selected = 0
       /\ GoTo("aux") /\ UNCHANGED <<xosc, pll, mux>>
    \/ /\ Here("start", c, "enter") /\ ~Parks(c)
       /\ mux' = [mux EXCEPT ![c].div = DivBefore(c), ![c].enable = FALSE]
       /\ GoTo("aux") /\ UNCHANGED <<xosc, pll>>
    \/ /\ Here("start", c, "aux") /\ c \in Glitchless
       /\ mux' = [mux EXCEPT ![c].aux = Aux(c), ![c].src = Src(c)]
       /\ GoTo("switched") /\ UNCHANGED <<xosc, pll>>
    \/ /\ Here("start", c, "aux") /\ c \notin Glitchless
       /\ mux' = [mux EXCEPT ![c].aux = Aux(c)]
       /\ GoTo("enable") /\ UNCHANGED <<xosc, pll>>
    \/ /\ Here("start", c, "switched") /\ Switched(c)
       /\ GoTo("enable") /\ UNCHANGED <<xosc, pll, mux>>
    \/ /\ Here("start", c, "enable")
       /\ mux' = [mux EXCEPT ![c].enable = TRUE, ![c].div = DivFor(c)]
       /\ Return /\ UNCHANGED <<xosc, pll>>

ClkStop(c) ==
    /\ Here("stop", c, "enter")
    /\ mux' = [mux EXCEPT ![c].enable = FALSE]
    /\ Return /\ UNCHANGED <<xosc, pll>>

\* preinit_clks_to_internal and the first half of hw_initialize.
MutantOnlyRef == <<<<"internal", "ref">>>>
Preinit == <<<<"internal", "ref">>, <<"internal", "sys">>>>
Started(units) == [i \in DOMAIN units |-> <<"start", units[i]>>]
MutantPllFirst == Preinit \o Started(<<"pll_sys", "pll_usb", "xosc">>)
    \o Started(<<"ref", "sys", "usb", "adc", "rtc", "peri">>)
StartClocks == Preinit \o Started(<<"xosc", "pll_sys", "pll_usb">>)
    \o Started(<<"ref", "sys", "usb", "adc", "rtc", "peri">>)

ClockCalls ==
    /\ SysRuns /\ UNCHANGED <<params, restarts>>
    /\ \/ XoscStart \/ XoscStop
       \/ \E p \in Plls : PllStart(p) \/ PllStop(p)
       \/ \E c \in Clocks : ClkStart(c) \/ ClkStop(c)
       \/ \E c \in Glitchless : Internal(c)

Hardware ==
    XoscSettles \/ (\E p \in Plls : PllLocks(p)) \/ (\E c \in Glitchless : MuxSwitches(c))

-----------------------------------------------------------------------------
\* The processor never loses its clock: whatever is reset, switched or stopped,
\* and wherever the core was restarted, CLK_SYS runs from a source that runs.
CpuClocked == SysRuns

\* The call of start made for unit is over, and no later call concerns it.
Up(unit) ==
    /\ \E i \in 1 .. at - 1 : Program[i] = <<"start", unit>>
    /\ \A i \in 1 .. Len(Program) :
           i <= at /\ Program[i][1] \in {"stop", "internal"} /\ Program[i][2] = unit =>
               \E j \in i .. at - 1 : Program[j] = <<"start", unit>>

\* When start has returned, ref and sys run from the input it chose, and every
\* other clock has a source that runs, until the program says otherwise
\* (drivers/clk/rp2-clk.cpp:120-157).
StartedRuns ==
    /\ \A c \in Glitchless : Up(c) => mux[c].selected = Src(c)
    /\ \A c \in Clocks \ Glitchless : Up(c) => AuxRuns(c)

\* A clock that start has returned for runs at its freq().
RunsAtFreq == \A c \in Clocks : Up(c) => ClockRate(c) = Freq[c]
=============================================================================
