-------------------------------- MODULE Stm32 --------------------------------
(***************************************************************************)
(* The STM32F103, from its reset to its SPI transfers: platform::setup()   *)
(* (src/chip/stm32f103x8/platform.cpp) brings the system clock to 72 MHz,  *)
(* sets up USART 1 and both SPI interfaces (rcc.cpp, flash.cpp, gpio.cpp,  *)
(* usart.cpp, spi.cpp); then an spi_dev is constructed on the second       *)
(* interface, and the program transfers bytes to its device (Spi) and      *)
(* sends others through the USART.                                         *)
(*                                                                         *)
(* The oscillators settle on their own.  A peripheral whose clock is not   *)
(* enabled loses what is written to it.                                    *)
(***************************************************************************)
EXTENDS Spi, Integers

CONSTANTS
    Hsi, Hse,     \* the internal oscillator and the crystal, in units of 100 Hz
    Baud,         \* the rate of the USART, in the same units
    MaxSends      \* bound: bytes sent through the USART

ASSUME Stm32Assumption == {Hsi, Hse, Baud} \subseteq Nat \ {0} /\ MaxSends \in Nat

VARIABLES
    at,           \* where setup() stands: an index into Setup
    on, ready,    \* cr: the oscillators enabled, and those ready
    cfgr, sysclk, \* the clock configuration, and the source of the system clock
    enabled,      \* ahb_en, apb1_en, apb2_en: the peripherals that are clocked
    ws,           \* wait states of the flash
    rcc_gpio_en,  \* gpio.cpp: the banks it has enabled
    pins,         \* the mode of each pin
    usart, masters,   \* registers of USART 1; the SPI interfaces enabled as masters
    tdr,          \* what USART 1 has yet to send
    console,      \* what a terminal on its pin has read
    sends         \* bytes given to usart::send

clocks == <<on, ready, cfgr, sysclk, enabled, ws>>
ports == <<rcc_gpio_en, pins, usart, masters>>
serial == <<tdr, console, sends>>
vars == <<transfer, at, clocks, ports, serial>>

Oscillators == {"hsi", "hse", "pll"}
Bank == [pa2 |-> "gpio_a", pa5 |-> "gpio_a", pa6 |-> "gpio_a", pa7 |-> "gpio_a",
         pa9 |-> "gpio_a", pb13 |-> "gpio_b", pb14 |-> "gpio_b", pb15 |-> "gpio_b"]
SpiPins == <<<<"pa5", "pa6", "pa7">>, <<"pb13", "pb14", "pb15">>>>
Mode(p) ==
    CASE p \in {"pa6", "pb14"} -> "input"
      [] p = "pa2" -> "output"
      [] OTHER -> "alternate"
Cfgr == [sw |-> "hsi", ahb_pre |-> 0, apb1_pre |-> 0, apb2_pre |-> 0, adc_pre |-> 0,
         pll_mul |-> 0, pll_src |-> "hsi", pll_xt_pre |-> FALSE]

TypeOK ==
    /\ SpiTypeOK
    /\ at \in Nat
    /\ ready \subseteq on /\ on \subseteq Oscillators
    /\ DOMAIN cfgr = DOMAIN Cfgr /\ {cfgr.sw, sysclk} \subseteq Oscillators
    /\ enabled \subseteq {"gpio_a", "gpio_b", "usart1", "spi1", "spi2"}
    /\ ws \in 0 .. 7
    /\ rcc_gpio_en \subseteq {"gpio_a", "gpio_b"}
    /\ pins \in [DOMAIN Bank -> {"floating", "input", "output", "alternate"}]
    /\ usart \in [baud : Nat, on : BOOLEAN] /\ masters \subseteq {1, 2}
    /\ tdr \in Seq(Nat) /\ console \in Seq(Nat) /\ sends \in 0 .. MaxSends

Init ==
    /\ SpiInit /\ at = 1
    /\ on = {"hsi"} /\ ready = {"hsi"} /\ cfgr = Cfgr /\ sysclk = "hsi"
    /\ enabled = {} /\ ws = 0
    /\ rcc_gpio_en = {} /\ pins = [p \in DOMAIN Bank |-> "floating"]
    /\ usart = [baud |-> 0, on |-> FALSE] /\ masters = {}
    /\ tdr = <<>> /\ console = <<>> /\ sends = 0

-----------------------------------------------------------------------------
(***************************************************************************)
(* The clocks that a configuration gives.                                  *)
(***************************************************************************)
PllClock ==
    (CASE cfgr.pll_src = "hsi" -> Hsi \div 2
       [] cfgr.pll_src = "hse" -> IF cfgr.pll_xt_pre THEN Hse \div 2 ELSE Hse)
    * (cfgr.pll_mul + 2)
SysClk == [hsi |-> Hsi, hse |-> Hse, pll |-> PllClock][sysclk]
Ahb == SysClk \div
    (IF cfgr.ahb_pre < 8 THEN 1 ELSE <<2, 4, 8, 16, 64, 128, 256, 512>>[cfgr.ahb_pre - 7])
Apb(pre) == Ahb \div (IF pre < 4 THEN 1 ELSE <<2, 4, 8, 16>>[pre - 3])
Adc == Apb(cfgr.apb2_pre) \div (2 * (cfgr.adc_pre + 1))

\* An oscillator that is enabled settles; the PLL locks once its source is ready.
\* The system clock follows sw, when the source it asks for is ready.
Settles(o) ==
    /\ o \in on \ ready
    /\ o = "pll" => cfgr.pll_src \in ready
    /\ ready' = ready \cup {o}
    /\ sysclk' = IF cfgr.sw = o THEN o ELSE sysclk
    /\ UNCHANGED <<transfer, at, on, cfgr, enabled, ws, ports, serial>>

-----------------------------------------------------------------------------
(***************************************************************************)
(* platform::setup().                                                      *)
(***************************************************************************)
\* A bug: the flash is told last.
MutantFlashLast ==
    <<<<"osc_on", "hse">>, <<"wait_osc_on", "hse">>, <<"sw", "hse">>,
      <<"ahb_pre", 0>>, <<"adc_pre", 3>>, <<"apb1_pre", 4>>, <<"apb2_pre", 0>>,
      <<"pll_mul", 9 - 2>>, <<"pll_src", "hse">>, <<"pll_xt_pre", FALSE>>,
      <<"osc_on", "pll">>, <<"wait_osc_on", "pll">>, <<"sw", "pll">>, <<"ws", 2>>>>

ClockSetup ==
    <<<<"osc_on", "hsi">>, <<"wait_osc_on", "hsi">>, <<"sw", "hsi">>,
      <<"osc_on", "hse">>, <<"wait_osc_on", "hse">>, <<"sw", "hse">>,
      <<"ahb_pre", 0>>, <<"adc_pre", 3>>, <<"apb1_pre", 4>>, <<"apb2_pre", 0>>,
      <<"ws", 2>>,
      <<"pll_mul", 9 - 2>>, <<"pll_src", "hse">>, <<"pll_xt_pre", FALSE>>,
      <<"osc_on", "pll">>, <<"wait_osc_on", "pll">>, <<"sw", "pll">>>>

\* usart::init(1, ...), spi::setup(64) of each interface, and the constructor of an
\* spi_dev on the second one.
UsartInit == <<<<"gpio", "pa9">>, <<"enable", "usart1">>, <<"usart", 1>>>>
SpiSetup(nth) ==
    [i \in 1 .. 3 |-> <<"gpio", SpiPins[nth][i]>>]
    \o <<<<"enable", <<"spi1", "spi2">>[nth]>>, <<"spi", nth>>>>
SpiDev == <<<<"gpio", "pa2">>, <<"set", "pa2">>>>

Setup == ClockSetup \o UsartInit \o SpiSetup(1) \o SpiSetup(2) \o SpiDev
Done == at > Len(Setup)
Here(f) == ~Done /\ Setup[at][1] = f
Arg == Setup[at][2]

OscOn ==
    /\ Here("osc_on") /\ on' = on \cup {Arg}
    /\ UNCHANGED <<ready, cfgr, sysclk, enabled, ws>>
WaitOscOn == Here("wait_osc_on") /\ Arg \in ready /\ UNCHANGED clocks

\* set_sysclk_src, the prescalers, and the settings of the PLL, which it takes
\* only while it is off.
SetCfgr ==
    \E field \in DOMAIN Cfgr :
        /\ Here(field)
        /\ cfgr' = IF field \in {"pll_mul", "pll_src", "pll_xt_pre"} /\ "pll" \in on
                   THEN cfgr ELSE [cfgr EXCEPT ![field] = Arg]
        /\ sysclk' = IF cfgr'.sw \in ready THEN cfgr'.sw ELSE sysclk
        /\ UNCHANGED <<on, ready, enabled, ws>>

SetWaitStates == Here("ws") /\ ws' = Arg /\ UNCHANGED <<on, ready, cfgr, sysclk, enabled>>

SetPeriphEnable ==
    Here("enable") /\ enabled' = enabled \cup {Arg} /\ UNCHANGED <<on, ready, cfgr, sysclk, ws>>

\* A bug: a bank counts as enabled as soon as another one is.
MutantOneFlag(bank) == rcc_gpio_en # {}
BankEnabled(bank) == bank \in rcc_gpio_en

\* gpio::setup.  A pin becomes an output at the level of its data register, which
\* is low after a reset: the constructor of spi_dev selects the device for a moment.
GpioSetup ==
    /\ Here("gpio")
    /\ LET bank == Bank[Arg] IN
       /\ enabled' = IF BankEnabled(bank) THEN enabled ELSE enabled \cup {bank}
       /\ rcc_gpio_en' = IF BankEnabled(bank) THEN rcc_gpio_en ELSE rcc_gpio_en \cup {bank}
       /\ pins' = IF bank \in enabled' THEN [pins EXCEPT ![Arg] = Mode(Arg)] ELSE pins
    /\ selected' = (selected \/ pins'["pa2"] = "output")
    /\ UNCHANGED <<on, ready, cfgr, sysclk, ws, usart, masters>>

\* spi_dev's gpio::set of its pin: not selected.
GpioSet == Here("set") /\ selected' = FALSE /\ UNCHANGED <<clocks, ports>>

\* A bug: the buses of the interfaces are confused.
MutantOtherBus(nth) == IF nth > 1 THEN 720000 ELSE 360000
ThisClock(nth) == IF nth > 1 THEN 360000 ELSE 720000

SetUsart ==
    /\ Here("usart")
    /\ usart' = IF "usart1" \in enabled
                THEN [baud |-> (ThisClock(Arg) + Baud \div 2) \div Baud, on |-> TRUE] ELSE usart
    /\ UNCHANGED <<clocks, rcc_gpio_en, pins, masters>>
\* NSS is an input (ssm, ssi and ss_oe are cleared) and taken to be high: a low
\* one would end master mode.
SetSpi ==
    /\ Here("spi")
    /\ masters' = IF <<"spi1", "spi2">>[Arg] \in enabled THEN masters \cup {Arg} ELSE masters
    /\ UNCHANGED <<clocks, rcc_gpio_en, pins, usart>>

SetupStep ==
    /\ at' = at + 1
    /\ UNCHANGED <<call, items, phase, progress, registers, seen, memory, before, lost,
                   calls, serial>>
    /\ \/ /\ OscOn \/ WaitOscOn \/ SetCfgr \/ SetWaitStates \/ SetPeriphEnable
          /\ UNCHANGED <<ports, selected>>
       \/ GpioSetup \/ GpioSet
       \/ (SetUsart \/ SetSpi) /\ UNCHANGED selected

-----------------------------------------------------------------------------
\* usart::send waits for transmit_empty.
UsartSend ==
    /\ Done /\ phase = "idle" /\ sends < MaxSends
    /\ "usart1" \in enabled /\ tdr = <<>>
    /\ tdr' = <<sends + 1>> /\ sends' = sends + 1
    /\ UNCHANGED <<transfer, at, clocks, ports, console>>

\* The terminal reads a byte when the rate is within 2 % of its own.
Legible ==
    /\ pins["pa9"] = "alternate"
    /\ \E error \in {usart.baud * Baud - Apb(cfgr.apb2_pre)} :
           50 * error < Apb(cfgr.apb2_pre) /\ -50 * error < Apb(cfgr.apb2_pre)
UsartShifts ==
    /\ tdr # <<>> /\ usart.on /\ tdr' = <<>>
    /\ console' = Append(console, IF Legible THEN tdr[1] ELSE 0)
    /\ UNCHANGED <<transfer, at, clocks, ports, sends>>

\* The second interface moves bytes when it is a master and its pins are its own.
Wired == 2 \in masters /\ \A i \in 1 .. 3 : pins[SpiPins[2][i]] = Mode(SpiPins[2][i])

Outside == UNCHANGED <<at, clocks, ports, serial>>

Processor == SetupStep \/ (Done /\ Transmission /\ Outside)
Call == \E c \in Calls : Done /\ Start(c) /\ Outside
ByteOut == Wired /\ Shift /\ Outside
ByteIn == Wired /\ Exchange /\ Outside

Next ==
    \/ Processor \/ Call \/ UsartSend
    \/ ByteOut \/ ByteIn \/ UsartShifts
    \/ \E o \in Oscillators : Settles(o)

\* The processor goes on, oscillators settle, and the interfaces send what they hold.
Fairness ==
    /\ WF_vars(Processor)
    /\ WF_vars(ByteOut) /\ WF_vars(ByteIn) /\ WF_vars(UsartShifts)
    /\ \A o \in Oscillators : WF_vars(Settles(o))

Spec == Init /\ [][Next]_vars /\ Fairness

-----------------------------------------------------------------------------
(***************************************************************************)
(* Properties, besides those of Spi.                                       *)
(***************************************************************************)
\* At no point of the setup is a clock faster than what it feeds can take: the
\* flash at its wait states, the processor, the slow bus, the converter
\* (clock_setup_ext_8mhz_72mhz; the limits are those of the chip).
WithinLimits ==
    /\ SysClk <= 240000 * (ws + 1) /\ SysClk <= 720000
    /\ Apb(cfgr.apb1_pre) <= 360000 /\ Adc <= 140000

\* Every byte given to usart::send is read by a terminal at that rate, in order:
\* the clock init() assumes is the one setup() has made (usart.cpp:16-21).
ConsoleInOrder == console \o tdr = [i \in 1 .. sends |-> i]

\* setup() ends, and do_transmission returns, unless the processor was so late that
\* a byte was lost: it then waits for ever.
Completes == ~Done \/ phase # "idle" ~> (Done /\ phase = "idle") \/ lost > 0
=============================================================================
