------------------------------- MODULE MCBoard -------------------------------
\* Board as include/tart/chip/rp2040/hw.hpp sets it up, in units of 25 Hz.
EXTENDS Board

MHz(n) == n * 40000

MCAttached ==
    [adc |-> "pll_usb", usb |-> "pll_usb", rtc |-> "pll_usb",
     peri |-> "sys", sys |-> "pll_sys", ref |-> "xosc"]

MCFreq ==
    [xosc |-> MHz(12), adc |-> MHz(48), usb |-> MHz(48), rtc |-> 1875,
     sys |-> MHz(125), ref |-> MHz(12), peri |-> MHz(125)]
MCTarget == [pll_sys |-> MHz(125), pll_usb |-> MHz(48)]

\* With another crystal, and frequencies not reached exactly or at all.
MCInputs == {MHz(12), MHz(7)}
MCTargets == {MHz(125), MHz(48), MHz(5), MHz(133) + 400}

MCVcoMin == MHz(400)
MCVcoMax == MHz(1600)
MCBaud == 4608      \* 115200

\* The program starts the tree, goes back to the ring oscillator and stops the
\* rest, then initialises the board, calls gpio.init again, blinks, and logs a
\* message before there is a sink and two that do not fit the FIFO.
Stopped(units) == [i \in DOMAIN units |-> <<"stop", units[i]>>]
MCSleep ==
    Preinit \o Stopped(<<"adc", "usb", "rtc", "peri", "pll_usb", "pll_sys", "xosc">>)
MCLog == <<<<"log", 1>>, <<"set_log_sink", "uart0">>, <<"log", 3>>, <<"log", 1>>>>
MCBlink == [i \in 1 .. 4 |-> <<<<"toggle", "toggle", "clear", "toggle">>[i], "led">>]
MCProgram == StartClocks \o MCSleep \o HwInitialize \o GpioInit \o MCBlink \o MCLog
MCLengths == {1, 3}
=============================================================================
