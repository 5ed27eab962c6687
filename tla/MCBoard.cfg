\* The board of hw.hpp: the settings of its PLLs, its clock tree started, stopped
\* and started again, its pins, and a log longer than the FIFO; the core is reset
\* at any point, twice.
SPECIFICATION Spec
CONSTANTS
    Attached <- MCAttached
    Freq <- MCFreq
    Program <- MCProgram
    MaxRestarts = 2
    Target <- MCTarget
    Inputs <- MCInputs
    Targets <- MCTargets
    VcoMin <- MCVcoMin
    VcoMax <- MCVcoMax
    FbdivMin = 16
    FbdivMax = 320
    PostdivMax = 7
    Baud <- MCBaud
    FifoSize = 2
    Lengths <- MCLengths
CHECK_DEADLOCK FALSE
INVARIANTS CpuClocked StartedRuns Closest LogOnTheLine
PROPERTY ProgramEnds
