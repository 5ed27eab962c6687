\* The rates the clocks of the board run at once started.
SPECIFICATION Spec
CONSTANTS
    Attached <- MCAttached
    Freq <- MCFreq
    Program <- MCProgram
    MaxRestarts = 0
    Target <- MCTarget
    Inputs <- MCInputs
    Targets <- MCTargets
    VcoMin <- MCVcoMin
    VcoMax <- MCVcoMax
    FbdivMin = 16
    FbdivMax = 320
    PostdivMax = 7
    Baud <- MCBaud
    FifoSize = 2
    Lengths <- MCLengths
CHECK_DEADLOCK FALSE
INVARIANT RunsAtFreq
