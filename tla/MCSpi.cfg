\* From the reset of the chip: setup(), then every kind of transfer, three in a row,
\* with bytes for the USART in between.
SPECIFICATION Spec
CONSTANTS
    b1 = b1
    b2 = b2
    cmd = cmd
    val = val
    device = device
    zero = zero
    Buffers <- MCBuffers
    BufferSize = 4
    Raws <- MCRaws
    Device = device
    Zero = zero
    Calls <- MCCalls
    MaxCalls = 3
    Hsi = 80000
    Hse = 80000
    Baud = 1152
    MaxSends = 2
CHECK_DEADLOCK FALSE
INVARIANT SentAsAsked
INVARIANT ReceivedInPlace
INVARIANT ReceiverBehind
INVARIANT WithinLimits
INVARIANT ConsoleInOrder
PROPERTY Completes
