-------------------------------- MODULE MCSpi --------------------------------
\* Instances of Stm32 and Spi for model checking.
EXTENDS Stm32

CONSTANTS b1, b2, cmd, val, device, zero

MCBuffers == {b1, b2}
MCRaws == {cmd, val}

SendBytes(r) == [make |-> "send_bytes", raw |-> r]
SendBuffer(b, n) == [make |-> "send_buffer", buf |-> b, size |-> n]
RecvBuffer(b, n) == [make |-> "recv_buffer", buf |-> b, size |-> n]
XferBuffers(out, in, n) == [make |-> "xfer_buffers", out |-> out, in |-> in, size |-> n]

\* Register writes and reads, buffer writes and reads, and an exchange in place.
MCCalls ==
    {<<SendBytes(cmd), SendBytes(val)>>,
     <<SendBytes(cmd), RecvBuffer(b1, 2)>>,
     <<SendBytes(cmd), SendBuffer(b1, 4)>>,
     <<RecvBuffer(b1, 3), SendBytes(val), RecvBuffer(b2, 1)>>,
     <<SendBuffer(b2, 2), XferBuffers(b1, b1, 4)>>}

ASSUME CallsSeparate == \A c \in Calls : Separate(c)
=============================================================================
