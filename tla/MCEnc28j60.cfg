\* Three frames that the ring cannot hold at once, two calls of send_packet; the
\* transmission of the second may be aborted.
SPECIFICATION FairSpec
CONSTANTS
    small = small
    big1 = big1
    big2 = big2
    t1 = t1
    t2 = t2
    garbage = garbage
    Frames <- MCFrames
    Units <- MCUnits
    Garbage = garbage
    RingSize = 4
    Senders <- MCSenders
    Aborted <- Second
    MaxRestarts = 1
INVARIANT TxBufferStable
INVARIANT WokenForAFrame
INVARIANT RoomWhenDrained
PROPERTY ImplementsNic
PROPERTY EverySendReturns
PROPERTY EveryFrameDelivered
CHECK_DEADLOCK FALSE
