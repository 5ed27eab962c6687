--------------------------------- MODULE Nic ---------------------------------
(***************************************************************************)
(* What the network stack relies on in a network interface, the concept    *)
(* net::nic of include/tart/net/dispatch.hpp: recv_packet hands out the    *)
(* frames the interface accepted, each once and in order; send_packet puts *)
(* the callers' frames on the wire whole and in the order of the calls,    *)
(* and returns to a caller once its frame has been sent.  The frame sent   *)
(* last may be on the wire more than once.                                 *)
(***************************************************************************)
EXTENDS Naturals, Sequences, SequencesExt

CONSTANTS
    Frames,    \* frames from the network
    Senders    \* calls of send_packet, which also name their frames

VARIABLES
    rxq,          \* accepted and not yet handed out
    calling,      \* calls whose frame is not on the wire yet, in order
    transmitted,  \* calls whose frame is, and that have not returned
    wire          \* the frames sent, in order

nicVars == <<rxq, calling, transmitted, wire>>

NicInit == rxq = <<>> /\ calling = <<>> /\ transmitted = {} /\ wire = <<>>

Arrive == \E f \in Frames :
    rxq' = Append(rxq, f) /\ UNCHANGED <<calling, transmitted, wire>>

HandOut ==
    /\ rxq # <<>>
    /\ rxq' = Tail(rxq)
    /\ UNCHANGED <<calling, transmitted, wire>>

Call == \E t \in Senders :
    /\ t \notin ToSet(calling) \cup transmitted \cup ToSet(wire)
    /\ calling' = Append(calling, t)
    /\ UNCHANGED <<rxq, transmitted, wire>>

Air ==
    /\ calling # <<>>
    /\ wire' = Append(wire, Head(calling))
    /\ calling' = Tail(calling)
    /\ transmitted' = transmitted \cup {Head(calling)}
    /\ UNCHANGED rxq

Repeat ==
    /\ wire # <<>>
    /\ wire' = Append(wire, Last(wire))
    /\ UNCHANGED <<rxq, calling, transmitted>>

Return == \E t \in transmitted :
    /\ transmitted' = transmitted \ {t}
    /\ UNCHANGED <<rxq, calling, wire>>

NicNext == Arrive \/ HandOut \/ Call \/ Air \/ Repeat \/ Return

NicSpec == NicInit /\ [][NicNext]_nicVars
=============================================================================
