------------------------------- MODULE TxFifo -------------------------------
(***************************************************************************)
(* What the transmit side of CmuxTE promises its callers: the frames put   *)
(* on the serial line are the frames handed to send_raw(), each one once   *)
(* and in the order they were handed over.  Frames may lag behind, none    *)
(* may overtake, vanish from the middle or be repeated.                    *)
(***************************************************************************)
EXTENDS Naturals, Sequences

CONSTANT Frame      \* the frames a caller may hand over

VARIABLES
    sent,           \* frames accepted by send_raw(), in order
    wire            \* frames written to the serial port, in order

fifoVars == <<sent, wire>>

FifoInit == sent = <<>> /\ wire = <<>>

(* One frame is accepted.  Stated of the two ends of sent, so that TLC can  *)
(* evaluate it without enumerating the frames.                             *)
Accept ==
    /\ Len(sent') = Len(sent) + 1
    /\ SubSeq(sent', 1, Len(sent)) = sent
    /\ sent'[Len(sent')] \in Frame

(* One frame is accepted, or none; then any number of the accepted frames  *)
(* that are not on the wire yet may be written.                            *)
FifoNext ==
    /\ sent' = sent \/ Accept
    /\ Len(wire) <= Len(wire') /\ Len(wire') <= Len(sent')
    /\ wire' = SubSeq(sent', 1, Len(wire'))

FifoSpec == FifoInit /\ [][FifoNext]_fifoVars
=============================================================================
