------------------------------ MODULE LossyFifo ------------------------------
(***************************************************************************)
(* What a framed line promises: a message may be lost, but none is made up,*)
(* altered, doubled or put before one that was sent earlier.               *)
(***************************************************************************)
EXTENDS Integers, Sequences, SequencesExt

VARIABLES sent, got

Subsequence(s, t) ==
    \E at \in [DOMAIN s -> DOMAIN t] :
        /\ \A i \in DOMAIN s : s[i] = t[at[i]]
        /\ \A i, j \in DOMAIN s : i < j => at[i] < at[j]

Init == sent = <<>> /\ got = <<>>

Send == /\ IsPrefix(sent, sent') /\ Len(sent') = Len(sent) + 1
        /\ UNCHANGED got

Receive == /\ IsPrefix(got, got') /\ got' # got
           /\ Subsequence(got', sent)
           /\ UNCHANGED sent

Next == Send \/ Receive

Spec == Init /\ [][Next]_<<sent, got>>
=============================================================================
