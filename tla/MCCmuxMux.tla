----------------------------- MODULE MCCmuxMux -----------------------------
EXTENDS CmuxMux

(* Each form of the command at one speed, a switch of speeds, and modems   *)
(* that take or reject parameters and keep or restore their speed.         *)
MCSetups ==
    {[speed |-> Entry, form |-> f, extended |-> e, restores |-> FALSE, grants |-> {1}] :
        f \in Form, e \in BOOLEAN}
    \union
    {[speed |-> Target, form |-> "speed", extended |-> e, restores |-> r, grants |-> {1}] :
        e \in BOOLEAN, r \in BOOLEAN}
=============================================================================
