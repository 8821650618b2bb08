---------------------------- MODULE MCPppSession ----------------------------
EXTENDS PppSession

(* Each way to authenticate, with and without success, and each objection. *)
MCSetups ==
    {[auth |-> "none", accepts |-> TRUE, first |-> "LREJ", picky |-> TRUE],
     [auth |-> "pap", accepts |-> TRUE, first |-> "LNAK", picky |-> FALSE],
     [auth |-> "other", accepts |-> TRUE, first |-> "LACK", picky |-> FALSE],
     [auth |-> "insist", accepts |-> TRUE, first |-> "LACK", picky |-> FALSE]}
=============================================================================
