---------------------------- MODULE MCFramePath -----------------------------
EXTENDS FramePath

MCWays == {[dir |-> "rx", ppp |-> TRUE], [dir |-> "tx", ppp |-> TRUE],
           [dir |-> "serial", ppp |-> TRUE], [dir |-> "serial", ppp |-> FALSE]}

(* Each packet carries a byte that means something to one of the parsers:  *)
(* the multiplexer's flag, or the escape byte and the flag of PPP.         *)
MCPackets ==
    {[packet |-> [proto |-> 7, info |-> <<<<13>>>>], compressed |-> FALSE],
     [packet |-> [proto |-> 7, info |-> <<<<10>>, <<14>>>>], compressed |-> TRUE]}

MCTexts == {<<6>>, <<6, 8, 9>>}
=============================================================================
