----------------------------- MODULE MuxSession -----------------------------
(***************************************************************************)
(* What a multiplexer session promises its users, with no modem, speed or  *)
(* frame in sight: channels come up one after the other behind the control *)
(* channel, all of them go at once when the link is lost, and a session is *)
(* closed by giving the data channels back before it ends.                 *)
(***************************************************************************)
EXTENDS Integers

CONSTANT Channels       \* data channels are DLCI 1..Channels, DLCI 0 controls

VARIABLES
    phase,              \* off, opening, up, lost (between two recoveries), closing
    usable              \* the channels the host may use

vars == <<phase, usable>>

Dlci == 0..Channels

Init == phase = "off" /\ usable = {}

Start ==
    /\ phase = "off"
    /\ phase' = "opening"
    /\ UNCHANGED usable

(* Channels are asked for in order, and none before the control channel.   *)
Grant(d) ==
    /\ phase = "opening"
    /\ d # 0 => 0 \in usable
    /\ \A e \in usable : e < d
    /\ usable' = usable \union {d}
    /\ \/ UNCHANGED phase
       \/ d = Channels /\ phase' = "up"

Ready ==
    /\ phase = "opening" /\ 0 \in usable
    /\ phase' = "up"
    /\ UNCHANGED usable

Fail ==
    /\ phase = "opening" /\ usable = {}
    /\ phase' \in {"lost", "closing"}
    /\ UNCHANGED usable

LinkLost ==
    /\ phase \in {"up", "lost"}
    /\ phase' = "opening"
    /\ usable' = {}

Quit ==
    /\ phase \in {"up", "lost"}
    /\ phase' = "closing"
    /\ UNCHANGED usable

GiveBack(d) ==
    /\ phase = "closing"
    /\ d \in usable \ {0}
    /\ usable' = usable \ {d}
    /\ UNCHANGED phase

End ==      \* closed, or the process died
    /\ phase # "off"
    /\ phase' = "off"
    /\ usable' = {}

Next ==
    \/ Start \/ Ready \/ Fail \/ LinkLost \/ Quit \/ End
    \/ \E d \in Dlci : Grant(d) \/ GiveBack(d)

Spec == Init /\ [][Next]_vars
=============================================================================
