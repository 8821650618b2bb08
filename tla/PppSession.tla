----------------------------- MODULE PppSession -----------------------------
(***************************************************************************)
(* A PPP dial: PppService with its threads (the console thread in start()  *)
(* and stop(), the PPP thread in _run(), the engine thread that handles    *)
(* frames, the TUN forwarder) against a peer that follows RFC 1661, over a *)
(* channel that may lose what is sent. The port's ownership by the dialing *)
(* flag is the subject of CmuxLink; here it only decides who reads. The    *)
(* peer, the modem and the line are external.                              *)
(*                                                                         *)
(* A frame is a kind and the set of what its options say. IPv6CP, echo     *)
(* requests and compression are left out: nothing waits for them.          *)
(***************************************************************************)
EXTENDS Integers, Sequences

CONSTANTS
    Setups,         \* the kinds of peer to look at
    MaxDials,       \* bound: successful dials
    MaxStops,       \* bound: calls of stop()
    MaxFaults       \* bound: things that go wrong

(* What a peer asks for, whether it takes the credentials, what it says to *)
(* the first LCP request and whether it rejects the name-server options.   *)
Auth == {"none", "pap", "md5", "other", "insist"}
Setup == [auth : Auth, accepts : BOOLEAN, first : {"LACK", "LREJ", "LNAK"}, picky : BOOLEAN]

ASSUME PppAssumption ==
    /\ Setups \subseteq Setup /\ Setups # {}
    /\ MaxDials \in Nat /\ MaxStops \in Nat /\ MaxFaults \in Nat

VARIABLES
    pc,         \* where the threads "run" (_run) and "con" (stop) are
    host,       \* PppService, SharedState and the services' view of them
    parser,     \* PppParser: complete frames, and the phase of its buffer
    rx, tx,     \* bytes on their way, from and to the modem
    peer,       \* external: the modem and the peer behind it
    dials, stops, faults,
    hist        \* history variables of the properties

vars == <<pc, host, parser, rx, tx, peer, dials, stops, faults, hist>>

Thread == {"run", "con"}

Msg(k, a) == [k |-> k, a |-> a]
Text == {"NOCARRIER", "OK"}

DiscPc == {"d_tun", "d_join", "d_term", "d_esc", "d_nc", "d_ok"}
RunPc == {"none", "boot", "lcp", "grace", "auth", "released", "ipcp", "tun", "idle"} \union DiscPc
ConPc == {"none", "flag", "join"} \union DiscPc

(* lost: stop() was called for the loss of the link.                       *)
Fresh ==
    [running |-> FALSE, pppRunning |-> FALSE, dialing |-> FALSE,
     lcpUp |-> FALSE, authUp |-> TRUE, auth |-> "none", failed |-> FALSE,
     seen |-> FALSE, naked |-> FALSE, lcpOpts |-> {}, ip |-> FALSE, ipcpOpts |-> {},
     ipcpUp |-> FALSE, tries |-> 0, tun |-> "none", fwd |-> "off", ready |-> FALSE,
     lost |-> FALSE]

NoPeer == [mode |-> "cmd", s |-> CHOOSE s \in Setups : TRUE, alg |-> "md5",
           acked |-> FALSE, heard |-> FALSE, asks |-> 0,
           authd |-> FALSE, asked |-> FALSE, chal |-> 0,
           agreed |-> FALSE, ipAsked |-> FALSE, data |-> 0]

Init ==
    /\ pc = [t \in Thread |-> "none"]
    /\ host = Fresh
    /\ parser = [q |-> <<>>, phase |-> "clear"]
    /\ rx = <<>> /\ tx = <<>>
    /\ peer = NoPeer
    /\ dials = 0 /\ stops = 0 /\ faults = 0
    /\ hist = [clean |-> TRUE, faults |-> 0, stops |-> 0,
               mark |-> 0, up |-> FALSE, lcp |-> FALSE, late |-> 0]

-----------------------------------------------------------------------------
Fault == faults < MaxFaults /\ faults' = faults + 1
NoFault == UNCHANGED faults

Say(k, a) == tx' = Append(tx, Msg(k, a))
Goto(t, l) == pc' = [pc EXCEPT ![t] = l]

Has(q, kinds) == \E i \in DOMAIN q : q[i].k \in kinds

(* External: the peer's timers. It repeats a request once.                 *)
Tries == 2
Opened == peer.mode = "data" /\ peer.acked /\ peer.heard
Network == Opened /\ (peer.s.auth = "none" \/ peer.authd)

LcpDue == /\ peer.mode = "data" /\ ~peer.heard /\ peer.asks < Tries
          /\ ~Has(rx \o parser.q, {"LREQ"}) /\ ~Has(tx, {"LACK", "LNAK"})
ChalDue == /\ Opened /\ peer.s.auth \in {"md5", "other", "insist"} /\ ~peer.authd
           /\ peer.chal < Tries
           /\ ~Has(rx \o parser.q, {"CHAL", "FAIL"}) /\ ~Has(tx, {"RESP"})

EngineAlive == host.running /\ pc["run"] \notin {"none", "boot"}

(* The engine polls every 10 ms and is done with its queue when a sleep of  *)
(* _disconnect() ends.                                                     *)
Rested == EngineAlive => parser.q = <<>>

Quiet ==
    /\ rx = <<>> /\ \A i \in DOMAIN tx : tx[i].k = "IP"
    /\ Rested
    /\ ~(LcpDue \/ ChalDue)

(* A wait runs out: nothing is to come any more, or it comes too late.     *)
Deadline == \/ Quiet /\ NoFault
            \/ ~Quiet /\ Fault

-----------------------------------------------------------------------------
(* PppParser on what arrives: a frame has a flag at either end, a long one *)
(* comes in two parts. "clear": no flag is waiting for its partner; "own": *)
(* the first part of the frame to come; "open": a flag without its frame.  *)

Whole(p, m) ==
    IF m.k \in Text THEN p
    ELSE IF p.phase = "clear" THEN [p EXCEPT !.q = Append(@, m)]
    ELSE [p EXCEPT !.phase = "open"]

FirstPart(p) == [p EXCEPT !.phase = IF @ = "clear" THEN "own" ELSE "clear"]

LastPart(p, m) ==
    IF p.phase = "own" THEN [q |-> Append(p.q, m), phase |-> "clear"]
    ELSE [p EXCEPT !.phase = IF @ = "clear" THEN "open" ELSE "clear"]

Divided(m) == m.k = "IP" /\ m.a = {}

(* One read: the whole of what is next, or the first part of a long frame. *)
Feed ==
    /\ rx # <<>>
    /\ LET m == Head(rx) IN
       \/ /\ Divided(m)
          /\ rx' = <<Msg("IP", {"rest"})>> \o Tail(rx)
          /\ parser' = FirstPart(parser)
       \/ /\ rx' = Tail(rx)
          /\ parser' = IF m.a = {"rest"} THEN LastPart(parser, m) ELSE Whole(parser, m)

(* Read by somebody who does not care for PPP.                             *)
Drop ==
    /\ rx # <<>>
    /\ rx' = Tail(rx)
    /\ UNCHANGED parser

(* _handle_frame(): PPP data go to the parser while state.ppp_running.     *)
Reader ==
    /\ ~host.dialing
    /\ IF host.pppRunning THEN Feed ELSE Drop
    /\ NoFault /\ UNCHANGED <<pc, host, tx, peer, dials, stops, hist>>

-----------------------------------------------------------------------------
(* start(): ATD and the wait for CONNECT, which reads what is there.       *)
(* Bounds: no dial while an earlier call has work or bytes in flight, and  *)
(* no further dial before a stop or a fault.                               *)

CanDial == /\ pc = [t \in Thread |-> "none"] /\ ~host.running /\ host.fwd = "off"
           /\ dials < MaxDials /\ tx = <<>>
           /\ dials > 0 => faults + stops > 0

Dial ==
    /\ CanDial
    /\ peer.mode # "data"
    /\ dials' = dials + 1
    /\ host' = [host EXCEPT !.running = TRUE, !.pppRunning = TRUE]
    /\ \E s \in Setups : peer' = [NoPeer EXCEPT !.mode = "data", !.s = s,
                                               !.alg = IF s.auth = "md5" THEN "md5" ELSE "other"]
    /\ rx' = <<>>
    /\ Goto("run", "boot")
    /\ hist' = [hist EXCEPT !.clean = parser = [q |-> <<>>, phase |-> "clear"],
                            !.faults = faults, !.stops = stops]
    /\ NoFault /\ UNCHANGED <<parser, tx, stops>>

(* A modem that is still in data mode takes ATD for PPP: no CONNECT.       *)
DialFails ==
    /\ CanDial
    /\ peer.mode = "data"
    /\ host' = [host EXCEPT !.pppRunning = FALSE]
    /\ rx' = <<>>
    /\ NoFault /\ UNCHANGED <<pc, parser, tx, peer, dials, stops, hist>>

(* _run() "Reset per-dial negotiation state", then the engine and LCP.     *)
(* Mutant: two flags are left as they were.                                *)
ResetPart(h) == [Fresh EXCEPT !.authUp = h.authUp, !.auth = h.auth, !.ipcpUp = h.ipcpUp,
    !.running = TRUE, !.pppRunning = TRUE, !.dialing = h.dialing,
    !.lcpOpts = h.lcpOpts \ {"nocomp"}, !.tun = h.tun, !.fwd = h.fwd,
    !.ready = h.ready, !.lost = h.lost]

Reset(h) == [Fresh EXCEPT !.running = TRUE, !.pppRunning = TRUE, !.dialing = h.dialing,
    !.lcpOpts = h.lcpOpts \ {"nocomp"}, !.tun = h.tun, !.fwd = h.fwd,
    !.ready = h.ready, !.lost = h.lost]

Boot ==
    /\ pc["run"] = "boot"
    /\ host' = Reset(host)
    /\ Say("LREQ", host'.lcpOpts)
    /\ Goto("run", "lcp")
    /\ NoFault /\ UNCHANGED <<parser, rx, peer, dials, stops, hist>>

RunEnds(h) == host' = [h EXCEPT !.running = FALSE, !.pppRunning = FALSE]

(* The wait for LCP: up, or the time or the session is over.               *)
LcpWait ==
    /\ pc["run"] = "lcp"
    /\ \/ /\ host.lcpUp
          /\ Goto("run", "grace") /\ NoFault /\ UNCHANGED host
       \/ /\ ~host.lcpUp
          /\ IF host.running THEN Deadline ELSE NoFault
          /\ RunEnds(host) /\ Goto("run", "none")
    /\ UNCHANGED <<parser, rx, tx, peer, dials, stops, hist>>

(* IPCP is asked for once.                                                 *)
AskIpcp == Say("IREQ", host.ipcpOpts) /\ Goto("run", "ipcp")

AfterGrace == IF host.authUp THEN AskIpcp ELSE Goto("run", "auth") /\ UNCHANGED tx

(* Mutant: no grace period for the peer's Configure-Request.               *)
NoGrace ==
    /\ pc["run"] = "grace"
    /\ NoFault
    /\ AfterGrace
    /\ UNCHANGED <<host, parser, rx, peer, dials, stops, hist>>

Grace ==
    /\ pc["run"] = "grace"
    /\ IF host.seen \/ ~host.running THEN NoFault ELSE Deadline
    /\ AfterGrace
    /\ UNCHANGED <<host, parser, rx, peer, dials, stops, hist>>

Attempts == 3

AuthOpen == pc["run"] = "auth" /\ ~host.authUp /\ ~host.failed /\ host.running

(* Mutant: one attempt too many.                                           *)
PapSendMore ==
    /\ AuthOpen /\ host.auth = "pap" /\ host.tries <= Attempts
    /\ IF host.tries = 0 THEN NoFault ELSE Deadline
    /\ host' = [host EXCEPT !.tries = @ + 1]
    /\ Say("PAP", {})
    /\ UNCHANGED <<pc, parser, rx, peer, dials, stops, hist>>

(* Authenticate-Request, again after 3 s. CHAP waits for the engine.       *)
PapSend ==
    /\ AuthOpen /\ host.auth = "pap" /\ host.tries < Attempts
    /\ IF host.tries = 0 THEN NoFault ELSE Deadline
    /\ host' = [host EXCEPT !.tries = @ + 1]
    /\ Say("PAP", {})
    /\ UNCHANGED <<pc, parser, rx, peer, dials, stops, hist>>

(* A timeout counts as done: "continuing". After a refusal _run() takes    *)
(* the port and hangs up.                                                  *)
AuthOver ==
    /\ pc["run"] = "auth"
    /\ \/ ~AuthOpen /\ NoFault
       \/ AuthOpen /\ (host.auth = "pap" => host.tries = Attempts) /\ Deadline
    /\ \/ /\ host.failed
          /\ host' = [host EXCEPT !.dialing = TRUE, !.ready = FALSE]
          /\ Goto("run", "d_tun") /\ UNCHANGED tx
       \/ ~host.failed /\ host' = [host EXCEPT !.authUp = TRUE] /\ AskIpcp
    /\ UNCHANGED <<parser, rx, peer, dials, stops, hist>>

AuthReleased ==
    /\ pc["run"] = "released"
    /\ RunEnds([host EXCEPT !.dialing = FALSE])
    /\ Goto("run", "none")
    /\ NoFault /\ UNCHANGED <<parser, rx, tx, peer, dials, stops, hist>>

(* The wait for IPCP, then PPP_IPCP_UP: services may use the session.      *)
IpcpWait ==
    /\ pc["run"] = "ipcp"
    /\ \/ /\ host.ipcpUp /\ NoFault
          /\ host' = [host EXCEPT !.ready = TRUE]
          /\ Goto("run", IF host.ip THEN "tun" ELSE "idle")
       \/ /\ ~host.ipcpUp
          /\ IF host.running THEN Deadline ELSE NoFault
          /\ RunEnds(host) /\ Goto("run", "none")
    /\ UNCHANGED <<parser, rx, tx, peer, dials, stops, hist>>

(* _start_tun(): with or without success; no further look at _running.     *)
StartTun ==
    /\ pc["run"] = "tun"
    /\ \/ host' = [host EXCEPT !.tun = "on", !.fwd = "read"]
       \/ host' = [host EXCEPT !.tun = "none"]
    /\ Goto("run", "idle")
    /\ NoFault /\ UNCHANGED <<parser, rx, tx, peer, dials, stops, hist>>

RunLoopEnds ==
    /\ pc["run"] = "idle" /\ ~host.running
    /\ Goto("run", "none")
    /\ NoFault /\ UNCHANGED <<host, parser, rx, tx, peer, dials, stops, hist>>

-----------------------------------------------------------------------------
(* The engine thread: one frame at a time, any identifier will do *)

Silent(h) == host' = h /\ UNCHANGED tx
Reply(h, k, a) == host' = h /\ Say(k, a)

(* The peer's Configure-Request. All options are granted, except that an   *)
(* algorithm other than MD5 is answered with a Configure-Nak, once.        *)
PeerRequest(h, a) ==
    LET g == [h EXCEPT !.seen = TRUE] IN
    CASE a = {}      -> Reply(g, "LACK", {})
      [] a = {"pap"} -> Reply([g EXCEPT !.auth = "pap", !.authUp = FALSE], "LACK", {})
      [] a = {"md5"} -> Reply([g EXCEPT !.auth = "chap", !.authUp = FALSE], "LACK", {})
      [] OTHER       -> Reply([g EXCEPT !.auth = "chap", !.authUp = FALSE, !.naked = TRUE],
                              IF h.naked THEN "LACK" ELSE "LNAK", {})

HandleLcp(h, m) ==
    \/ m.k = "LREQ" /\ PeerRequest(h, m.a)
    \/ m.k = "LACK" /\ Silent([h EXCEPT !.lcpUp = TRUE])
    \/ /\ m.k \in {"LNAK", "LREJ"}
       /\ LET o == h.lcpOpts \union {IF m.k = "LREJ" THEN "nocomp" ELSE "mru"} IN
          Reply([h EXCEPT !.lcpOpts = o], "LREQ", o)
    \/ m.k = "TERM" /\ Reply([h EXCEPT !.lcpUp = FALSE], "TERMACK", {})
    \/ m.k = "TERMACK" /\ Silent([h EXCEPT !.lcpUp = FALSE])

HandleAuth(h, m) ==
    \/ m.k \in {"PAPACK", "SUCC"} /\ Silent([h EXCEPT !.authUp = TRUE])
    \/ m.k \in {"PAPNAK", "FAIL"} /\ Silent([h EXCEPT !.failed = TRUE])
    \/ m.k = "CHAL" /\ Reply(h, "RESP", {})

(* Mutant: the peer's own request counts as its consent to ours.           *)
HandleIpcpEager(h, m) ==
    \/ m.k = "IREQ" /\ Reply([h EXCEPT !.ipcpUp = TRUE], "IACK", {})
    \/ m.k = "IACK" /\ Silent([h EXCEPT !.ipcpUp = TRUE])
    \/ /\ m.k \in {"INAK", "IREJ"}
       /\ LET o == h.ipcpOpts \union {IF m.k = "IREJ" THEN "nonb" ELSE "ip"} IN
          Reply([h EXCEPT !.ipcpOpts = o, !.ip = @ \/ m.k = "INAK"], "IREQ", o)

HandleIpcp(h, m) ==
    \/ m.k = "IREQ" /\ Reply(h, "IACK", {})
    \/ m.k = "IACK" /\ Silent([h EXCEPT !.ipcpUp = TRUE])
    \/ /\ m.k \in {"INAK", "IREJ"}
       /\ LET o == h.ipcpOpts \union {IF m.k = "IREJ" THEN "nonb" ELSE "ip"} IN
          Reply([h EXCEPT !.ipcpOpts = o, !.ip = @ \/ m.k = "INAK"], "IREQ", o)

Engine ==
    /\ EngineAlive /\ parser.q # <<>>
    /\ parser' = [parser EXCEPT !.q = Tail(@)]
    /\ LET m == Head(parser.q) IN
       \/ HandleLcp(host, m) \/ HandleAuth(host, m) \/ HandleIpcp(host, m)
       \/ m.k = "IP" /\ Silent(host)    \* written to the TUN adapter if there is one
    /\ NoFault /\ UNCHANGED <<pc, rx, peer, dials, stops, hist>>

-----------------------------------------------------------------------------
(* The TUN forwarder: its inner loop ends when there is nothing to read,   *)
(* or the session is closed. Bounds: one packet at a time on the way, none *)
(* before stop() is called.                                                *)

SessionOpen == host.tun \in {"on", "stopping"}

FwdRead ==
    /\ host.fwd = "read" /\ SessionOpen /\ host.dialing
    /\ host' = [host EXCEPT !.fwd = "send"]
    /\ NoFault /\ UNCHANGED <<pc, parser, rx, tx, peer, dials, stops, hist>>

FwdEnd ==       \* nothing to read, and the outer loop is over
    /\ host.fwd = "read" /\ ~(host.tun = "on" /\ host.running)
    /\ host' = [host EXCEPT !.fwd = "off"]
    /\ NoFault /\ UNCHANGED <<pc, parser, rx, tx, peer, dials, stops, hist>>

FwdSend ==
    /\ host.fwd = "send" /\ ~Has(tx, {"IP"})
    /\ Say("IP", {})
    /\ host' = [host EXCEPT !.fwd = "read"]
    /\ hist' = [hist EXCEPT !.late = IF host.tun = "none" THEN @ + 1 ELSE @]
    /\ NoFault /\ UNCHANGED <<pc, parser, rx, peer, dials, stops>>

-----------------------------------------------------------------------------
(* stop() and _disconnect() *)

(* Bound: a call while another is at work is not looked at; CmuxLink does. *)
Stop(lost) ==
    /\ pc["con"] = "none" /\ host.running /\ stops < MaxStops
    /\ pc["run"] \notin {"none", "boot"}
    /\ stops' = stops + 1
    /\ host' = [host EXCEPT !.dialing = TRUE, !.ready = FALSE, !.lost = lost]
    /\ Goto("con", "d_tun")
    /\ hist' = [hist EXCEPT !.mark = faults, !.up = pc["run"] = "idle", !.lcp = FALSE,
                            !.late = 0]
    /\ NoFault /\ UNCHANGED <<parser, rx, tx, peer, dials>>

CallStop == Stop(FALSE)
LinkDown == peer.mode = "reset" /\ Stop(TRUE)

(* Whether thread t hangs up a link that is gone: _run() never knows.      *)
Lost(t) == t = "con" /\ host.lost

(* The Terminate-Request, when LCP is up; without a link nobody waits.     *)
Terminate(t) ==
    /\ IF host.lcpUp THEN Say("TERM", {}) ELSE UNCHANGED tx
    /\ Goto(t, IF host.lcpUp /\ ~Lost(t) THEN "d_term" ELSE "d_esc")
    /\ hist' = [hist EXCEPT !.lcp = IF t = "con" THEN host.lcpUp ELSE @]

(* Mutant: the adapter is left alone.                                      *)
DiscTunNot(t) ==
    /\ pc[t] = "d_tun" /\ Terminate(t)
    /\ NoFault /\ UNCHANGED <<host, parser, rx, peer, dials, stops>>

(* _stop_tun(): the flag; then join(timeout) on the forwarder, which may   *)
(* still have packets to read; then the adapter is closed.                 *)
DiscTun(t) ==
    /\ pc[t] = "d_tun"
    /\ \/ /\ host.tun # "none"
          /\ host' = [host EXCEPT !.tun = "stopping"]
          /\ Goto(t, "d_join") /\ UNCHANGED <<tx, hist>>
       \/ host.tun = "none" /\ Terminate(t) /\ UNCHANGED host
    /\ NoFault /\ UNCHANGED <<parser, rx, peer, dials, stops>>

DiscJoin(t) ==
    /\ pc[t] = "d_join"
    /\ host' = [host EXCEPT !.tun = "none"]
    /\ Terminate(t)
    /\ NoFault /\ UNCHANGED <<parser, rx, peer, dials, stops>>

(* The wait for the Terminate-Ack reads and feeds in place of the reader.  *)
DiscFeed(t) ==
    /\ pc[t] = "d_term" /\ host.lcpUp
    /\ Feed
    /\ NoFault /\ UNCHANGED <<pc, host, tx, peer, dials, stops, hist>>

DiscTerm(t) ==
    /\ pc[t] = "d_term"
    /\ IF host.lcpUp THEN Deadline ELSE NoFault
    /\ Goto(t, "d_esc")
    /\ UNCHANGED <<host, parser, rx, tx, peer, dials, stops, hist>>

After(t) == IF t = "run" THEN "released" ELSE "flag"

(* "+++" to leave data mode, ATH to end the call. At shutdown ATH does not *)
(* wait for the NO CARRIER.                                                *)
Escape(t) ==
    \/ Say("ESC", {}) /\ Goto(t, "d_nc")
    \/ tx' = tx \o <<Msg("ESC", {}), Msg("ATH", {})>> /\ Goto(t, "d_ok")

(* Mutant: the escape is only sent when LCP was not up.                    *)
DiscEscOnlyLcpDown(t) ==
    /\ pc[t] = "d_esc" /\ Rested
    /\ IF Lost(t) \/ hist.lcp THEN UNCHANGED tx /\ Goto(t, After(t)) ELSE Escape(t)
    /\ NoFault /\ UNCHANGED <<host, parser, rx, peer, dials, stops, hist>>

DiscEsc(t) ==
    /\ pc[t] = "d_esc" /\ Rested
    /\ IF Lost(t) THEN UNCHANGED tx /\ Goto(t, After(t)) ELSE Escape(t)
    /\ NoFault /\ UNCHANGED <<host, parser, rx, peer, dials, stops, hist>>

(* _read_cmux_until(): reads until the text has come or the time is over.  *)
GotText(text) == Drop /\ Head(rx).k = text /\ NoFault
OtherText(text) == Drop /\ Head(rx).k # text /\ NoFault
NoText == rx = <<>> /\ Deadline /\ UNCHANGED <<rx, parser>>

(* Mutant: the wait for NO CARRIER has no time limit.                      *)
DiscCarrierForever(t) ==
    /\ pc[t] = "d_nc"
    /\ \/ OtherText("NOCARRIER") /\ UNCHANGED <<pc, tx>>
       \/ GotText("NOCARRIER") /\ Say("ATH", {}) /\ Goto(t, "d_ok")
    /\ UNCHANGED <<host, peer, dials, stops, hist>>

DiscCarrier(t) ==
    /\ pc[t] = "d_nc"
    /\ \/ OtherText("NOCARRIER") /\ UNCHANGED <<pc, tx>>
       \/ (GotText("NOCARRIER") \/ NoText) /\ Say("ATH", {}) /\ Goto(t, "d_ok")
    /\ UNCHANGED <<host, peer, dials, stops, hist>>

(* The AT commands that follow only check what ATH has brought about.      *)
DiscOk(t) ==
    /\ pc[t] = "d_ok"
    /\ \/ OtherText("OK") /\ UNCHANGED pc
       \/ (GotText("OK") \/ NoText) /\ Goto(t, After(t))
    /\ UNCHANGED <<host, tx, peer, dials, stops, hist>>

StopFlag ==
    /\ pc["con"] = "flag"
    /\ host' = [host EXCEPT !.running = FALSE]
    /\ Goto("con", "join")
    /\ NoFault /\ UNCHANGED <<parser, rx, tx, peer, dials, stops, hist>>

(* join(timeout=5), then the flags; a lost link leaves ppp_running alone.  *)
StopEnd ==
    /\ pc["con"] = "join"
    /\ IF pc["run"] \in DiscPc \union {"none"} THEN NoFault ELSE Fault
    /\ host' = [host EXCEPT !.dialing = FALSE, !.pppRunning = @ /\ host.lost]
    /\ Goto("con", "none")
    /\ UNCHANGED <<parser, rx, tx, peer, dials, stops, hist>>

-----------------------------------------------------------------------------
(* External: the peer, the modem, the line *)

Tell(ms) == rx' = rx \o ms

PeerDue ==
    /\ \/ /\ LcpDue
          /\ Tell(<<Msg("LREQ", IF peer.s.auth = "none" THEN {} ELSE
                                IF peer.s.auth = "pap" THEN {"pap"} ELSE {peer.alg})>>)
          /\ peer' = [peer EXCEPT !.asks = @ + 1, !.asked = peer.s.auth = "pap"]
       \/ ChalDue /\ Tell(<<Msg("CHAL", {})>>) /\ peer' = [peer EXCEPT !.chal = @ + 1]
    /\ NoFault /\ UNCHANGED <<pc, host, parser, tx, dials, stops, hist>>

PeerData ==
    /\ Network /\ peer.agreed /\ peer.data = 0
    /\ Tell(<<Msg("IP", {})>>)
    /\ peer' = [peer EXCEPT !.data = 1]
    /\ NoFault /\ UNCHANGED <<pc, host, parser, tx, dials, stops, hist>>

Objects(a) ==
    \/ peer.s.first = "LREJ" /\ "nocomp" \notin a
    \/ peer.s.first = "LNAK" /\ "mru" \notin a

PeerLcp(c) ==
    \/ /\ c.k = "LREQ"
       /\ Tell(<<Msg(IF Objects(c.a) THEN peer.s.first ELSE "LACK", {})>>)
       /\ peer' = [peer EXCEPT !.acked = @ \/ ~Objects(c.a)]
    \/ c.k = "LACK" /\ UNCHANGED rx /\ peer' = [peer EXCEPT !.heard = TRUE]
    \/ /\ c.k = "LNAK" /\ UNCHANGED rx
       /\ peer' = [peer EXCEPT !.asks = 0, !.alg = IF peer.s.auth = "other" THEN "md5" ELSE @]
    \/ /\ c.k = "TERM" /\ Tell(<<Msg("TERMACK", {}), Msg("NOCARRIER", {})>>)
       /\ peer' = [peer EXCEPT !.mode = "cmd"]
    \/ /\ c.k = "TERMACK" /\ Tell(<<Msg("NOCARRIER", {})>>)
       /\ peer' = [peer EXCEPT !.mode = "cmd"]

(* Authentication and network packets before their phase are discarded.    *)
PeerAuth(c) ==
    /\ c.k \in {"PAP", "RESP"}
    /\ IF Opened /\ peer.s.auth # "none" /\ (c.k = "PAP" <=> peer.s.auth = "pap")
       THEN LET ok == peer.s.accepts /\ (c.k = "PAP" \/ peer.alg = "md5") IN
            /\ peer' = [peer EXCEPT !.authd = ok]
            /\ Tell(<<Msg(IF c.k = "PAP" THEN IF ok THEN "PAPACK" ELSE "PAPNAK"
                                         ELSE IF ok THEN "SUCC" ELSE "FAIL", {})>>)
       ELSE UNCHANGED <<rx, peer>>

PeerIpcp(c) ==
    \/ /\ c.k = "IREQ" => ~Network
       /\ c.k \in {"IREQ", "IACK"}
       /\ UNCHANGED <<rx, peer>>
    \/ /\ c.k = "IREQ" /\ Network
       /\ LET r == IF peer.s.picky /\ "nonb" \notin c.a THEN "IREJ"
                   ELSE IF "ip" \notin c.a THEN "INAK" ELSE "IACK" IN
          /\ Tell(IF peer.ipAsked THEN <<Msg(r, {})>> ELSE <<Msg("IREQ", {}), Msg(r, {})>>)
          /\ peer' = [peer EXCEPT !.agreed = @ \/ r = "IACK", !.ipAsked = TRUE]

(* "+++" holds the call, ATH ends it; a modem at rest takes no PPP.        *)
ModemText(c) ==
    \/ /\ c.k = "ESC" /\ UNCHANGED rx
       /\ peer' = [peer EXCEPT !.mode = IF @ = "data" THEN "held" ELSE @]
    \/ /\ c.k = "ATH" /\ peer.mode # "data" /\ Tell(<<Msg("OK", {})>>)
       /\ peer' = [peer EXCEPT !.mode = IF @ = "held" THEN "cmd" ELSE @]
    \/ c.k = "ATH" /\ peer.mode = "data" /\ UNCHANGED <<rx, peer>>
    \/ c.k \notin {"ESC", "ATH"} /\ peer.mode # "data" /\ UNCHANGED <<rx, peer>>
    \/ c.k = "IP" /\ peer.mode = "data" /\ UNCHANGED <<rx, peer>>

ModemStep ==
    /\ tx # <<>>
    /\ tx' = Tail(tx)
    /\ LET c == Head(tx) IN
       \/ ModemText(c)
       \/ peer.mode = "data" /\ (PeerLcp(c) \/ PeerAuth(c) \/ PeerIpcp(c))
    /\ NoFault /\ UNCHANGED <<pc, host, parser, dials, stops, hist>>

Lose ==     \* a frame is lost on the way
    /\ Fault
    /\ \/ tx # <<>> /\ tx' = Tail(tx) /\ UNCHANGED rx
       \/ rx # <<>> /\ rx' = Tail(rx) /\ UNCHANGED tx
    /\ UNCHANGED <<pc, host, parser, peer, dials, stops, hist>>

PeerLeaves ==       \* the network ends the session
    /\ Fault
    /\ Opened
    /\ Tell(<<Msg("TERM", {})>>)
    /\ UNCHANGED <<pc, host, parser, tx, peer, dials, stops, hist>>

LinkReset ==        \* the multiplexer is lost, and what is on its way
    /\ Fault
    /\ peer.mode = "data"
    /\ peer' = [peer EXCEPT !.mode = "reset"]
    /\ rx' = <<>> /\ tx' = <<>>
    /\ UNCHANGED <<pc, host, parser, dials, stops, hist>>

-----------------------------------------------------------------------------
RunStep == \/ Boot \/ LcpWait \/ Grace \/ PapSend \/ AuthOver \/ AuthReleased
           \/ IpcpWait \/ StartTun \/ RunLoopEnds
DiscStep(t) == \/ DiscTun(t) \/ DiscJoin(t) \/ DiscFeed(t) \/ DiscTerm(t)
               \/ DiscEsc(t) \/ DiscCarrier(t) \/ DiscOk(t)
StopStep == StopFlag \/ StopEnd
FwdStep == FwdRead \/ FwdEnd \/ FwdSend
PeerStep == PeerDue \/ PeerData \/ ModemStep

Next ==
    \/ Dial \/ DialFails \/ CallStop \/ LinkDown
    \/ RunStep \/ Engine \/ Reader \/ FwdStep \/ StopStep
    \/ \E t \in Thread : DiscStep(t)
    \/ PeerStep \/ Lose \/ PeerLeaves \/ LinkReset

Spec == Init /\ [][Next]_vars

(* Threads run, waits end, the modem works off what it gets. Nobody has to *)
(* dial or stop, and nothing has to go wrong.                              *)
Fairness ==
    /\ WF_vars(RunStep /\ NoFault) /\ WF_vars(Engine) /\ WF_vars(Reader)
    /\ WF_vars(DiscStep("con") /\ NoFault) /\ WF_vars(DiscStep("run") /\ NoFault)
    /\ WF_vars(StopStep /\ NoFault)
    /\ WF_vars(FwdStep) /\ WF_vars(PeerDue) /\ WF_vars(ModemStep) /\ WF_vars(LinkDown)

FairSpec == Spec /\ Fairness

-----------------------------------------------------------------------------
(* Properties *)

HostKind == {"LREQ", "LACK", "LNAK", "TERM", "TERMACK", "PAP", "RESP", "IREQ", "IACK",
             "IP", "ESC", "ATH"}
PeerKind == {"LREQ", "LACK", "LNAK", "LREJ", "TERM", "TERMACK", "PAPACK", "PAPNAK", "CHAL",
             "SUCC", "FAIL", "IREQ", "IACK", "INAK", "IREJ", "IP"} \union Text

(* Types, and the bounds that keep the queues finite.                      *)
TypeOK ==
    /\ pc["run"] \in RunPc /\ pc["con"] \in ConPc
    /\ host \in [running : BOOLEAN, pppRunning : BOOLEAN, dialing : BOOLEAN, lcpUp : BOOLEAN,
                 authUp : BOOLEAN, auth : {"none", "pap", "chap"}, failed : BOOLEAN,
                 seen : BOOLEAN, naked : BOOLEAN, lcpOpts : SUBSET {"nocomp", "mru"},
                 ip : BOOLEAN, ipcpOpts : SUBSET {"ip", "nonb"}, ipcpUp : BOOLEAN,
                 tries : 0..Attempts, tun : {"none", "on", "stopping"},
                 fwd : {"off", "read", "send"}, ready : BOOLEAN,
                 lost : BOOLEAN]
    /\ \A i \in DOMAIN parser.q : parser.q[i].k \in PeerKind \ Text
    /\ parser.phase \in {"clear", "own", "open"}
    /\ \A i \in DOMAIN rx : rx[i].k \in PeerKind
    /\ \A i \in DOMAIN tx : tx[i].k \in HostKind
    /\ peer.mode \in {"cmd", "data", "held", "reset"} /\ peer.s \in Setups
    /\ dials \in 0..MaxDials /\ stops \in 0..MaxStops /\ faults \in 0..MaxFaults

(* PPP_IPCP_UP is fired only when the peer has granted the address in use, *)
(* after any authentication it asked for, unless the dial began with bytes *)
(* of an earlier one in the parser: neither a late answer, nor a timeout   *)
(* taken for success, nor a flag of an earlier dial opens the session.     *)
UpMeansAgreed ==
    [][host'.ready /\ ~host.ready /\ hist.clean =>
            /\ peer.agreed /\ host.ip
            /\ peer.s.auth # "none" => peer.authd]_vars

(* "PAP credentials are sent only if the peer requests authentication      *)
(* during LCP": never because of what an earlier dial has left.            *)
CredentialsOnRequest ==
    [][hist.clean /\ tx' # tx /\ tx' # <<>> /\ tx'[Len(tx')].k = "PAP"
            /\ Len(tx') > Len(tx) => peer.asked]_vars

(* A session that was up when stop() was called leaves nothing behind: the *)
(* adapter is closed, the services know, and at most the one packet that   *)
(* the forwarder had in its hand is sent after that.                       *)
StoppedIsDown ==
    pc["con"] \in {"flag", "join"} /\ hist.up =>
        host.tun = "none" /\ ~host.ready /\ hist.late <= 1

(* The hang-up makes up for any one fault: when LCP was up, the modem has  *)
(* left data mode at the end, by the Terminate-Request or by "+++".        *)
HangUpTolerates ==
    pc["con"] = "flag" /\ hist.lcp /\ ~host.lost /\ faults - hist.mark <= 1 =>
        peer.mode # "data" \/ Has(tx, {"TERM", "ESC"})

(* stop() returns, whatever the peer does.                                 *)
StopReturns == pc["con"] # "none" ~> pc["con"] = "none"

Willing ==
    \/ peer.s.auth = "none"
    \/ peer.s.accepts /\ peer.s.auth # "insist"

Settled ==
    \/ IF Willing THEN pc["run"] = "idle" /\ host.ready
                  ELSE ~host.running /\ peer.mode = "cmd"
    \/ faults # hist.faults \/ stops # hist.stops

(* A dial that nothing disturbs comes up, whatever the peer asks for and   *)
(* objects to; one whose credentials are refused ends, with the modem in   *)
(* command mode again.                                                     *)
NegotiationSettles == pc["run"] = "boot" /\ hist.clean ~> Settled

(* "a redial must start clean": while nothing goes wrong after the dial,   *)
(* each frame that arrives whole reaches the engine.                       *)
RedialHears ==
    [][pc["run"] # "none" /\ faults = hist.faults /\ rx # <<>> /\ rx' = Tail(rx)
            /\ parser' # parser /\ Head(rx).a # {"rest"} =>
                parser'.q = Append(parser.q, Head(rx))]_vars
=============================================================================
