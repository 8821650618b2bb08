------------------------------ MODULE CmuxMux ------------------------------
(***************************************************************************)
(* Bringing the multiplexer up and down: CmuxTE.init_cmux(), close() and   *)
(* what they call, with the attempts of _recover_link(), over any number   *)
(* of sessions of the tool with one modem. The modem is external: it works *)
(* off what it receives in order, and may do so later than the host waits. *)
(* A command carries the speed it was written at; at another speed it is   *)
(* noise to the modem, and so are the modem's answers to the host.         *)
(***************************************************************************)
EXTENDS Integers, Sequences, FiniteSetsExt

CONSTANTS
    Channels,       \* data channels, DLCI 1..Channels
    Entry, Target,  \* the speed of the AT handshake, another speed
    Setups,         \* the combinations of options and modem to look at
    MaxSessions,    \* bound: sessions of the tool
    MaxFaults       \* bound: things that go wrong, over all sessions

Data == 1..Channels
Dlci == 0..Channels

(* speed is cmux_baudrate; form is what _build_cmux_command() makes of it: *)
(* speed and N1, N1 alone, or the bare command. extended: the modem takes  *)
(* parameters. restores: it goes back to its entry speed after CLD.        *)
Form == {"speed", "n1", "bare"}
Setup == [speed : {Entry, Target}, form : Form, extended : BOOLEAN,
          restores : BOOLEAN, grants : SUBSET Data]

ASSUME MuxAssumption ==
    /\ Channels \in Nat /\ MaxSessions \in Nat /\ MaxFaults \in Nat
    /\ Entry # Target
    /\ Setups \subseteq Setup

VARIABLES
    setup,          \* the options of the tool and the kind of modem
    host,           \* CmuxTE and where its thread is
    rx,             \* the serial receive buffer: answers not read yet
    tx,             \* commands on their way to the modem
    modem,          \* external: its mode, speed and open channels
    sessions, faults,
    hist            \* history variables of the properties

vars == <<setup, host, rx, tx, modem, sessions, faults, hist>>

Command == Form \union {"AT", "SABM", "DISC", "CLD"}
TextKind == {"OK", "ERROR"}
FrameKind == {"UA", "DM", "UIH", "UIH_OK", "UIH_ERROR"}    \* UIH, by the text it carries

HostPc == {"off", "warmup", "resp", "dlc", "up", "cld", "close", "disc", "probe", "port"}

(* A CmuxTE that has opened its port: frames is the parser's queue, cmd    *)
(* the command whose response is awaited, ch and n the channel and the try *)
(* at hand, stage the attempt of close() to find the AT mode.              *)
Fresh ==
    [pc |-> "off", baud |-> Entry, established |-> FALSE,
     dlc |-> [d \in Dlci |-> FALSE], frames |-> <<>>, cmd |-> "bare",
     pending |-> FALSE, recovering |-> FALSE, ch |-> 0, n |-> 0, stage |-> 1]

(* report: what close() said. mark, wasUp: the faults and the link when    *)
(* close() was called. In this session, cut: the modem has restarted;      *)
(* text: what answers of AT commands it has sent on a channel.             *)
History == [report |-> "none", mark |-> 0, wasUp |-> FALSE, cut |-> FALSE, text |-> {}]

Init ==
    /\ setup \in Setups
    /\ host = Fresh
    /\ rx = <<>> /\ tx = <<>>
    /\ modem \in {[mode |-> "at", baud |-> Entry, open |-> {}]}
                 \union [mode : {"mux"}, baud : {Entry, setup.speed},
                         open : {{}, {0} \union setup.grants}]
    /\ sessions = 0 /\ faults = 0
    /\ hist = History

-----------------------------------------------------------------------------
(* Sending, receiving and waiting *)

Send(h, k, d) == tx' = Append(tx, [k |-> k, d |-> d, baud |-> h.baud])
Answer(q, k, d) == IF host.pc # "off" /\ host.baud = modem.baud
                   THEN Append(q, [k |-> k, d |-> d]) ELSE q

HasOk(q) == \E i \in DOMAIN q : q[i].k \in {"OK", "UIH_OK"}
HasError(q) == \E i \in DOMAIN q : q[i].k \in {"ERROR", "UIH_ERROR"}
Frames(q) ==    \* the answers that are frames
    LET F[n \in 0..Len(q)] ==
            IF n = 0 THEN <<>>
            ELSE IF q[n].k \in FrameKind THEN Append(F[n - 1], q[n]) ELSE F[n - 1]
    IN F[Len(q)]

(* The positions of the frames of channel d that wait_for_frame() returns. *)
FramesOf(q, d, kinds) == {i \in DOMAIN q : q[i].d = d /\ q[i].k \in kinds}
From(q, i) == SubSeq(q, i + 1, Len(q))

Fault == faults < MaxFaults /\ faults' = faults + 1
NoFault == UNCHANGED faults

(* A wait ends without an answer: there was none to come, or it is late.   *)
Deadline ==
    \/ tx = <<>> /\ NoFault
    \/ tx # <<>> /\ Fault

-----------------------------------------------------------------------------
(* CmuxHarness.start(): a new process, a new CmuxTE, then init_cmux() *)

Start ==
    /\ host.pc = "off" /\ sessions < MaxSessions
    /\ sessions' = sessions + 1
    /\ host' = [Fresh EXCEPT !.pc = "warmup"]
    /\ Send(Fresh, "AT", 0)
    /\ rx' = <<>>
    /\ hist' = History
    /\ NoFault /\ UNCHANGED <<setup, modem>>

(* "OK" anywhere in what 0.3 s brought counts as the AT mode; otherwise    *)
(* the modem may still be in a multiplexer and gets a SABM directly.       *)
Warmup ==
    /\ host.pc = "warmup"
    /\ Deadline
    /\ LET cmd == IF HasOk(rx) THEN setup.form ELSE "SABM" IN
       /\ host' = [host EXCEPT !.pc = "resp", !.cmd = cmd,
                               !.pending = HasOk(rx) /\ setup.speed # host.baud]
       /\ Send(host, cmd, 0)
    /\ rx' = <<>>
    /\ UNCHANGED <<setup, modem, sessions, hist>>

Rejected == HasError(rx) /\ host.cmd \in {"speed", "n1"}

RetryBare ==
    /\ host.pc = "resp" /\ Rejected
    /\ host' = [host EXCEPT !.cmd = "bare", !.pending = FALSE]
    /\ Send(host, "bare", 0)
    /\ rx' = <<>>
    /\ NoFault /\ UNCHANGED <<setup, modem, sessions, hist>>

(* open() raises and start() gives up; a recovery waits for its next cycle. *)
Failed(h) == IF h.recovering THEN [h EXCEPT !.pc = "up", !.recovering = FALSE]
                             ELSE [h EXCEPT !.pc = "close"]

(* The response goes to the parser as well; after OK the host follows the  *)
(* speed it asked for, then asks for the control channel.                  *)
Response ==
    /\ host.pc = "resp" /\ ~Rejected
    /\ \/ rx # <<>> /\ NoFault
       \/ rx = <<>> /\ Deadline
    /\ LET h == [host EXCEPT !.frames = @ \o Frames(rx)]
           g == [h EXCEPT !.pc = "dlc", !.ch = 0, !.n = 1,
                          !.baud = IF host.pending /\ HasOk(rx) THEN setup.speed ELSE @] IN
       IF HasError(rx) THEN host' = Failed(h) /\ UNCHANGED tx
                       ELSE host' = g /\ Send(g, "SABM", 0)
    /\ rx' = <<>>
    /\ UNCHANGED <<setup, modem, sessions, hist>>

(* Mutants: DLCI 0 gets one try; data channels are tried without it.       *)
DlcDoneNoRetry(h, granted) ==
    IF h.ch = 0 /\ ~granted
    THEN host' = Failed(h) /\ UNCHANGED tx
    ELSE LET g == [h EXCEPT !.dlc[h.ch] = @ \/ granted, !.established = TRUE] IN
         IF h.ch < Channels
         THEN host' = [g EXCEPT !.ch = @ + 1, !.n = 1] /\ Send(g, "SABM", h.ch + 1)
         ELSE host' = [g EXCEPT !.pc = "up", !.recovering = FALSE] /\ UNCHANGED tx

DlcDoneGoesOn(h, granted) ==
    LET g == [h EXCEPT !.dlc[h.ch] = @ \/ granted, !.established = TRUE] IN
    IF h.ch < Channels
    THEN host' = [g EXCEPT !.ch = @ + 1, !.n = 1] /\ Send(g, "SABM", h.ch + 1)
    ELSE host' = [g EXCEPT !.pc = "up", !.recovering = FALSE] /\ UNCHANGED tx

(* The rest of init_cmux() once establish_dlc(ch) has its result; with the *)
(* last channel start() goes on to the reader and the services.            *)
DlcDone(h, granted) ==
    IF h.ch = 0 /\ ~granted
    THEN IF h.n = 1 THEN host' = [h EXCEPT !.n = 2] /\ Send(h, "SABM", 0)
                    ELSE host' = Failed(h) /\ UNCHANGED tx
    ELSE LET g == [h EXCEPT !.dlc[h.ch] = @ \/ granted, !.established = TRUE] IN
         IF h.ch < Channels
         THEN host' = [g EXCEPT !.ch = @ + 1, !.n = 1] /\ Send(g, "SABM", h.ch + 1)
         ELSE host' = [g EXCEPT !.pc = "up", !.recovering = FALSE] /\ UNCHANGED tx

(* establish_dlc(): the first frame of the channel decides, whatever it is. *)
Establish ==
    /\ host.pc = "dlc"
    /\ LET q == host.frames \o Frames(rx)
           own == FramesOf(q, host.ch, FrameKind) IN
       \/ /\ own # {} /\ NoFault
          /\ DlcDone([host EXCEPT !.frames = From(q, Min(own))], q[Min(own)].k = "UA")
       \/ /\ own = {} /\ Deadline
          /\ DlcDone([host EXCEPT !.frames = <<>>], FALSE)
    /\ rx' = <<>>
    /\ UNCHANGED <<setup, modem, sessions, hist>>

-----------------------------------------------------------------------------
(* The link in use, its loss and its recovery *)

Read ==     \* the reader thread takes what arrives
    /\ host.pc = "up" /\ rx # <<>>
    /\ host' = [host EXCEPT !.frames = <<>>]
    /\ rx' = <<>>
    /\ NoFault /\ UNCHANGED <<setup, tx, modem, sessions, hist>>

(* Mutants: the recovery leaves dlc_available as it is; it is tried once.  *)
LinkDownKeepsDlc ==
    /\ host.pc = "up"
    /\ IF modem.mode = "mux" /\ modem.baud = host.baud THEN Fault ELSE NoFault
    /\ host' = [host EXCEPT !.pc = "cld", !.recovering = TRUE, !.frames = <<>>]
    /\ Send(host, "CLD", 0)
    /\ hist' = [hist EXCEPT !.cut = FALSE]
    /\ UNCHANGED <<setup, rx, modem, sessions>>

LinkDownOnce ==
    /\ host.pc = "up" /\ host.dlc[0]
    /\ IF modem.mode = "mux" /\ modem.baud = host.baud THEN Fault ELSE NoFault
    /\ host' = [host EXCEPT !.pc = "cld", !.recovering = TRUE, !.frames = <<>>,
                            !.dlc = [d \in Dlci |-> FALSE]]
    /\ Send(host, "CLD", 0)
    /\ hist' = [hist EXCEPT !.cut = FALSE]
    /\ UNCHANGED <<setup, rx, modem, sessions>>

(* The keepalive thread has counted its probes: nobody answers, or the     *)
(* modem was merely slow. _recover_link() up to its CLD.                   *)
LinkDown ==
    /\ host.pc = "up"
    /\ IF modem.mode = "mux" /\ modem.baud = host.baud THEN Fault ELSE NoFault
    /\ host' = [host EXCEPT !.pc = "cld", !.recovering = TRUE, !.frames = <<>>,
                            !.dlc = [d \in Dlci |-> FALSE]]
    /\ Send(host, "CLD", 0)
    /\ hist' = [hist EXCEPT !.cut = FALSE]
    /\ UNCHANGED <<setup, rx, modem, sessions>>

Reinit ==   \* 0.5 s later the buffer is emptied and init_cmux() begins
    /\ host.pc = "cld"
    /\ Deadline
    /\ host' = [host EXCEPT !.pc = "warmup"]
    /\ Send(host, "AT", 0)
    /\ rx' = <<>>
    /\ UNCHANGED <<setup, modem, sessions, hist>>

Quit ==
    /\ host.pc = "up"
    /\ host' = [host EXCEPT !.pc = "close"]
    /\ hist' = [hist EXCEPT !.mark = faults, !.wasUp = host.dlc[0]]
    /\ NoFault /\ UNCHANGED <<setup, rx, tx, modem, sessions>>

-----------------------------------------------------------------------------
(* CmuxTE.close() *)

(* The next open data channel gets its DISC; after the last one, CLD.      *)
NextDisc(h) ==
    LET open == {d \in Data : d > h.ch /\ h.dlc[d]} IN
    IF open # {}
    THEN host' = [h EXCEPT !.pc = "disc", !.ch = Min(open)] /\ Send(h, "DISC", Min(open))
    ELSE host' = [h EXCEPT !.pc = "probe", !.n = 0, !.stage = 1] /\ Send(h, "CLD", 0)

NeedsClose == host.dlc[0] \/ host.established

Close ==
    /\ host.pc = "close"
    /\ IF NeedsClose
       THEN NextDisc([host EXCEPT !.ch = 0]) /\ rx' = <<>>
       ELSE host' = [host EXCEPT !.pc = "port"] /\ UNCHANGED <<rx, tx>>
    /\ NoFault /\ UNCHANGED <<setup, modem, sessions, hist>>

(* _shutdown_channel(): other frames of the channel are passed over.       *)
Disc ==
    /\ host.pc = "disc"
    /\ LET q == host.frames \o Frames(rx)
           own == FramesOf(q, host.ch, {"UA", "DM"}) IN
       \/ /\ own # {} /\ NoFault
          /\ NextDisc([host EXCEPT !.frames = From(q, Min(own)), !.dlc[host.ch] = FALSE])
       \/ /\ own = {} /\ Deadline
          /\ NextDisc([host EXCEPT !.frames = <<>>])
    /\ rx' = <<>>
    /\ UNCHANGED <<setup, modem, sessions, hist>>

Rounds == 3

(* Mutant: one round too many.                                             *)
ProbeAgainExtra ==
    /\ host.pc = "probe" /\ host.n <= Rounds
    /\ host.n > 0 => ~HasOk(rx)
    /\ IF host.n > 0 THEN Deadline ELSE NoFault
    /\ host' = [host EXCEPT !.n = @ + 1]
    /\ Send(host, "AT", 0)
    /\ rx' = <<>>
    /\ UNCHANGED <<setup, modem, sessions, hist>>

(* _wait_at_mode(): each round empties the buffer and sends AT.            *)
ProbeAgain ==
    /\ host.pc = "probe" /\ host.n < Rounds
    /\ host.n > 0 => ~HasOk(rx)
    /\ IF host.n > 0 THEN Deadline ELSE NoFault
    /\ host' = [host EXCEPT !.n = @ + 1]
    /\ Send(host, "AT", 0)
    /\ rx' = <<>>
    /\ UNCHANGED <<setup, modem, sessions, hist>>

(* Mutant: any answer counts.                                              *)
ProbeAnsweredByAny ==
    /\ host.pc = "probe" /\ host.n > 0 /\ rx # <<>>
    /\ host' = [host EXCEPT !.pc = "port", !.established = FALSE]
    /\ hist' = [hist EXCEPT !.report = "at"]
    /\ NoFault /\ UNCHANGED <<setup, rx, tx, modem, sessions>>

ProbeAnswered ==
    /\ host.pc = "probe" /\ host.n > 0 /\ HasOk(rx)
    /\ host' = [host EXCEPT !.pc = "port", !.established = FALSE]
    /\ hist' = [hist EXCEPT !.report = "at"]
    /\ NoFault /\ UNCHANGED <<setup, rx, tx, modem, sessions>>

(* Mutant: no second CLD.                                                  *)
ProbeFailedAtOnce ==
    /\ host.pc = "probe" /\ host.n = Rounds /\ ~HasOk(rx)
    /\ Deadline
    /\ host' = [host EXCEPT !.pc = "port"]
    /\ hist' = [hist EXCEPT !.report = "stuck"]
    /\ UNCHANGED <<setup, rx, tx, modem, sessions>>

(* Three rounds in vain: CLD again, then the entry speed, then give up.    *)
ProbeFailed ==
    /\ host.pc = "probe" /\ host.n = Rounds /\ ~HasOk(rx)
    /\ Deadline
    /\ \/ /\ host.stage = 1
          /\ host' = [host EXCEPT !.stage = 2, !.n = 0]
          /\ Send(host, "CLD", 0)
          /\ UNCHANGED <<rx, hist>>
       \/ /\ host.stage = 2 /\ host.baud # Entry
          /\ host' = [host EXCEPT !.stage = 3, !.n = 0, !.baud = Entry]
          /\ rx' = <<>>
          /\ UNCHANGED <<tx, hist>>
       \/ /\ host.stage # 1
          /\ host.stage = 2 => host.baud = Entry
          /\ host' = [host EXCEPT !.pc = "port"]
          /\ hist' = [hist EXCEPT !.report = "stuck"]
          /\ UNCHANGED <<rx, tx>>
    /\ UNCHANGED <<setup, modem, sessions>>

ClosePort ==
    /\ host.pc = "port"
    /\ host' = Fresh
    /\ rx' = <<>>
    /\ NoFault /\ UNCHANGED <<setup, tx, modem, sessions, hist>>

-----------------------------------------------------------------------------
(* External: the modem, the line, the end of the process *)

Enter(form) ==
    IF form # "bare" /\ ~setup.extended
    THEN rx' = Answer(rx, "ERROR", 0) /\ UNCHANGED modem
    ELSE /\ rx' = Answer(rx, "OK", 0)
         /\ modem' = [mode |-> "mux", open |-> {},
                      baud |-> IF form = "speed" THEN setup.speed ELSE modem.baud]

InAtMode(c) ==
    \/ c.k = "AT" /\ rx' = Answer(rx, "OK", 0) /\ UNCHANGED modem
    \/ c.k \in Form /\ Enter(c.k)
    \/ c.k \in {"SABM", "DISC", "CLD"} /\ UNCHANGED <<rx, modem>>

InMuxMode(c) ==
    \/ /\ c.k = "SABM"
       /\ LET yes == c.d = 0 \/ (c.d \in setup.grants /\ 0 \in modem.open) IN
          /\ rx' = Answer(rx, IF yes THEN "UA" ELSE "DM", c.d)
          /\ modem' = [modem EXCEPT !.open = IF yes THEN @ \union {c.d} ELSE @]
    \/ /\ c.k = "DISC"
       /\ rx' = Answer(rx, IF c.d \in modem.open THEN "UA" ELSE "DM", c.d)
       /\ modem' = [modem EXCEPT !.open = @ \ {c.d}]
    \/ /\ c.k = "CLD"
       /\ modem' = [mode |-> "at", open |-> {},
                    baud |-> IF setup.restores THEN Entry ELSE modem.baud]
       /\ UNCHANGED rx
    \/ c.k \in Form \union {"AT"} /\ UNCHANGED <<rx, modem>>

ModemStep ==
    /\ tx # <<>>
    /\ tx' = Tail(tx)
    /\ LET c == Head(tx) IN
       IF c.baud # modem.baud THEN UNCHANGED <<rx, modem>>
       ELSE IF modem.mode = "at" THEN InAtMode(c) ELSE InMuxMode(c)
    /\ NoFault /\ UNCHANGED <<setup, host, sessions, hist>>

Lose ==     \* a command or an answer is garbled on the line
    /\ Fault
    /\ \/ tx # <<>> /\ tx' = Tail(tx) /\ UNCHANGED rx
       \/ rx # <<>> /\ rx' = Tail(rx) /\ UNCHANGED tx
    /\ UNCHANGED <<setup, host, modem, sessions, hist>>

Talk ==     \* a status on DLCI 0; data, or the answer to an AT command, elsewhere
    /\ Fault
    /\ modem.mode = "mux"
    /\ \E d \in modem.open : \E k \in {"UIH", "UIH_OK", "UIH_ERROR"} :
          /\ d = 0 => k = "UIH"
          /\ rx' = Answer(rx, k, d)
          /\ rx' # rx
          /\ hist' = [hist EXCEPT !.text = @ \union ({k} \ {"UIH"})]
    /\ UNCHANGED <<setup, host, tx, modem, sessions>>

Restart ==
    /\ Fault
    /\ modem' = [mode |-> "at", baud |-> Entry, open |-> {}]
    /\ tx' = <<>>
    /\ hist' = [hist EXCEPT !.cut = TRUE]
    /\ UNCHANGED <<setup, host, rx, sessions>>

Kill ==     \* the process ends without close()
    /\ Fault
    /\ host.pc # "off"
    /\ host' = Fresh
    /\ rx' = <<>>
    /\ hist' = [hist EXCEPT !.report = "killed"]
    /\ UNCHANGED <<setup, tx, modem, sessions>>

-----------------------------------------------------------------------------
InitStep == Warmup \/ RetryBare \/ Response \/ Establish
CloseStep == Close \/ Disc \/ ProbeAgain \/ ProbeAnswered \/ ProbeFailed \/ ClosePort
HostStep == InitStep \/ CloseStep \/ Read \/ LinkDown \/ Reinit
Environment == Lose \/ Talk \/ Restart \/ Kill

Next == Start \/ Quit \/ HostStep \/ ModemStep \/ Environment

Spec == Init /\ [][Next]_vars

(* The host's threads run and its waits end; the modem works off what it   *)
(* gets; the keepalive thread sees a silent link. Nobody has to start or   *)
(* quit, and nothing has to go wrong.                                      *)
Fairness ==
    /\ WF_vars((InitStep \/ CloseStep \/ Reinit) /\ NoFault)
    /\ WF_vars(Read)
    /\ WF_vars(LinkDown /\ NoFault)
    /\ WF_vars(ModemStep)

FairSpec == Spec /\ Fairness

-----------------------------------------------------------------------------
(* Properties *)

(* Types: queues of known commands and answers, speeds among the two.      *)
TypeOK ==
    /\ setup \in Setups
    /\ host \in [pc : HostPc, baud : {Entry, setup.speed}, established : BOOLEAN,
                 dlc : [Dlci -> BOOLEAN], frames : Seq([k : FrameKind, d : Dlci]),
                 cmd : Form \union {"SABM"}, pending : BOOLEAN, recovering : BOOLEAN,
                 ch : Dlci, n : 0..Rounds, stage : 1..3]
    /\ rx \in Seq([k : TextKind \union FrameKind, d : Dlci])
    /\ tx \in Seq([k : Command, d : Dlci, baud : {Entry, setup.speed}])
    /\ modem \in [mode : {"at", "mux"}, baud : {Entry, setup.speed}, open : SUBSET Dlci]
    /\ sessions \in 0..MaxSessions /\ faults \in 0..MaxFaults
    /\ hist \in [report : {"none", "at", "stuck", "killed"}, mark : 0..MaxFaults,
                 wasUp : BOOLEAN, cut : BOOLEAN, text : SUBSET {"UIH_OK", "UIH_ERROR"}]

(* A channel establish_dlc() has marked available is one the modem has     *)
(* open in a multiplexer at the host's speed, until the modem restarts:    *)
(* no UA of an earlier SABM, of a DISC or of the multiplexer that a        *)
(* recovery has closed is taken for the answer to this one. Three faults   *)
(* break this: a wait ends too soon, the process is killed while it        *)
(* closes, and the next session's handshake ends before the modem has got  *)
(* to the SABM and the CLD still in flight; MaxFaults is below that.       *)
UsableGranted ==
    host.pc \in {"dlc", "up"} /\ ~hist.cut =>
        \A d \in Dlci : host.dlc[d] =>
            modem.mode = "mux" /\ d \in modem.open /\ modem.baud = host.baud

(* close() says "returned to AT command mode" only of a modem that has     *)
(* left the multiplexer and is at the port's speed. The exceptions: an     *)
(* "OK" inside a frame of a channel, a modem that restarts meanwhile. Four *)
(* late answers break it: the "OK" of an AT+CMUX that was given up is then *)
(* taken for that of the probe.                                            *)
ReportTrue ==
    [][hist'.report = "at" /\ hist.report # "at" /\ "UIH_OK" \notin hist.text =>
            modem.mode = "at" /\ (modem.baud = host.baud \/ hist.cut)]_vars

Closing == \E i \in DOMAIN tx : tx[i].k = "CLD" /\ tx[i].baud = modem.baud

(* The retries of close() make up for any one fault: when the link was up  *)
(* and at most one thing went wrong since, the modem leaves the            *)
(* multiplexer, and close() finds it, at whichever speed.                  *)
CloseTolerates ==
    host.pc = "port" /\ hist.wasUp /\ faults - hist.mark <= 1 =>
        hist.report = "at" /\ (modem.mode = "at" \/ Closing)

Attaching(k) ==
    /\ host.pc = "warmup" /\ ~host.recovering /\ faults = k
    /\ modem.mode = "mux" /\ modem.baud = Entry
    /\ Len(tx) = 1 /\ hist.text = {}

(* "re-run this tool to recover (it re-attaches to a running mux)": a run  *)
(* that finds the modem in a multiplexer at its entry speed brings the     *)
(* control channel up, whatever one fault happens on the way, a restart of *)
(* the modem, the end of the process and an "ERROR" on a channel excepted. *)
Reattach ==
    \A k \in 0..MaxFaults :
        Attaching(k) ~> \/ host.dlc[0] \/ faults > k + 1
                        \/ hist.cut \/ "UIH_ERROR" \in hist.text
                        \/ hist.report = "killed"

(* Where no speed is switched, a recovery that has begun is repeated until *)
(* the control channel is up again or the session ends, whatever the modem *)
(* has gone through.                                                       *)
RecoveryHeals ==
    setup.speed = Entry /\ host.recovering ~> host.dlc[0] \/ host.pc = "off"

Phase ==
    CASE host.pc = "off" -> "off"
      [] host.pc \in {"warmup", "resp", "dlc", "cld"} -> "opening"
      [] host.pc = "up" -> IF host.dlc[0] THEN "up" ELSE "lost"
      [] OTHER -> "closing"

Session == INSTANCE MuxSession
    WITH phase <- Phase, usable <- {d \in Dlci : host.dlc[d]}

(* Refinement: whatever the modem and the line do, the host's view of its  *)
(* channels goes through the steps of MuxSession and no others.            *)
SessionKept == Session!Spec
=============================================================================
