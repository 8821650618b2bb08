------------------------------ MODULE CmuxLink ------------------------------
(***************************************************************************)
(* The threads that share one CMUX link: the console thread (dial, stop,   *)
(* quit), the Windows console handler (shutdown), the PPP thread, the      *)
(* transport reader and the keepalive thread with its link recovery.       *)
(* The flags by which they hand the receive side of the serial port to     *)
(* each other are plain attributes; each test and each assignment of one   *)
(* is a step of its own wherever another thread can run in between.        *)
(* The modem and the serial line are external.                             *)
(***************************************************************************)
EXTENDS Integers, FiniteSets

CONSTANTS
    Threshold,      \* keepalive_threshold
    Handler,        \* whether the console close handler may run
    MaxDials,       \* bound: ppp commands that dial
    MaxStops,       \* bound: ppp stop commands
    MaxFlips,       \* bound: how often the modem dies or comes back
    MaxTalk         \* bound: frames from the modem left unread

ASSUME LinkAssumption ==
    /\ Threshold \in Nat \ {0}
    /\ Handler \in BOOLEAN
    /\ {MaxDials, MaxStops, MaxFlips, MaxTalk} \subseteq Nat

VARIABLES
    pc,             \* where each thread is
    after,          \* where a thread goes once PppService.stop() has returned
    tr,             \* CmuxTransport: the flags and the probe counter
    ppp,            \* running: PppService._running; routed: state.ppp_running
    loaded,         \* the value `_unanswered += 1' has read
    port,           \* the serial port is open
    rx,             \* frames in the serial receive buffer
    modem,          \* external: alive, and in multiplexer mode
    count,          \* how often each bounded thing has happened
    hist            \* history variables of the properties

vars == <<pc, after, tr, ppp, loaded, port, rx, modem, count, hist>>

Thread == {"main", "handler", "keepalive", "reader", "ppp"}

\* PppService.stop(), run by whichever thread calls it
StopPc == {"stop_own", "stop_disconnect", "stop_flag", "stop_join", "stop_release"}
\* CmuxHarness.shutdown()
ShutdownPc == {"sd_keepalive", "sd_join_keepalive", "sd_reader", "sd_join_reader",
               "sd_services", "sd_cld", "sd_port"}
RecoveryPc == {"rec_reset", "rec_cld", "rec_check", "rec_at", "rec_dlc", "rec_fin"}
DialPc == {"dial_own", "dial_wait", "dial_release"}

PcOf ==     \* the labels of each thread
    [main      |-> {"idle", "stopped", "done"} \union DialPc \union StopPc \union ShutdownPc,
     handler   |-> {"none", "idle", "done"} \union StopPc \union ShutdownPc,
     keepalive |-> {"sleep", "check", "probe", "load", "store", "judge", "down", "done"}
                   \union StopPc \union RecoveryPc,
     reader    |-> {"top", "read", "dispatch", "done"},
     ppp       |-> {"none", "boot", "nego", "up", "auth_own", "auth_disconnect",
                    "auth_release", "done"}]

\* where the callers of stop() go on
Return == {"idle", "up", "stopped", "sd_cld", "rec_reset"}

(* Past the threshold the unanswered counter is only compared with it.      *)
Counter == 0..Threshold
Sat(n) == IF n > Threshold THEN Threshold ELSE n

Goto(t, l) == pc' = [pc EXCEPT ![t] = l]
Tick(c) == count' = [count EXCEPT ![c] = @ + 1]

(* The reader is to leave the port to a thread that reads it itself.       *)
Owned == tr.dialing \/ tr.recovering

Init ==
    /\ pc = [main |-> "idle", handler |-> IF Handler THEN "idle" ELSE "none",
             keepalive |-> "sleep", reader |-> "top", ppp |-> "none"]
    /\ after = [t \in Thread |-> "idle"]
    /\ tr = [dialing |-> FALSE, recovering |-> FALSE, running |-> TRUE,
             kaRunning |-> TRUE, unanswered |-> 0, reported |-> FALSE]
    /\ ppp = [running |-> FALSE, routed |-> FALSE]
    /\ loaded = 0 /\ port = TRUE /\ rx = 0
    /\ modem = [alive |-> TRUE, mux |-> TRUE]
    /\ count = [dial |-> 0, stop |-> 0, flip |-> 0]
    /\ hist = [silent |-> 0, raced |-> FALSE, stolen |-> 0,
               fired |-> 0, raised |-> FALSE]

-----------------------------------------------------------------------------
(* External: the modem.                                                    *)

ModemFlip ==        \* it dies, or comes back in whatever mode it was
    /\ count.flip < MaxFlips
    /\ modem' = [modem EXCEPT !.alive = ~@]
    /\ Tick("flip")
    /\ UNCHANGED <<pc, after, tr, ppp, loaded, port, rx, hist>>

ModemTalk ==        \* a TEST response, an MSC, AT or PPP data
    /\ modem.alive /\ modem.mux /\ port /\ rx < MaxTalk
    /\ rx' = rx + 1
    /\ UNCHANGED <<pc, after, tr, ppp, loaded, port, modem, count, hist>>

-----------------------------------------------------------------------------
(* The reader thread: _reader_loop(), _dispatch_frame().                    *)

(* Mutants: the reader does not look at the flags; it does not look at      *)
(* _running; only control frames count as proof of life.                   *)
ReaderCheckAlways ==
    /\ pc["reader"] = "top"
    /\ IF tr.running THEN port /\ rx > 0 /\ Goto("reader", "read")
                     ELSE Goto("reader", "done")
    /\ UNCHANGED <<after, tr, ppp, loaded, port, rx, modem, count, hist>>

ReaderNeverEnds ==
    /\ pc["reader"] = "top" /\ ~Owned /\ port /\ rx > 0
    /\ Goto("reader", "read")
    /\ UNCHANGED <<after, tr, ppp, loaded, port, rx, modem, count, hist>>

(* The flags, then in_waiting; the read itself is a later step.             *)
ReaderCheck ==
    /\ pc["reader"] = "top"
    /\ IF tr.running THEN ~Owned /\ port /\ rx > 0 /\ Goto("reader", "read")
                     ELSE Goto("reader", "done")
    /\ UNCHANGED <<after, tr, ppp, loaded, port, rx, modem, count, hist>>

ReaderRead ==
    /\ pc["reader"] = "read"
    /\ Goto("reader", IF port /\ rx > 0 THEN "dispatch" ELSE "top")
    /\ rx' = 0
    /\ hist' = IF port /\ rx > 0 /\ Owned
               THEN [hist EXCEPT !.stolen = IF @ < 2 THEN @ + 1 ELSE @] ELSE hist
    /\ UNCHANGED <<after, tr, ppp, loaded, port, modem, count>>

ReaderDispatchData ==
    /\ pc["reader"] = "dispatch"
    /\ tr' = IF ppp.routed THEN tr ELSE [tr EXCEPT !.unanswered = 0]
    /\ hist' = [hist EXCEPT !.silent = 0, !.raced = pc["keepalive"] = "store"]
    /\ Goto("reader", "top")
    /\ UNCHANGED <<after, ppp, loaded, port, rx, modem, count>>

(* Every frame is proof of life.  A reset that falls between the load and   *)
(* the store of `_unanswered += 1' is overwritten: `raced' notes it.  An    *)
(* exception of the frame's handler ends the loop.                         *)
ReaderDispatch ==
    /\ pc["reader"] = "dispatch"
    /\ tr' = [tr EXCEPT !.unanswered = 0]
    /\ hist' = [hist EXCEPT !.silent = 0, !.raced = pc["keepalive"] = "store"]
    /\ \E next \in {"top", "done"} : Goto("reader", next)
    /\ UNCHANGED <<after, ppp, loaded, port, rx, modem, count>>

ReaderRaises ==     \* an exception of the read ends it, too
    /\ pc["reader"] = "read"
    /\ Goto("reader", "done")
    /\ UNCHANGED <<after, tr, ppp, loaded, port, rx, modem, count, hist>>

-----------------------------------------------------------------------------
(* PppService.start(), run by the console thread.                          *)

(* Refused while PPP runs, and once a shutdown has cleared the AT channels. *)
(* Bound: no dial while a PPP thread left behind by stop() is still in its  *)
(* own disconnect sequence.                                                *)
DialBegin ==
    /\ pc["main"] = "idle" /\ ~ppp.running /\ pc["ppp"] = "none"
    /\ pc["handler"] \notin {"sd_cld", "sd_port"}
    /\ count.dial < MaxDials
    /\ ppp' = [running |-> TRUE, routed |-> TRUE]
    /\ Tick("dial")
    /\ Goto("main", "dial_own")
    /\ UNCHANGED <<after, tr, loaded, port, rx, modem, hist>>

DialOwn ==
    /\ pc["main"] = "dial_own"
    /\ tr' = [tr EXCEPT !.dialing = TRUE]
    /\ hist' = [hist EXCEPT !.stolen = 0]
    /\ Goto("main", "dial_wait")
    /\ UNCHANGED <<after, ppp, loaded, port, rx, modem, count>>

(* ATD and the wait for CONNECT, which the modem sends only from its mux    *)
(* and which a call of stop() cuts short.                                  *)
DialWait(connected) ==
    /\ pc["main"] = "dial_wait"
    /\ connected => ppp.running /\ modem.alive /\ modem.mux
    /\ rx' = 0
    /\ after' = [after EXCEPT !["main"] = IF connected THEN "up" ELSE "idle"]
    /\ Goto("main", "dial_release")
    /\ UNCHANGED <<tr, ppp, loaded, port, modem, count, hist>>

(* Mutant: `dialing' is left set after a dial that failed. *)
DialReleaseNever ==
    /\ pc["main"] = "dial_release"
    /\ after' = [after EXCEPT !["main"] = "idle"]
    /\ IF after["main"] = "up"
       THEN /\ pc' = [pc EXCEPT !["main"] = "idle", !["ppp"] = "boot"]
            /\ tr' = [tr EXCEPT !.dialing = FALSE]
            /\ UNCHANGED ppp
       ELSE /\ ppp' = [running |-> FALSE, routed |-> FALSE]
            /\ UNCHANGED tr
            /\ Goto("main", "idle")
    /\ UNCHANGED <<loaded, port, rx, modem, count, hist>>

DialRelease ==
    /\ pc["main"] = "dial_release"
    /\ tr' = [tr EXCEPT !.dialing = FALSE]
    /\ after' = [after EXCEPT !["main"] = "idle"]
    /\ IF after["main"] = "up"
       THEN /\ pc' = [pc EXCEPT !["main"] = "idle", !["ppp"] = "boot"]
            /\ UNCHANGED ppp
       ELSE /\ ppp' = [running |-> FALSE, routed |-> FALSE]
            /\ Goto("main", "idle")
    /\ UNCHANGED <<loaded, port, rx, modem, count, hist>>

-----------------------------------------------------------------------------
(* The PPP thread: _run().                                                 *)

PppBoot ==          \* the first thing _run() does is to set both flags
    /\ pc["ppp"] = "boot"
    /\ ppp' = [running |-> TRUE, routed |-> TRUE]
    /\ Goto("ppp", "nego")
    /\ UNCHANGED <<after, tr, loaded, port, rx, modem, count, hist>>

PppUp ==            \* LCP, authentication and IPCP succeed, stop() or not
    /\ pc["ppp"] = "nego"
    /\ Goto("ppp", "up")
    /\ UNCHANGED <<after, tr, ppp, loaded, port, rx, modem, count, hist>>

PppTimeout ==       \* LCP or IPCP times out, or stop() interrupts the wait
    /\ pc["ppp"] = "nego"
    /\ ppp' = [running |-> FALSE, routed |-> FALSE]
    /\ Goto("ppp", "none")
    /\ UNCHANGED <<after, tr, loaded, port, rx, modem, count, hist>>

PppAuthFailed ==    \* the thread takes the port and disconnects by itself
    /\ pc["ppp"] = "nego"
    /\ Goto("ppp", "auth_own")
    /\ UNCHANGED <<after, tr, ppp, loaded, port, rx, modem, count, hist>>

PppAuthOwn ==
    /\ pc["ppp"] = "auth_own"
    /\ tr' = [tr EXCEPT !.dialing = TRUE]
    /\ hist' = [hist EXCEPT !.stolen = 0]
    /\ Goto("ppp", "auth_disconnect")
    /\ UNCHANGED <<after, ppp, loaded, port, rx, modem, count>>

PppAuthDisconnect ==
    /\ pc["ppp"] = "auth_disconnect"
    /\ rx' = 0
    /\ tr' = [tr EXCEPT !.dialing = FALSE]
    /\ Goto("ppp", "auth_release")
    /\ UNCHANGED <<after, ppp, loaded, port, modem, count, hist>>

PppAuthRelease ==
    /\ pc["ppp"] = "auth_release"
    /\ ppp' = [running |-> FALSE, routed |-> FALSE]
    /\ Goto("ppp", "none")
    /\ UNCHANGED <<after, tr, loaded, port, rx, modem, count, hist>>

PppEnd ==           \* the idle loop sees _running cleared; state is not touched
    /\ pc["ppp"] = "up" /\ ~ppp.running
    /\ Goto("ppp", "none")
    /\ UNCHANGED <<after, tr, ppp, loaded, port, rx, modem, count, hist>>

-----------------------------------------------------------------------------
(* PppService.stop(), run by thread t, which goes on to after[t].           *)

CallStop(t, next) ==
    /\ after' = [after EXCEPT ![t] = IF ppp.running THEN next ELSE "idle"]
    /\ Goto(t, IF ppp.running THEN "stop_own" ELSE next)

StopCommand ==      \* `ppp stop'; on_command() then clears the state
    /\ pc["main"] = "idle" /\ count.stop < MaxStops
    /\ Tick("stop")
    /\ CallStop("main", "stopped")
    /\ UNCHANGED <<tr, ppp, loaded, port, rx, modem, hist>>

StopCommandEnd ==
    /\ pc["main"] = "stopped"
    /\ ppp' = [ppp EXCEPT !.routed = FALSE]
    /\ Goto("main", "idle")
    /\ UNCHANGED <<after, tr, loaded, port, rx, modem, count, hist>>

StopOwn(t) ==
    /\ pc[t] = "stop_own"
    /\ tr' = [tr EXCEPT !.dialing = TRUE]
    /\ hist' = [hist EXCEPT !.stolen = 0]
    /\ Goto(t, "stop_disconnect")
    /\ UNCHANGED <<after, ppp, loaded, port, rx, modem, count>>

(* _disconnect(): reads the port until the modem has answered or timeouts   *)
(* have passed.  The link-down variant (keepalive) does not read.          *)
StopDisconnect(t) ==
    /\ pc[t] = "stop_disconnect"
    /\ rx' = IF t = "keepalive" THEN rx ELSE 0
    /\ Goto(t, "stop_flag")
    /\ UNCHANGED <<after, tr, ppp, loaded, port, modem, count, hist>>

(* A write raises, and what stop() or start() had left to do is not done:   *)
(* the link-down hook and shutdown() report the exception and go on; on the *)
(* console thread it ends the session.                                     *)
StopRaises(t) ==
    /\ pc[t] = "stop_disconnect"
    /\ hist' = [hist EXCEPT !.raised = TRUE]
    /\ Goto(t, IF t = "keepalive" THEN "rec_reset"
               ELSE IF after[t] = "sd_cld" THEN "sd_cld" ELSE "sd_keepalive")
    /\ UNCHANGED <<after, tr, ppp, loaded, port, rx, modem, count>>

DialRaises ==
    /\ pc["main"] = "dial_wait"
    /\ hist' = [hist EXCEPT !.raised = TRUE]
    /\ Goto("main", "sd_keepalive")
    /\ UNCHANGED <<after, tr, ppp, loaded, port, rx, modem, count>>

PppAuthRaises ==
    /\ pc["ppp"] = "auth_disconnect"
    /\ hist' = [hist EXCEPT !.raised = TRUE]
    /\ Goto("ppp", "none")
    /\ UNCHANGED <<after, tr, ppp, loaded, port, rx, modem, count>>

StopFlag(t) ==
    /\ pc[t] = "stop_flag"
    /\ ppp' = [ppp EXCEPT !.running = FALSE]
    /\ Goto(t, "stop_join")
    /\ UNCHANGED <<after, tr, loaded, port, rx, modem, count, hist>>

(* join(timeout=5): a PPP thread that is waiting notices the flag in time;  *)
(* one in its own disconnect sequence, or one that set the flag again when  *)
(* it started, does not.                                                   *)
StopJoin(t) ==
    /\ pc[t] = "stop_join"
    /\ \/ pc["ppp"] \in {"none", "auth_disconnect"}
       \/ pc["ppp"] = "up" /\ ppp.running
    /\ Goto(t, "stop_release")
    /\ UNCHANGED <<after, tr, ppp, loaded, port, rx, modem, count, hist>>

(* Mutant: stop() always goes on to the end of shutdown(). *)
StopReleaseToClose(t) ==
    /\ pc[t] = "stop_release"
    /\ tr' = [tr EXCEPT !.dialing = FALSE]
    /\ Goto(t, "sd_cld")
    /\ after' = [after EXCEPT ![t] = "idle"]
    /\ UNCHANGED <<ppp, loaded, port, rx, modem, count, hist>>

StopRelease(t) ==
    /\ pc[t] = "stop_release"
    /\ tr' = [tr EXCEPT !.dialing = FALSE]
    /\ Goto(t, after[t])
    /\ after' = [after EXCEPT ![t] = "idle"]
    /\ UNCHANGED <<ppp, loaded, port, rx, modem, count, hist>>

-----------------------------------------------------------------------------
(* CmuxHarness.shutdown() with CmuxTransport.stop_reader() and              *)
(* CmuxTE.close(), run by the console thread and by the console handler.    *)

Quit(t) ==          \* quit, or the window is closed
    /\ t \in {"main", "handler"} /\ pc[t] = "idle"
    /\ Goto(t, "sd_keepalive")
    /\ UNCHANGED <<after, tr, ppp, loaded, port, rx, modem, count, hist>>

SdKeepalive(t) ==
    /\ pc[t] = "sd_keepalive"
    /\ tr' = [tr EXCEPT !.kaRunning = FALSE]
    /\ Goto(t, "sd_join_keepalive")
    /\ UNCHANGED <<after, ppp, loaded, port, rx, modem, count, hist>>

(* join(timeout=3): a sleeping keepalive thread ends in time; one that is   *)
(* in the link-down hook or in a recovery outlasts the timeout.            *)
KeepaliveBusy == pc["keepalive"] \in StopPc \union RecoveryPc

SdJoinKeepalive(t) ==
    /\ pc[t] = "sd_join_keepalive"
    /\ pc["keepalive"] = "done" \/ KeepaliveBusy
    /\ Goto(t, "sd_reader")
    /\ UNCHANGED <<after, tr, ppp, loaded, port, rx, modem, count, hist>>

SdReader(t) ==
    /\ pc[t] = "sd_reader"
    /\ tr' = [tr EXCEPT !.running = FALSE]
    /\ Goto(t, "sd_join_reader")
    /\ UNCHANGED <<after, ppp, loaded, port, rx, modem, count, hist>>

(* join(timeout=2): no step of the reader takes longer.                     *)
SdJoinReader(t) ==
    /\ pc[t] = "sd_join_reader"
    /\ pc["reader"] = "done"
    /\ Goto(t, "sd_services")
    /\ UNCHANGED <<after, tr, ppp, loaded, port, rx, modem, count, hist>>

SdServices(t) ==    \* PppService.on_shutdown() -> stop(fast=True)
    /\ pc[t] = "sd_services"
    /\ CallStop(t, "sd_cld")
    /\ UNCHANGED <<tr, ppp, loaded, port, rx, modem, count, hist>>

SdCld(t) ==         \* DISC, CLD and the wait for AT mode
    /\ pc[t] = "sd_cld"
    /\ modem' = [modem EXCEPT !.mux = @ /\ ~(modem.alive /\ port)]
    /\ Goto(t, "sd_port")
    /\ UNCHANGED <<after, tr, ppp, loaded, port, rx, count, hist>>

SdPort(t) ==        \* the handler ends the process, os._exit(0)
    /\ pc[t] = "sd_port"
    /\ port' = FALSE
    /\ pc' = IF t = "handler" THEN [x \in Thread |-> "done"] ELSE [pc EXCEPT ![t] = "done"]
    /\ UNCHANGED <<after, tr, ppp, loaded, rx, modem, count, hist>>

-----------------------------------------------------------------------------
(* The keepalive thread: _keepalive_loop().                                *)

(* Mutant: one failed recovery, and the thread ends. *)
KaWakeGivesUp ==
    /\ pc["keepalive"] = "sleep"
    /\ Goto("keepalive", IF ~tr.kaRunning \/ tr.reported THEN "done"
                         ELSE IF port THEN "check" ELSE "sleep")
    /\ UNCHANGED <<after, tr, ppp, loaded, port, rx, modem, count, hist>>

KaWake ==           \* the interval is over, or stop_reader() was called
    /\ pc["keepalive"] = "sleep"
    /\ Goto("keepalive", IF ~tr.kaRunning THEN "done" ELSE IF port THEN "check" ELSE "sleep")
    /\ UNCHANGED <<after, tr, ppp, loaded, port, rx, modem, count, hist>>

KaCheck ==          \* no probe and a fresh counter while the reader is paused
    /\ pc["keepalive"] = "check"
    /\ IF Owned THEN /\ tr' = [tr EXCEPT !.unanswered = 0]
                     /\ Goto("keepalive", "sleep")
                ELSE /\ UNCHANGED tr
                     /\ Goto("keepalive", "probe")
    /\ UNCHANGED <<after, ppp, loaded, port, rx, modem, count, hist>>

KaProbe ==          \* send_raw(); on a closed port it raises and the thread ends
    /\ pc["keepalive"] = "probe"
    /\ Goto("keepalive", IF port THEN "load" ELSE "done")
    /\ hist' = [hist EXCEPT !.silent = Sat(@ + 1)]
    /\ UNCHANGED <<after, tr, ppp, loaded, port, rx, modem, count>>

KaLoad ==           \* `_unanswered += 1': the read ...
    /\ pc["keepalive"] = "load"
    /\ loaded' = tr.unanswered
    /\ Goto("keepalive", "store")
    /\ UNCHANGED <<after, tr, ppp, port, rx, modem, count, hist>>

KaStore ==          \* ... and the write
    /\ pc["keepalive"] = "store"
    /\ tr' = [tr EXCEPT !.unanswered = Sat(loaded + 1)]
    /\ loaded' = 0
    /\ Goto("keepalive", "judge")
    /\ UNCHANGED <<after, ppp, port, rx, modem, count, hist>>

KaJudge ==
    /\ pc["keepalive"] = "judge"
    /\ Goto("keepalive", IF tr.unanswered >= Threshold THEN "down" ELSE "sleep")
    /\ UNCHANGED <<after, tr, ppp, loaded, port, rx, modem, count, hist>>

(* Mutant: the hook is called on every attempt. *)
KaDownAgain ==
    /\ pc["keepalive"] = "down"
    /\ tr' = [tr EXCEPT !.reported = TRUE]
    /\ hist' = [hist EXCEPT !.fired = IF @ < 2 THEN @ + 1 ELSE @]
    /\ CallStop("keepalive", "rec_reset")
    /\ UNCHANGED <<ppp, loaded, port, rx, modem, count>>

(* _handle_link_down(): the hook stops PPP, once for each outage.           *)
KaDown ==
    /\ pc["keepalive"] = "down"
    /\ IF tr.reported
       THEN Goto("keepalive", "rec_reset") /\ UNCHANGED <<after, tr, hist>>
       ELSE /\ tr' = [tr EXCEPT !.reported = TRUE]
            /\ hist' = [hist EXCEPT !.fired = IF @ < 2 THEN @ + 1 ELSE @]
            /\ CallStop("keepalive", "rec_reset")
    /\ UNCHANGED <<ppp, loaded, port, rx, modem, count>>

(* _recover_link(): local state reset; CLD and input buffer reset; the      *)
(* shutdown test; init_cmux() in two parts (the AT command that starts the  *)
(* mux, the DLCIs); and what is done with its result.                      *)
RecReset ==
    /\ pc["keepalive"] = "rec_reset"
    /\ tr' = [tr EXCEPT !.recovering = TRUE]
    /\ hist' = [hist EXCEPT !.stolen = 0]
    /\ Goto("keepalive", "rec_cld")
    /\ UNCHANGED <<after, ppp, loaded, port, rx, modem, count>>

RecCld ==
    /\ pc["keepalive"] = "rec_cld"
    /\ IF port THEN /\ rx' = 0
                    /\ modem' = [modem EXCEPT !.mux = @ /\ ~modem.alive]
               ELSE UNCHANGED <<rx, modem>>
    /\ Goto("keepalive", "rec_check")
    /\ UNCHANGED <<after, tr, ppp, loaded, port, count, hist>>

RecEnd == [tr EXCEPT !.recovering = FALSE]  \* finally: _recovering = False

RecCheck ==
    /\ pc["keepalive"] = "rec_check"
    /\ IF tr.kaRunning THEN Goto("keepalive", "rec_at") /\ UNCHANGED tr
                       ELSE Goto("keepalive", "sleep") /\ tr' = RecEnd
    /\ UNCHANGED <<after, ppp, loaded, port, rx, modem, count, hist>>

(* The modem answers OK, from AT mode or to the SABM of a mux that runs; or  *)
(* it is silent, which init_cmux() does not count as a failure; or it says  *)
(* ERROR, or the port is gone and a write raises.                          *)
RecAt(ok) ==
    /\ pc["keepalive"] = "rec_at"
    /\ IF ok
       THEN /\ modem.alive /\ port
            /\ modem' = [modem EXCEPT !.mux = TRUE]
            /\ Goto("keepalive", "rec_dlc")
            /\ UNCHANGED tr
       ELSE /\ UNCHANGED modem
            /\ \/ port /\ Goto("keepalive", "rec_dlc") /\ UNCHANGED tr
               \/ (modem.alive \/ ~port) /\ Goto("keepalive", "sleep") /\ tr' = RecEnd
    /\ rx' = 0
    /\ UNCHANGED <<after, ppp, loaded, port, count, hist>>

RecDlc(ok) ==       \* DLCI 0 is answered, or not even on the second try
    /\ pc["keepalive"] = "rec_dlc"
    /\ IF ok THEN /\ modem.alive /\ modem.mux /\ port
                  /\ Goto("keepalive", "rec_fin")
                  /\ UNCHANGED tr
             ELSE /\ Goto("keepalive", "sleep")
                  /\ tr' = RecEnd
    /\ rx' = 0
    /\ UNCHANGED <<after, ppp, loaded, port, modem, count, hist>>

RecFin ==           \* success counts only while not shutting down
    /\ pc["keepalive"] = "rec_fin"
    /\ IF tr.kaRunning
       THEN /\ tr' = [RecEnd EXCEPT !.unanswered = 0, !.reported = FALSE]
            /\ hist' = [hist EXCEPT !.fired = 0, !.raced = FALSE]
       ELSE tr' = RecEnd /\ UNCHANGED hist
    /\ Goto("keepalive", "sleep")
    /\ UNCHANGED <<after, ppp, loaded, port, rx, modem, count>>

-----------------------------------------------------------------------------
ReaderStep == ReaderCheck \/ ReaderRead \/ ReaderRaises \/ ReaderDispatch
DialStep == DialOwn \/ DialWait(TRUE) \/ DialWait(FALSE) \/ DialRaises \/ DialRelease
PppStep == \/ PppBoot \/ PppUp \/ PppTimeout \/ PppAuthFailed \/ PppAuthOwn
           \/ PppAuthDisconnect \/ PppAuthRaises \/ PppAuthRelease \/ PppEnd
StopStep(t) == StopOwn(t) \/ StopDisconnect(t) \/ StopRaises(t) \/ StopFlag(t)
               \/ StopJoin(t) \/ StopRelease(t)
ShutdownStep(t) == SdKeepalive(t) \/ SdJoinKeepalive(t) \/ SdReader(t) \/ SdJoinReader(t)
                   \/ SdServices(t) \/ SdCld(t) \/ SdPort(t)
KeepaliveStep == \/ KaWake \/ KaCheck \/ KaProbe \/ KaLoad \/ KaStore \/ KaJudge \/ KaDown
                 \/ RecReset \/ RecCld \/ RecCheck \/ RecFin
                 \/ \E ok \in BOOLEAN : RecAt(ok) \/ RecDlc(ok)

Caller == {"main", "handler", "keepalive"}      \* the threads that call stop()
Closer == {"main", "handler"}                   \* the threads that shut down

Next ==
    \/ ReaderStep \/ PppStep \/ KeepaliveStep
    \/ DialBegin \/ DialStep \/ StopCommand \/ StopCommandEnd
    \/ \E t \in Caller : StopStep(t)
    \/ \E t \in Closer : Quit(t) \/ ShutdownStep(t)
    \/ ModemFlip \/ ModemTalk

(* Threads that can run do, and what they wait for ends by a timeout; the   *)
(* user, the modem and the start of a shutdown are free.                   *)
Fairness ==
    /\ WF_vars(ReaderStep) /\ WF_vars(PppStep) /\ WF_vars(KeepaliveStep)
    /\ WF_vars(DialStep \/ StopCommandEnd)
    /\ \A t \in Caller : WF_vars(StopStep(t))
    /\ \A t \in Closer : WF_vars(ShutdownStep(t))

Spec == Init /\ [][Next]_vars
FairSpec == Spec /\ Fairness

-----------------------------------------------------------------------------
(* Every variable has its type, each thread is at a label of its own, and a *)
(* thread inside stop() has a place of its own to return to.               *)
TypeOK ==
    /\ DOMAIN pc = Thread /\ \A t \in Thread : pc[t] \in PcOf[t]
    /\ after \in [Thread -> Return]
    /\ \A t \in Thread : pc[t] \in StopPc => after[t] \in PcOf[t] \ {"idle"}
    /\ tr \in [dialing : BOOLEAN, recovering : BOOLEAN, running : BOOLEAN,
               kaRunning : BOOLEAN, unanswered : Counter, reported : BOOLEAN]
    /\ ppp \in [running : BOOLEAN, routed : BOOLEAN]
    /\ loaded \in Counter /\ port \in BOOLEAN /\ rx \in Nat
    /\ modem \in [alive : BOOLEAN, mux : BOOLEAN]
    /\ count \in [dial : Nat, stop : Nat, flip : Nat]
    /\ hist \in [silent : Counter, raced : BOOLEAN, stolen : 0..2,
                 fired : 0..2, raised : BOOLEAN]

(* The reader yields the port: once a thread has set `dialing' or           *)
(* `recovering', and while one of them stays set, the reader takes bytes    *)
(* from the port at most once, by the read it had already decided on.      *)
ReaderYields == hist.stolen <= 1

(* A link is declared dead only after a silence.  The answer to a probe may *)
(* be dispatched between the probe and the increment, so that Threshold - 1 *)
(* unanswered probes are enough; and unless a reset was overwritten between *)
(* the load and the store of the increment there are that many.             *)
DeadMeansSilent ==
    [][pc["keepalive"] = "judge" /\ pc'["keepalive"] = "down"
        => hist.raced \/ hist.silent + 1 >= Threshold]_vars

(* "the callback fires once per outage, not once per retry cycle": once it  *)
(* fired, it does not fire again before a recovery has succeeded.           *)
HookOncePerOutage == hist.fired <= 1

(* A link that stays dead while nobody dials or shuts down is given to      *)
(* recovery again and again ("retried every cycle until it succeeds").      *)
DeadLinkRetried ==
    <>[](~modem.alive /\ tr.kaRunning /\ ~tr.dialing) => []<>tr.recovering

(* Whoever paused the reader by `dialing' lets it go on, unless an          *)
(* exception cut that thread's sequence short or the process has ended.     *)
DialingReleased ==
    tr.dialing ~> ~tr.dialing \/ hist.raised \/ pc["handler"] = "done"

(* Shutdown ends, in whatever state it finds the other threads.             *)
ShutdownCompletes ==
    \A t \in Closer : pc[t] = "sd_keepalive" ~> pc[t] = "done"

(* "Stop keepalive first so no probe/recovery runs while we shut down"      *)
(* (stop_reader()): while services shut down and the mux is closed, the     *)
(* keepalive thread is not setting it up again.                            *)
NoRecoveryInShutdown ==
    (\E t \in Closer : pc[t] \in {"sd_services", "sd_cld"})
        => pc["keepalive"] \notin {"rec_at", "rec_dlc"}

(* "link recovered - AT channels usable again" (_on_link_recovered()): with *)
(* no PPP session and no dial in progress, no channel is routed to PPP when *)
(* this is announced.                                                      *)
AtUsableAfterRecovery ==
    [][tr.reported /\ ~tr'.reported
        => (pc["main"] = "idle" /\ pc["ppp"] = "none" => ~ppp.routed)]_vars

(* "PPP cannot survive a mux reset, so it is torn down" (_on_link_down()):  *)
(* no PPP session is up when the control channel is established again.     *)
NoPppAcrossReset ==
    [][pc["keepalive"] = "rec_dlc" /\ pc'["keepalive"] = "rec_fin" => ~ppp.running]_vars
=============================================================================
