--------------------------- MODULE CmuxLinkProofs ---------------------------
(***************************************************************************)
(* Theorems about the threads of a CMUX link, for every keepalive          *)
(* threshold and every bound on dials, stops, modem failures and traffic.  *)
(***************************************************************************)
EXTENDS CmuxLink, TLAPS

-----------------------------------------------------------------------------
(* Types                                                                    *)

PcOK ==
    /\ DOMAIN pc = Thread /\ \A t \in Thread : pc[t] \in PcOf[t]
    /\ after \in [Thread -> Return]
    /\ \A t \in Thread : pc[t] \in StopPc => after[t] \in PcOf[t] \ {"idle"}

TrType ==
    [dialing : BOOLEAN, recovering : BOOLEAN, running : BOOLEAN,
     kaRunning : BOOLEAN, unanswered : Counter, reported : BOOLEAN]

HistType == [silent : Counter, raced : BOOLEAN, stolen : 0..2, fired : 0..2, raised : BOOLEAN]

DataOK ==
    /\ tr \in TrType
    /\ ppp \in [running : BOOLEAN, routed : BOOLEAN]
    /\ loaded \in Counter /\ port \in BOOLEAN /\ rx \in Nat
    /\ modem \in [alive : BOOLEAN, mux : BOOLEAN]
    /\ count \in [dial : Nat, stop : Nat, flip : Nat]
    /\ hist \in HistType

LEMMA TypeParts == TypeOK <=> PcOK /\ DataOK
BY DEF TypeOK, PcOK, DataOK, TrType, HistType

LEMMA Labels ==
    /\ PcOf["main"] = {"idle", "stopped", "done"} \union DialPc \union StopPc \union ShutdownPc
    /\ PcOf["handler"] = {"none", "idle", "done"} \union StopPc \union ShutdownPc
    /\ PcOf["keepalive"] = {"sleep", "check", "probe", "load", "store", "judge", "down", "done"}
                           \union StopPc \union RecoveryPc
    /\ PcOf["reader"] = {"top", "read", "dispatch", "done"}
    /\ PcOf["ppp"] = {"none", "boot", "nego", "up", "auth_own", "auth_disconnect",
                      "auth_release", "done"}
BY DEF PcOf

LEMMA CounterFacts ==
    /\ 0 \in Counter /\ Counter \subseteq Nat
    /\ \A n \in Counter : Sat(n + 1) \in Counter
BY LinkAssumption DEF Counter, Sat

(* A thread goes to a label of its own and does not enter stop().           *)
LEMMA Moves ==
    ASSUME PcOK, NEW t \in Thread, NEW l, l \in PcOf[t],
           l \in StopPc => pc[t] \in StopPc, Goto(t, l), UNCHANGED after
    PROVE  PcOK'
BY DEF PcOK, Goto

(* A thread calls stop(), with a label of its own to return to.             *)
LEMMA Calls ==
    ASSUME PcOK, NEW t \in Caller, NEW next, next \in PcOf[t], next \in Return,
           next # "idle", CallStop(t, next)
    PROVE  PcOK'
<1>1. t \in Thread /\ "stop_own" \in PcOf[t] /\ "idle" \in Return /\ next \notin StopPc
  BY Labels DEF Caller, Thread, StopPc, Return
<1>2. CASE ppp.running
  BY <1>1, <1>2 DEF CallStop, Goto, PcOK
<1>3. CASE ~ppp.running
  BY <1>1, <1>3 DEF CallStop, Goto, PcOK
<1> QED
  BY <1>2, <1>3

(* Where each step takes its thread is a label of that thread.              *)
LEMMA PcNext == TypeOK /\ [Next]_vars => PcOK'
<1> SUFFICES ASSUME TypeOK, [Next]_vars PROVE PcOK'
  OBVIOUS
<1>0. PcOK
  BY TypeParts
<1> DEFINE Enters(t, l) == t \in Thread /\ l \in PcOf[t] /\ (l \in StopPc => pc[t] \in StopPc)
<1>1. ASSUME NEW t, NEW l, Enters(t, l), Goto(t, l), UNCHANGED after
      PROVE  PcOK'
  BY <1>0, <1>1, Moves
<1>2. CASE ReaderStep
  <2>1. /\ Enters("reader", "top") /\ Enters("reader", "read")
        /\ Enters("reader", "dispatch") /\ Enters("reader", "done")
    BY Labels DEF Thread, StopPc
  <2> HIDE DEF Enters
  <2> QED
    BY <1>1, <1>2, <2>1 DEF ReaderStep, ReaderCheck, ReaderRead, ReaderRaises, ReaderDispatch
<1>3. CASE PppStep
  <2>1. /\ Enters("ppp", "none") /\ Enters("ppp", "nego") /\ Enters("ppp", "up")
        /\ Enters("ppp", "auth_own") /\ Enters("ppp", "auth_disconnect")
        /\ Enters("ppp", "auth_release")
    BY Labels DEF Thread, StopPc
  <2> HIDE DEF Enters
  <2> QED
    BY <1>1, <1>3, <2>1 DEF PppStep, PppBoot, PppUp, PppTimeout, PppAuthFailed, PppAuthOwn,
       PppAuthDisconnect, PppAuthRaises, PppAuthRelease, PppEnd
<1>4. CASE KaWake \/ KaCheck \/ KaProbe \/ KaLoad \/ KaStore \/ KaJudge
  <2>1. /\ Enters("keepalive", "sleep") /\ Enters("keepalive", "check")
        /\ Enters("keepalive", "probe") /\ Enters("keepalive", "load")
        /\ Enters("keepalive", "store") /\ Enters("keepalive", "judge")
        /\ Enters("keepalive", "down") /\ Enters("keepalive", "done")
    BY Labels DEF Thread, StopPc
  <2> HIDE DEF Enters
  <2> QED
    BY <1>1, <1>4, <2>1 DEF KaWake, KaCheck, KaProbe, KaLoad, KaStore, KaJudge
<1>5. CASE KaDown
  <2>1. Enters("keepalive", "rec_reset") /\ "rec_reset" \in Return /\ "keepalive" \in Caller
    BY Labels DEF Thread, StopPc, RecoveryPc, Return, Caller
  <2>2. CASE CallStop("keepalive", "rec_reset")
    BY <1>0, <2>1, <2>2, Calls
  <2>3. CASE Goto("keepalive", "rec_reset") /\ UNCHANGED after
    BY <1>1, <2>1, <2>3
  <2> QED
    BY <1>5, <2>2, <2>3 DEF KaDown
<1>6. CASE RecReset \/ RecCld \/ RecCheck \/ RecFin \/ \E ok \in BOOLEAN : RecAt(ok) \/ RecDlc(ok)
  <2>1. /\ Enters("keepalive", "rec_cld") /\ Enters("keepalive", "rec_check")
        /\ Enters("keepalive", "rec_at") /\ Enters("keepalive", "rec_dlc")
        /\ Enters("keepalive", "rec_fin") /\ Enters("keepalive", "sleep")
    BY Labels DEF Thread, StopPc, RecoveryPc
  <2> HIDE DEF Enters
  <2> QED
    BY <1>1, <1>6, <2>1 DEF RecReset, RecCld, RecCheck, RecFin, RecAt, RecDlc
<1>7. CASE DialBegin \/ DialOwn \/ DialRaises
  <2>1. /\ Enters("main", "dial_own") /\ Enters("main", "dial_wait")
        /\ Enters("main", "sd_keepalive")
    BY Labels DEF Thread, StopPc, DialPc, ShutdownPc
  <2> HIDE DEF Enters
  <2> QED
    BY <1>1, <1>7, <2>1 DEF DialBegin, DialOwn, DialRaises
<1>8. CASE \E ok \in BOOLEAN : DialWait(ok)
  <2>1. "dial_release" \in PcOf["main"] \ StopPc /\ {"up", "idle"} \subseteq Return
    BY Labels DEF StopPc, DialPc, Return
  <2>2. /\ pc["main"] = "dial_wait" /\ pc' = [pc EXCEPT !["main"] = "dial_release"]
        /\ \E r \in {"up", "idle"} : after' = [after EXCEPT !["main"] = r]
    BY <1>8 DEF DialWait, Goto
  <2> QED
    BY <1>0, <2>1, <2>2 DEF PcOK
<1>9. CASE DialRelease
  <2>1. /\ "idle" \in PcOf["main"] \ StopPc /\ "boot" \in PcOf["ppp"] \ StopPc
        /\ "idle" \in Return /\ {"main", "ppp"} \subseteq Thread
    BY Labels DEF StopPc, Return, Thread
  <2>2. /\ after' = [after EXCEPT !["main"] = "idle"]
        /\ \/ pc' = [pc EXCEPT !["main"] = "idle", !["ppp"] = "boot"]
           \/ pc' = [pc EXCEPT !["main"] = "idle"]
    BY <1>9 DEF DialRelease, Goto
  <2> QED
    BY <1>0, <2>1, <2>2 DEF PcOK
<1>10. CASE StopCommand
  <2>1. "stopped" \in PcOf["main"] /\ "stopped" \in Return /\ "main" \in Caller
    BY Labels DEF Return, Caller
  <2> QED
    BY <1>0, <1>10, <2>1, Calls DEF StopCommand
<1>11. CASE StopCommandEnd
  <2>1. Enters("main", "idle")
    BY Labels DEF Thread, StopPc
  <2> QED
    BY <1>1, <1>11, <2>1 DEF StopCommandEnd
<1>12. ASSUME NEW t \in Caller, StopOwn(t) \/ StopDisconnect(t) \/ StopFlag(t) \/ StopJoin(t)
       PROVE  PcOK'
  <2>1. pc[t] \in StopPc
    BY <1>12 DEF StopOwn, StopDisconnect, StopFlag, StopJoin, StopPc
  <2>2. \A l \in StopPc : Enters(t, l)
    BY <2>1, Labels DEF Caller, Thread
  <2>3. {"stop_disconnect", "stop_flag", "stop_join", "stop_release"} \subseteq StopPc
    BY DEF StopPc
  <2> HIDE DEF Enters
  <2> QED
    BY <1>1, <1>12, <2>2, <2>3 DEF StopOwn, StopDisconnect, StopFlag, StopJoin
<1>13. ASSUME NEW t \in Caller, StopRaises(t) PROVE PcOK'
  <2>1. CASE t = "keepalive"
    <3>1. Enters(t, "rec_reset")
      BY <2>1, Labels DEF Thread, StopPc, RecoveryPc
    <3> QED
      BY <1>1, <1>13, <2>1, <3>1 DEF StopRaises
  <2>2. CASE t # "keepalive"
    <3>1. Enters(t, "sd_cld") /\ Enters(t, "sd_keepalive")
      BY <2>2, Labels DEF Caller, Thread, StopPc, ShutdownPc
    <3> HIDE DEF Enters
    <3> QED
      BY <1>1, <1>13, <2>2, <3>1 DEF StopRaises
  <2> QED
    BY <2>1, <2>2
<1>14. ASSUME NEW t \in Caller, StopRelease(t) PROVE PcOK'
  <2>1. /\ t \in Thread /\ after[t] \in PcOf[t] /\ after[t] \in Return /\ "idle" \in Return
        /\ after[t] \notin StopPc
    BY <1>0, <1>14 DEF StopRelease, PcOK, Caller, Thread, Return, StopPc
  <2>2. pc' = [pc EXCEPT ![t] = after[t]] /\ after' = [after EXCEPT ![t] = "idle"]
    BY <1>14 DEF StopRelease, Goto
  <2> QED
    BY <1>0, <2>1, <2>2 DEF PcOK
<1>15. ASSUME NEW t \in Closer,
              Quit(t) \/ SdKeepalive(t) \/ SdJoinKeepalive(t) \/ SdReader(t) \/ SdJoinReader(t)
              \/ SdCld(t)
       PROVE  PcOK'
  <2>1. \A l \in ShutdownPc : Enters(t, l)
    BY Labels DEF Closer, Thread, StopPc, ShutdownPc
  <2>2. {"sd_keepalive", "sd_join_keepalive", "sd_reader", "sd_join_reader", "sd_services",
         "sd_port"} \subseteq ShutdownPc
    BY DEF ShutdownPc
  <2> HIDE DEF Enters
  <2> QED
    BY <1>1, <1>15, <2>1, <2>2
       DEF Quit, SdKeepalive, SdJoinKeepalive, SdReader, SdJoinReader, SdCld
<1>16. ASSUME NEW t \in Closer, SdServices(t) PROVE PcOK'
  <2>1. "sd_cld" \in PcOf[t] /\ "sd_cld" \in Return /\ t \in Caller
    BY Labels DEF Closer, Caller, Return, ShutdownPc
  <2> QED
    BY <1>0, <1>16, <2>1, Calls DEF SdServices
<1>17. ASSUME NEW t \in Closer, SdPort(t) PROVE PcOK'
  <2>1. \A u \in Thread : "done" \in PcOf[u] \ StopPc
    BY Labels DEF Thread, StopPc
  <2>2. t \in Thread /\ UNCHANGED after
    BY <1>17 DEF SdPort, Closer, Thread
  <2>3. pc' = [x \in Thread |-> "done"] \/ pc' = [pc EXCEPT ![t] = "done"]
    BY <1>17 DEF SdPort
  <2> QED
    BY <1>0, <2>1, <2>2, <2>3 DEF PcOK
<1>18. CASE ModemFlip \/ ModemTalk \/ UNCHANGED vars
  <2>1. UNCHANGED <<pc, after>>
    BY <1>18 DEF ModemFlip, ModemTalk, vars
  <2> QED
    BY <1>0, <2>1 DEF PcOK
<1> QED
  BY <1>2, <1>3, <1>4, <1>5, <1>6, <1>7, <1>8, <1>9, <1>10, <1>11, <1>12, <1>13, <1>14,
     <1>15, <1>16, <1>17, <1>18
     DEF Next, DialStep, StopStep, ShutdownStep, KeepaliveStep

LEMMA TrUpdates ==
    ASSUME tr \in TrType
    PROVE  /\ [tr EXCEPT !.dialing = TRUE] \in TrType /\ [tr EXCEPT !.dialing = FALSE] \in TrType
           /\ [tr EXCEPT !.recovering = TRUE] \in TrType /\ RecEnd \in TrType
           /\ [RecEnd EXCEPT !.unanswered = 0, !.reported = FALSE] \in TrType
           /\ [tr EXCEPT !.running = FALSE] \in TrType
           /\ [tr EXCEPT !.kaRunning = FALSE] \in TrType
           /\ [tr EXCEPT !.reported = TRUE] \in TrType
           /\ \A n \in Counter : [tr EXCEPT !.unanswered = n] \in TrType
BY CounterFacts DEF TrType, RecEnd

LEMMA HistUpdates ==
    ASSUME hist \in HistType
    PROVE  /\ [hist EXCEPT !.stolen = 0] \in HistType
           /\ [hist EXCEPT !.stolen = IF @ < 2 THEN @ + 1 ELSE @] \in HistType
           /\ [hist EXCEPT !.fired = IF @ < 2 THEN @ + 1 ELSE @] \in HistType
           /\ [hist EXCEPT !.fired = 0, !.raced = FALSE] \in HistType
           /\ [hist EXCEPT !.raised = TRUE] \in HistType
           /\ [hist EXCEPT !.silent = Sat(@ + 1)] \in HistType
           /\ \A b \in BOOLEAN : [hist EXCEPT !.silent = 0, !.raced = b] \in HistType
<1>1. hist.stolen \in 0..2 /\ hist.fired \in 0..2 /\ hist.silent \in Counter
  BY DEF HistType
<1>2. \A n \in 0..2 : (IF n < 2 THEN n + 1 ELSE n) \in 0..2
  OBVIOUS
<1>3. Sat(hist.silent + 1) \in Counter
  BY <1>1, LinkAssumption DEF Sat, Counter
<1>4. 0 \in Counter /\ 0 \in 0..2
  BY CounterFacts
<1> QED
  BY <1>1, <1>2, <1>3, <1>4 DEF HistType

(* The flags and the counter of the transport.                              *)
LEMMA TrNext ==
    ASSUME DataOK, [Next]_vars
    PROVE  tr' \in TrType
<1>0. tr \in TrType /\ tr.unanswered \in Counter /\ loaded \in Counter
  BY DEF DataOK, TrType
<1>1. ASSUME \/ tr' \in {[tr EXCEPT !.dialing = TRUE], [tr EXCEPT !.dialing = FALSE]}
             \/ tr' \in {[tr EXCEPT !.running = FALSE], [tr EXCEPT !.kaRunning = FALSE]}
             \/ tr' = [tr EXCEPT !.reported = TRUE] \/ tr' = tr
      PROVE  tr' \in TrType
  BY <1>0, <1>1, TrUpdates
<1>2. ASSUME NEW n \in Counter, tr' = [tr EXCEPT !.unanswered = n] PROVE tr' \in TrType
  BY <1>0, <1>2, TrUpdates
<1>3. CASE ReaderStep
  BY <1>1, <1>2, <1>3, CounterFacts DEF ReaderStep, ReaderCheck, ReaderRead, ReaderRaises, ReaderDispatch
<1>4. CASE PppStep
  BY <1>1, <1>4 DEF PppStep, PppBoot, PppUp, PppTimeout, PppAuthFailed, PppAuthOwn,
     PppAuthDisconnect, PppAuthRaises, PppAuthRelease, PppEnd
<1>5. CASE KaWake \/ KaProbe \/ KaLoad \/ KaJudge \/ KaDown
  BY <1>1, <1>5 DEF KaWake, KaProbe, KaLoad, KaJudge, KaDown
<1>6. CASE KaCheck \/ KaStore
  BY <1>0, <1>1, <1>2, <1>6, CounterFacts DEF KaCheck, KaStore
<1>7. ASSUME \/ tr' = [tr EXCEPT !.recovering = TRUE] \/ tr' = RecEnd
             \/ tr' = [RecEnd EXCEPT !.unanswered = 0, !.reported = FALSE]
      PROVE  tr' \in TrType
  BY <1>0, <1>7, TrUpdates
<1>8. CASE RecReset \/ RecCld \/ RecCheck \/ RecFin
  BY <1>1, <1>7, <1>8 DEF RecReset, RecCld, RecCheck, RecFin
<1>9. ASSUME NEW ok \in BOOLEAN, RecAt(ok) \/ RecDlc(ok) PROVE tr' \in TrType
  BY <1>1, <1>7, <1>9 DEF RecAt, RecDlc
<1>10. CASE DialBegin \/ DialStep \/ StopCommand \/ StopCommandEnd
  BY <1>1, <1>10 DEF DialBegin, DialStep, DialOwn, DialWait, DialRaises, DialRelease,
     StopCommand, StopCommandEnd
<1>11. ASSUME NEW t \in Caller, StopStep(t) PROVE tr' \in TrType
  BY <1>1, <1>11 DEF StopStep, StopOwn, StopDisconnect, StopRaises, StopFlag, StopJoin, StopRelease
<1>12. ASSUME NEW t \in Closer, Quit(t) \/ ShutdownStep(t) PROVE tr' \in TrType
  BY <1>1, <1>12 DEF Quit, ShutdownStep, SdKeepalive, SdJoinKeepalive, SdReader, SdJoinReader,
     SdServices, SdCld, SdPort
<1>13. CASE ModemFlip \/ ModemTalk \/ UNCHANGED vars
  BY <1>1, <1>13 DEF ModemFlip, ModemTalk, vars
<1> QED
  BY <1>3, <1>4, <1>5, <1>6, <1>8, <1>9, <1>10, <1>11, <1>12, <1>13 DEF Next, KeepaliveStep

(* The history variables.                                                   *)
LEMMA HistNext ==
    ASSUME DataOK, [Next]_vars
    PROVE  hist' \in HistType
<1>0. hist \in HistType
  BY DEF DataOK
<1>1. ASSUME \/ hist' = hist \/ hist' = [hist EXCEPT !.stolen = 0]
             \/ hist' = [hist EXCEPT !.stolen = IF @ < 2 THEN @ + 1 ELSE @]
             \/ hist' = [hist EXCEPT !.fired = IF @ < 2 THEN @ + 1 ELSE @]
             \/ hist' = [hist EXCEPT !.fired = 0, !.raced = FALSE]
             \/ hist' = [hist EXCEPT !.raised = TRUE]
             \/ hist' = [hist EXCEPT !.silent = Sat(@ + 1)]
      PROVE  hist' \in HistType
  BY <1>0, <1>1, HistUpdates
<1>2. CASE ReaderDispatch
  <2>1. (pc["keepalive"] = "store") \in BOOLEAN
    OBVIOUS
  <2>2. PICK b \in BOOLEAN : hist' = [hist EXCEPT !.silent = 0, !.raced = b]
    BY <1>2, <2>1 DEF ReaderDispatch
  <2> QED
    BY <1>0, <2>2, HistUpdates
<1>3. CASE ReaderCheck \/ ReaderRead \/ ReaderRaises
  BY <1>1, <1>3 DEF ReaderCheck, ReaderRead, ReaderRaises
<1>4. CASE PppStep
  BY <1>1, <1>4 DEF PppStep, PppBoot, PppUp, PppTimeout, PppAuthFailed, PppAuthOwn,
     PppAuthDisconnect, PppAuthRaises, PppAuthRelease, PppEnd
<1>5. CASE KaWake \/ KaCheck \/ KaProbe \/ KaLoad \/ KaStore \/ KaJudge \/ KaDown
  BY <1>1, <1>5 DEF KaWake, KaCheck, KaProbe, KaLoad, KaStore, KaJudge, KaDown
<1>6. CASE RecReset \/ RecCld \/ RecCheck \/ RecFin
  BY <1>1, <1>6 DEF RecReset, RecCld, RecCheck, RecFin
<1>7. ASSUME NEW ok \in BOOLEAN, RecAt(ok) \/ RecDlc(ok) PROVE hist' \in HistType
  BY <1>1, <1>7 DEF RecAt, RecDlc
<1>8. CASE DialBegin \/ DialStep \/ StopCommand \/ StopCommandEnd
  BY <1>1, <1>8 DEF DialBegin, DialStep, DialOwn, DialWait, DialRaises, DialRelease,
     StopCommand, StopCommandEnd
<1>9. ASSUME NEW t \in Caller, StopStep(t) PROVE hist' \in HistType
  BY <1>1, <1>9 DEF StopStep, StopOwn, StopDisconnect, StopRaises, StopFlag, StopJoin, StopRelease
<1>10. ASSUME NEW t \in Closer, Quit(t) \/ ShutdownStep(t) PROVE hist' \in HistType
  BY <1>1, <1>10 DEF Quit, ShutdownStep, SdKeepalive, SdJoinKeepalive, SdReader, SdJoinReader,
     SdServices, SdCld, SdPort
<1>11. CASE ModemFlip \/ ModemTalk \/ UNCHANGED vars
  BY <1>1, <1>11 DEF ModemFlip, ModemTalk, vars
<1> QED
  BY <1>2, <1>3, <1>4, <1>5, <1>6, <1>7, <1>8, <1>9, <1>10, <1>11
     DEF Next, ReaderStep, KeepaliveStep

PppType == [running : BOOLEAN, routed : BOOLEAN]
ModemType == [alive : BOOLEAN, mux : BOOLEAN]
CountType == [dial : Nat, stop : Nat, flip : Nat]

(* The PPP flags.                                                           *)
LEMMA PppFlagsNext ==
    ASSUME DataOK, [Next]_vars
    PROVE  ppp' \in PppType
<1>0. ppp \in PppType
  BY DEF DataOK, PppType
<1>1. ASSUME \/ ppp' = ppp \/ \E b \in BOOLEAN : ppp' = [running |-> b, routed |-> b]
             \/ ppp' = [ppp EXCEPT !.running = FALSE] \/ ppp' = [ppp EXCEPT !.routed = FALSE]
      PROVE  ppp' \in PppType
  <2>1. CASE ppp' = ppp
    BY <1>0, <2>1
  <2>2. ASSUME NEW b \in BOOLEAN, ppp' = [running |-> b, routed |-> b] PROVE ppp' \in PppType
    BY <2>2 DEF PppType
  <2>3. CASE ppp' = [ppp EXCEPT !.running = FALSE] \/ ppp' = [ppp EXCEPT !.routed = FALSE]
    BY <1>0, <2>3 DEF PppType
  <2> QED
    BY <1>1, <2>1, <2>2, <2>3
<1>2. CASE PppStep
  BY <1>1, <1>2 DEF PppStep, PppBoot, PppUp, PppTimeout, PppAuthFailed, PppAuthOwn,
     PppAuthDisconnect, PppAuthRaises, PppAuthRelease, PppEnd
<1>3. CASE DialBegin \/ DialRelease \/ StopCommandEnd
  BY <1>1, <1>3 DEF DialBegin, DialRelease, StopCommandEnd
<1>4. ASSUME NEW t \in Caller, StopStep(t) PROVE ppp' \in PppType
  BY <1>1, <1>4 DEF StopStep, StopOwn, StopDisconnect, StopRaises, StopFlag, StopJoin, StopRelease
<1>5. CASE ReaderStep
  BY <1>1, <1>5 DEF ReaderStep, ReaderCheck, ReaderRead, ReaderRaises, ReaderDispatch
<1>6. CASE KeepaliveStep
  BY <1>1, <1>6 DEF KeepaliveStep, KaWake, KaCheck, KaProbe, KaLoad, KaStore, KaJudge, KaDown,
     RecReset, RecCld, RecCheck, RecAt, RecDlc, RecFin
<1>7. ASSUME NEW ok \in BOOLEAN, DialOwn \/ DialWait(ok) \/ DialRaises \/ StopCommand
      PROVE  ppp' \in PppType
  BY <1>1, <1>7 DEF DialOwn, DialWait, DialRaises, StopCommand
<1>8. ASSUME NEW t \in Closer, Quit(t) \/ ShutdownStep(t) PROVE ppp' \in PppType
  BY <1>1, <1>8 DEF Quit, ShutdownStep, SdKeepalive, SdJoinKeepalive, SdReader, SdJoinReader,
     SdServices, SdCld, SdPort
<1>9. CASE ModemFlip \/ ModemTalk \/ UNCHANGED vars
  BY <1>1, <1>9 DEF ModemFlip, ModemTalk, vars
<1> QED
  BY <1>2, <1>3, <1>4, <1>5, <1>6, <1>7, <1>8, <1>9 DEF Next, DialStep

(* The modem.                                                               *)
LEMMA ModemNext ==
    ASSUME DataOK, [Next]_vars
    PROVE  modem' \in ModemType
<1>0. modem \in ModemType
  BY DEF DataOK, ModemType
<1>1. ASSUME \/ modem' = modem \/ \E b \in BOOLEAN : modem' = [modem EXCEPT !.mux = b]
             \/ \E b \in BOOLEAN : modem' = [modem EXCEPT !.alive = b]
      PROVE  modem' \in ModemType
  BY <1>0, <1>1 DEF ModemType
<1>2. /\ (~modem.alive) \in BOOLEAN /\ (modem.mux /\ ~modem.alive) \in BOOLEAN
      /\ (modem.mux /\ ~(modem.alive /\ port)) \in BOOLEAN
  OBVIOUS
<1>3. CASE RecCld
  BY <1>1, <1>2, <1>3 DEF RecCld
<1>4. ASSUME NEW t \in Closer, SdCld(t) PROVE modem' \in ModemType
  BY <1>1, <1>2, <1>4 DEF SdCld
<1>5. CASE ModemFlip
  BY <1>1, <1>2, <1>5 DEF ModemFlip
<1>6. ASSUME NEW ok \in BOOLEAN, RecAt(ok) \/ RecDlc(ok) PROVE modem' \in ModemType
  BY <1>1, <1>6 DEF RecAt, RecDlc
<1>7. CASE ReaderStep \/ PppStep
  BY <1>1, <1>7 DEF ReaderStep, ReaderCheck, ReaderRead, ReaderRaises, ReaderDispatch, PppStep, PppBoot,
     PppUp, PppTimeout, PppAuthFailed, PppAuthOwn, PppAuthDisconnect, PppAuthRaises,
     PppAuthRelease, PppEnd
<1>8. CASE KaWake \/ KaCheck \/ KaProbe \/ KaLoad \/ KaStore \/ KaJudge \/ KaDown
           \/ RecReset \/ RecCheck \/ RecFin
  BY <1>1, <1>8 DEF KaWake, KaCheck, KaProbe, KaLoad, KaStore, KaJudge, KaDown,
     RecReset, RecCheck, RecFin
<1>9. CASE DialBegin \/ DialStep \/ StopCommand \/ StopCommandEnd
  BY <1>1, <1>9 DEF DialBegin, DialStep, DialOwn, DialWait, DialRaises, DialRelease,
     StopCommand, StopCommandEnd
<1>10. ASSUME NEW t \in Caller, StopStep(t) PROVE modem' \in ModemType
  BY <1>1, <1>10 DEF StopStep, StopOwn, StopDisconnect, StopRaises, StopFlag, StopJoin, StopRelease
<1>11. ASSUME NEW t \in Closer,
              Quit(t) \/ SdKeepalive(t) \/ SdJoinKeepalive(t) \/ SdReader(t) \/ SdJoinReader(t)
              \/ SdServices(t) \/ SdPort(t)
       PROVE  modem' \in ModemType
  BY <1>1, <1>11 DEF Quit, SdKeepalive, SdJoinKeepalive, SdReader, SdJoinReader, SdServices, SdPort
<1>12. CASE ModemTalk \/ UNCHANGED vars
  BY <1>1, <1>12 DEF ModemTalk, vars
<1> QED
  BY <1>3, <1>4, <1>5, <1>6, <1>7, <1>8, <1>9, <1>10, <1>11, <1>12
     DEF Next, ShutdownStep, KeepaliveStep

(* The bounded counters.                                                    *)
LEMMA CountNext ==
    ASSUME DataOK, [Next]_vars
    PROVE  count' \in CountType
<1>0. count \in CountType
  BY DEF DataOK, CountType
<1>1. CASE DialBegin \/ StopCommand \/ ModemFlip
  BY <1>0, <1>1 DEF DialBegin, StopCommand, ModemFlip, Tick, CountType
<1>2. CASE ReaderStep \/ PppStep
  BY <1>0, <1>2 DEF ReaderStep, ReaderCheck, ReaderRead, ReaderRaises, ReaderDispatch, PppStep, PppBoot,
     PppUp, PppTimeout, PppAuthFailed, PppAuthOwn, PppAuthDisconnect, PppAuthRaises,
     PppAuthRelease, PppEnd
<1>3. CASE KeepaliveStep
  BY <1>0, <1>3 DEF KeepaliveStep, KaWake, KaCheck, KaProbe, KaLoad, KaStore, KaJudge, KaDown,
     RecReset, RecCld, RecCheck, RecAt, RecDlc, RecFin
<1>4. CASE DialStep \/ StopCommandEnd
  BY <1>0, <1>4 DEF DialStep, DialOwn, DialWait, DialRaises, DialRelease, StopCommandEnd
<1>5. ASSUME NEW t \in Caller, StopStep(t) PROVE count' \in CountType
  BY <1>0, <1>5 DEF StopStep, StopOwn, StopDisconnect, StopRaises, StopFlag, StopJoin, StopRelease
<1>6. ASSUME NEW t \in Closer, Quit(t) \/ ShutdownStep(t) PROVE count' \in CountType
  BY <1>0, <1>6 DEF Quit, ShutdownStep, SdKeepalive, SdJoinKeepalive, SdReader, SdJoinReader,
     SdServices, SdCld, SdPort
<1>7. CASE ModemTalk \/ UNCHANGED vars
  BY <1>0, <1>7 DEF ModemTalk, vars
<1> QED
  BY <1>1, <1>2, <1>3, <1>4, <1>5, <1>6, <1>7 DEF Next

(* The port, its receive buffer and the value read by the increment.        *)
LEMMA PortNext ==
    ASSUME DataOK, [Next]_vars
    PROVE  loaded' \in Counter /\ port' \in BOOLEAN /\ rx' \in Nat
<1>0. loaded \in Counter /\ port \in BOOLEAN /\ rx \in Nat
  BY DEF DataOK
<1>1. CASE KaLoad \/ KaStore
  BY <1>0, <1>1, CounterFacts DEF KaLoad, KaStore, DataOK, TrType
<1>2. ASSUME loaded' = loaded, port' = port \/ port' = FALSE, rx' = rx \/ rx' = 0 \/ rx' = rx + 1
      PROVE  loaded' \in Counter /\ port' \in BOOLEAN /\ rx' \in Nat
  <2>1. rx' \in Nat
    BY <1>0, <1>2
  <2>2. loaded' \in Counter /\ port' \in BOOLEAN
    BY <1>0, <1>2
  <2> QED
    BY <2>1, <2>2
<1>3. CASE ReaderStep \/ PppStep
  BY <1>2, <1>3 DEF ReaderStep, ReaderCheck, ReaderRead, ReaderRaises, ReaderDispatch, PppStep, PppBoot,
     PppUp, PppTimeout, PppAuthFailed, PppAuthOwn, PppAuthDisconnect, PppAuthRaises,
     PppAuthRelease, PppEnd
<1>4. CASE KaWake \/ KaCheck \/ KaProbe \/ KaJudge \/ KaDown \/ RecReset \/ RecCld \/ RecCheck
           \/ RecFin
  BY <1>2, <1>4 DEF KaWake, KaCheck, KaProbe, KaJudge, KaDown, RecReset, RecCld, RecCheck, RecFin
<1>5. ASSUME NEW ok \in BOOLEAN, RecAt(ok) \/ RecDlc(ok)
      PROVE  loaded' \in Counter /\ port' \in BOOLEAN /\ rx' \in Nat
  BY <1>2, <1>5 DEF RecAt, RecDlc
<1>6. CASE DialBegin \/ DialStep \/ StopCommand \/ StopCommandEnd
  BY <1>2, <1>6 DEF DialBegin, DialStep, DialOwn, DialWait, DialRaises, DialRelease,
     StopCommand, StopCommandEnd
<1>7. ASSUME NEW t \in Caller, StopStep(t)
      PROVE  loaded' \in Counter /\ port' \in BOOLEAN /\ rx' \in Nat
  BY <1>2, <1>7 DEF StopStep, StopOwn, StopDisconnect, StopRaises, StopFlag, StopJoin, StopRelease
<1>8. ASSUME NEW t \in Closer, Quit(t) \/ ShutdownStep(t)
      PROVE  loaded' \in Counter /\ port' \in BOOLEAN /\ rx' \in Nat
  BY <1>2, <1>8 DEF Quit, ShutdownStep, SdKeepalive, SdJoinKeepalive, SdReader, SdJoinReader,
     SdServices, SdCld, SdPort
<1>9. CASE ModemFlip \/ ModemTalk \/ UNCHANGED vars
  BY <1>2, <1>9 DEF ModemFlip, ModemTalk, vars
<1> QED
  BY <1>1, <1>3, <1>4, <1>5, <1>6, <1>7, <1>8, <1>9 DEF Next, KeepaliveStep

LEMMA DataNext == TypeOK /\ [Next]_vars => DataOK'
<1> SUFFICES ASSUME DataOK, [Next]_vars PROVE DataOK'
  BY TypeParts
<1>1. tr' \in TrType /\ hist' \in HistType
  BY TrNext, HistNext
<1>2. ppp' \in PppType /\ modem' \in ModemType /\ count' \in CountType
  BY PppFlagsNext, ModemNext, CountNext
<1> QED
  BY <1>1, <1>2, PortNext DEF DataOK, PppType, ModemType, CountType

LEMMA TypeInit == Init => TypeOK
<1> SUFFICES ASSUME Init PROVE TypeOK
  OBVIOUS
<1>1. PcOK
  <2>1. /\ DOMAIN pc = Thread /\ pc["main"] = "idle" /\ pc["keepalive"] = "sleep"
        /\ pc["reader"] = "top" /\ pc["ppp"] = "none" /\ pc["handler"] \in {"idle", "none"}
    BY LinkAssumption DEF Init, Thread
  <2>2. after \in [Thread -> Return]
    BY DEF Init, Return
  <2>3. \A t \in Thread : pc[t] \in PcOf[t] /\ pc[t] \notin StopPc
    BY <2>1, Labels DEF Thread, StopPc
  <2> QED
    BY <2>1, <2>2, <2>3 DEF PcOK
<1>2. DataOK
  BY CounterFacts DEF Init, DataOK, TrType, HistType
<1> QED
  BY <1>1, <1>2, TypeParts

LEMMA TypeNext == TypeOK /\ [Next]_vars => TypeOK'
<1> SUFFICES ASSUME TypeOK, [Next]_vars PROVE TypeOK'
  OBVIOUS
<1>1. PcOK' /\ DataOK'
  BY PcNext, DataNext
<1> QED
  BY <1>1 DEF TypeOK, PcOK, DataOK, TrType, HistType

(* Every variable of the link model always has its type, every thread is at  *)
(* a label of its own, and a thread inside PppService.stop() always has a   *)
(* place of its own to return to.                                           *)
THEOREM TypeCorrect == Spec => []TypeOK
<1>1. Init => TypeOK
  BY TypeInit
<1>2. TypeOK /\ [Next]_vars => TypeOK'
  BY TypeNext
<1> QED
  BY <1>1, <1>2, PTL DEF Spec

-----------------------------------------------------------------------------
(* What each step does to the flags and the history                         *)

(* The steps that set `dialing' or `recovering' are the ones that start a   *)
(* new period of ownership, and the steps that matter to the probe counter  *)
(* and to the link-down hook are those of the keepalive thread and          *)
(* _dispatch_frame().  All others are as stated in the last disjunct.       *)
LEMMA FlagStep ==
    ASSUME TypeOK, [Next]_vars
    PROVE  \/ ReaderCheck \/ ReaderRead \/ ReaderDispatch
           \/ KaProbe \/ KaLoad \/ KaStore \/ KaDown \/ KaCheck \/ RecFin
           \/ /\ tr'.unanswered = tr.unanswered /\ tr'.reported = tr.reported
              /\ loaded' = loaded
              /\ hist'.silent = hist.silent /\ hist'.raced = hist.raced
              /\ hist'.fired = hist.fired
              /\ \/ hist'.stolen = 0
                 \/ hist'.stolen = hist.stolen /\ (Owned' => Owned)
              /\ pc'["keepalive"] \notin {"load", "store"}
                    \/ pc'["keepalive"] = pc["keepalive"]
              /\ pc'["keepalive"] = "down" => pc["keepalive"] \in {"down", "judge"}
              /\ pc'["reader"] \in {pc["reader"], "done"}
<1>0. tr \in TrType /\ hist \in HistType /\ DOMAIN pc = Thread
  BY DEF TypeOK, TrType, HistType
<1> DEFINE Quiet ==
      /\ tr'.unanswered = tr.unanswered /\ tr'.reported = tr.reported /\ loaded' = loaded
      /\ hist'.silent = hist.silent /\ hist'.raced = hist.raced /\ hist'.fired = hist.fired
      /\ hist'.stolen = 0 \/ (hist'.stolen = hist.stolen /\ (Owned' => Owned))
    Stays ==
      /\ pc'["keepalive"] \notin {"load", "store"} \/ pc'["keepalive"] = pc["keepalive"]
      /\ pc'["keepalive"] = "down" => pc["keepalive"] \in {"down", "judge"}
      /\ pc'["reader"] \in {pc["reader"], "done"}
<1>1. ASSUME NEW t \in Thread \ {"keepalive", "reader"}, NEW l, Goto(t, l) PROVE Stays
  BY <1>0, <1>1 DEF Goto, Thread
<1>2. ASSUME NEW l, Goto("keepalive", l), l \notin {"load", "store", "down"} PROVE Stays
  BY <1>0, <1>2 DEF Goto, Thread
<1>3. ASSUME UNCHANGED <<tr, loaded, hist>> PROVE Quiet
  BY <1>3 DEF Owned
<1>4. ASSUME UNCHANGED <<tr, loaded>>, hist' = [hist EXCEPT !.raised = TRUE] PROVE Quiet
  BY <1>0, <1>4 DEF Owned, HistType
<1>5. ASSUME loaded' = loaded, hist' = [hist EXCEPT !.stolen = 0],
             tr' = [tr EXCEPT !.dialing = TRUE] \/ tr' = [tr EXCEPT !.recovering = TRUE]
      PROVE  Quiet
  BY <1>0, <1>5 DEF TrType, HistType
<1>6. ASSUME loaded' = loaded, hist' = hist,
             \/ tr' = [tr EXCEPT !.dialing = FALSE] \/ tr' = RecEnd
             \/ tr' = [tr EXCEPT !.running = FALSE] \/ tr' = [tr EXCEPT !.kaRunning = FALSE]
      PROVE  Quiet
  BY <1>0, <1>6 DEF TrType, Owned, RecEnd
<1>7. {"main", "ppp", "handler"} \subseteq Thread \ {"keepalive", "reader"}
  BY DEF Thread
<1> HIDE DEF Quiet
<1>8. CASE PppStep
  <2>1. Quiet
    BY <1>3, <1>4, <1>5, <1>6, <1>8 DEF PppStep, PppBoot, PppUp, PppTimeout, PppAuthFailed,
       PppAuthOwn, PppAuthDisconnect, PppAuthRaises, PppAuthRelease, PppEnd
  <2>2. \E l : Goto("ppp", l)
    BY <1>8 DEF PppStep, PppBoot, PppUp, PppTimeout, PppAuthFailed,
       PppAuthOwn, PppAuthDisconnect, PppAuthRaises, PppAuthRelease, PppEnd
  <2> QED
    BY <1>1, <1>7, <2>1, <2>2 DEF Quiet
<1>9. CASE DialBegin \/ DialOwn \/ DialRaises \/ StopCommand \/ StopCommandEnd
           \/ \E ok \in BOOLEAN : DialWait(ok)
  <2>1. Quiet
    BY <1>3, <1>4, <1>5, <1>9 DEF DialBegin, DialOwn, DialRaises, StopCommand, StopCommandEnd,
       DialWait
  <2>2. \E l : Goto("main", l)
    BY <1>9 DEF DialBegin, DialOwn, DialRaises, StopCommand, StopCommandEnd, DialWait, CallStop
  <2> QED
    BY <1>1, <1>7, <2>1, <2>2 DEF Quiet
<1>10. CASE DialRelease
  <2>1. Quiet
    BY <1>6, <1>10 DEF DialRelease
  <2>2. Stays
    BY <1>0, <1>10 DEF DialRelease, Goto, Thread
  <2> QED
    BY <2>1, <2>2 DEF Quiet
<1>11. ASSUME NEW t \in Caller, StopStep(t) PROVE Quiet /\ Stays
  <2>1. Quiet
    BY <1>3, <1>4, <1>5, <1>6, <1>11 DEF StopStep, StopOwn, StopDisconnect, StopRaises,
       StopFlag, StopJoin, StopRelease
  <2>2. CASE t = "keepalive"
    <3>1. after["keepalive"] \notin {"load", "store", "down"}
      BY DEF TypeOK, Return, Thread
    <3> QED
      BY <1>2, <1>11, <2>1, <2>2, <3>1 DEF StopStep, StopOwn, StopDisconnect, StopRaises,
         StopFlag, StopJoin, StopRelease
  <2>3. CASE t # "keepalive"
    <3>1. \E l : Goto(t, l)
      BY <1>11 DEF StopStep, StopOwn, StopDisconnect, StopRaises, StopFlag, StopJoin, StopRelease
    <3> QED
      BY <1>1, <1>7, <2>1, <2>3, <3>1 DEF Caller
  <2> QED
    BY <2>2, <2>3
<1>12. ASSUME NEW t \in Closer, Quit(t) \/ ShutdownStep(t) PROVE Quiet /\ Stays
  <2>1. Quiet
    BY <1>3, <1>6, <1>12 DEF Quit, ShutdownStep, SdKeepalive, SdJoinKeepalive, SdReader,
       SdJoinReader, SdServices, SdCld, SdPort
  <2>2. t \in Thread \ {"keepalive", "reader"}
    BY <1>7 DEF Closer
  <2>3. CASE SdPort(t)
    <3>1. pc' = [x \in Thread |-> "done"] \/ pc' = [pc EXCEPT ![t] = "done"]
      BY <2>3 DEF SdPort
    <3> QED
      BY <1>0, <2>1, <2>2, <3>1 DEF Thread
  <2>4. CASE ~SdPort(t)
    <3>1. \E l : Goto(t, l)
      BY <1>12, <2>4 DEF Quit, ShutdownStep, SdKeepalive, SdJoinKeepalive, SdReader,
         SdJoinReader, SdServices, SdCld, CallStop
    <3> QED
      BY <1>1, <2>1, <2>2, <3>1
  <2> QED
    BY <2>3, <2>4
<1>13. CASE KaWake
  BY <1>2, <1>3, <1>13 DEF KaWake, Quiet
<1>14. CASE KaJudge
  <2>1. Quiet
    BY <1>3, <1>14 DEF KaJudge
  <2>2. Stays
    BY <1>0, <1>14 DEF KaJudge, Goto, Thread
  <2> QED
    BY <2>1, <2>2 DEF Quiet
<1>15. CASE RecReset \/ RecCld \/ RecCheck \/ \E ok \in BOOLEAN : RecAt(ok) \/ RecDlc(ok)
  <2>1. Quiet
    BY <1>3, <1>5, <1>6, <1>15 DEF RecReset, RecCld, RecCheck, RecAt, RecDlc
  <2>2. Stays
    BY <1>2, <1>15 DEF RecReset, RecCld, RecCheck, RecAt, RecDlc
  <2> QED
    BY <2>1, <2>2 DEF Quiet
<1>16. CASE ModemFlip \/ ModemTalk \/ UNCHANGED vars
  <2>1. Quiet /\ pc' = pc
    BY <1>3, <1>16 DEF ModemFlip, ModemTalk, vars
  <2> QED
    BY <2>1 DEF Quiet
<1>17. CASE ReaderRaises
  <2>1. Quiet
    BY <1>3, <1>17 DEF ReaderRaises
  <2>2. Stays
    BY <1>0, <1>17 DEF ReaderRaises, Goto, Thread
  <2> QED
    BY <2>1, <2>2 DEF Quiet
<1>18. CASE KeepaliveStep \/ ReaderStep
  BY <1>13, <1>14, <1>15, <1>17, <1>18 DEF KeepaliveStep, ReaderStep
<1> QED
  BY <1>8, <1>9, <1>10, <1>11, <1>12, <1>16, <1>18 DEF Next, DialStep, Quiet

-----------------------------------------------------------------------------
(* The link-down hook                                                       *)

(* Inductive: the hook has fired only if the outage is marked as reported.  *)
HookInv == TypeOK /\ hist.fired <= 1 /\ (hist.fired # 0 => tr.reported)

(* The callback fires at most once between two successful recoveries,       *)
(* however many attempts fail in between and whoever else runs.             *)
THEOREM HookFiresOnce == Spec => []HookOncePerOutage
<1>1. Init => HookInv
  BY TypeInit DEF Init, HookInv
<1>2. HookInv /\ [Next]_vars => HookInv'
  <2> SUFFICES ASSUME HookInv, [Next]_vars
               PROVE  hist'.fired <= 1 /\ (hist'.fired # 0 => tr'.reported)
    BY TypeNext DEF HookInv
  <2>0. TypeOK /\ tr \in TrType /\ hist \in HistType
    BY DEF HookInv, TypeOK, TrType, HistType
  <2>1. CASE ReaderCheck \/ ReaderRead \/ ReaderDispatch
    BY <2>0, <2>1 DEF ReaderCheck, ReaderRead, ReaderDispatch, HookInv, TrType, HistType
  <2>2. CASE KaProbe \/ KaLoad \/ KaStore \/ KaCheck
    BY <2>0, <2>2 DEF KaProbe, KaLoad, KaStore, KaCheck, HookInv, TrType, HistType
  <2>3. CASE KaDown
    BY <2>0, <2>3 DEF KaDown, HookInv, TrType, HistType
  <2>4. CASE RecFin
    <3>1. CASE tr.kaRunning
      <4>1. hist'.fired = 0
        BY <2>0, <2>4, <3>1 DEF RecFin, HistType
      <4> QED
        BY <4>1
    <3>2. CASE ~tr.kaRunning
      <4>1. hist' = hist /\ tr'.reported = tr.reported
        BY <2>0, <2>4, <3>2 DEF RecFin, RecEnd, TrType
      <4> QED
        BY <4>1 DEF HookInv
    <3> QED
      BY <3>1, <3>2
  <2> QED
    BY <2>0, <2>1, <2>2, <2>3, <2>4, FlagStep DEF HookInv
<1>3. HookInv => HookOncePerOutage
  BY DEF HookInv, HookOncePerOutage
<1> QED
  BY <1>1, <1>2, <1>3, PTL DEF Spec

-----------------------------------------------------------------------------
(* The reader and the threads that take the port from it                    *)

(* Inductive: a reader that still has its one read to do while the port is   *)
(* owned has not done it.                                                   *)
YieldInv == TypeOK /\ hist.stolen <= 1 /\ (Owned /\ pc["reader"] = "read" => hist.stolen = 0)

(* While a dial, a disconnect or a recovery owns the port the reader takes   *)
(* bytes from it at most once.                                              *)
THEOREM ReaderTakesAtMostOnce == Spec => []ReaderYields
<1>1. Init => YieldInv
  BY TypeInit DEF Init, YieldInv, Owned
<1>2. YieldInv /\ [Next]_vars => YieldInv'
  <2> SUFFICES ASSUME YieldInv, [Next]_vars
               PROVE  hist'.stolen <= 1 /\ (Owned' /\ pc'["reader"] = "read" => hist'.stolen = 0)
    BY TypeNext DEF YieldInv
  <2>0. /\ TypeOK /\ tr \in TrType /\ hist \in HistType /\ DOMAIN pc = Thread
        /\ hist.stolen \in 0..2
    BY DEF YieldInv, TypeOK, TrType, HistType
  <2>1. CASE ReaderCheck
    <3>1. tr' = tr /\ hist' = hist
      BY <2>1 DEF ReaderCheck
    <3>2. pc'["reader"] = "read" => ~Owned
      BY <2>0, <2>1 DEF ReaderCheck, Goto, Thread
    <3> QED
      BY <3>1, <3>2 DEF YieldInv, Owned
  <2>2. CASE ReaderRead
    <3>1. pc["reader"] = "read" /\ pc'["reader"] # "read" /\ tr' = tr
      BY <2>0, <2>2 DEF ReaderRead, Goto, Thread
    <3>2. CASE Owned
      <4>1. hist.stolen = 0
        BY <3>1, <3>2 DEF YieldInv
      <4>2. hist'.stolen \in {0, 1}
        BY <2>0, <2>2, <4>1 DEF ReaderRead, HistType
      <4> QED
        BY <3>1, <4>2
    <3>3. CASE ~Owned
      BY <2>2, <3>1, <3>3 DEF ReaderRead, YieldInv
    <3> QED
      BY <3>2, <3>3
  <2>3. CASE ReaderDispatch
    <3>1. pc'["reader"] \in {"top", "done"} /\ hist'.stolen = hist.stolen
      BY <2>0, <2>3 DEF ReaderDispatch, Goto, Thread, HistType
    <3> QED
      BY <3>1 DEF YieldInv
  <2>4. CASE KaProbe \/ KaLoad \/ KaStore \/ KaDown \/ KaCheck \/ RecFin
    <3>1. hist'.stolen = hist.stolen
      BY <2>0, <2>4 DEF KaProbe, KaLoad, KaStore, KaDown, KaCheck, RecFin, HistType
    <3>2. Owned' => Owned
      BY <2>0, <2>4 DEF KaProbe, KaLoad, KaStore, KaDown, KaCheck, RecFin, RecEnd, Owned, TrType
    <3>3. pc'["reader"] = pc["reader"]
      BY <2>0, <2>4 DEF KaProbe, KaLoad, KaStore, KaDown, KaCheck, RecFin, CallStop, Goto, Thread
    <3> QED
      BY <3>1, <3>2, <3>3 DEF YieldInv
  <2> QED
    BY <2>0, <2>1, <2>2, <2>3, <2>4, FlagStep DEF YieldInv
<1>3. YieldInv => ReaderYields
  BY DEF YieldInv, ReaderYields
<1> QED
  BY <1>1, <1>2, <1>3, PTL DEF Spec

-----------------------------------------------------------------------------
(* The probe counter                                                        *)

(* Inductive: unless a reset was overwritten, the counter is at most one     *)
(* ahead of the probes sent since the last frame, and not ahead of them     *)
(* between a probe and the increment.                                       *)
SilentInv ==
    /\ TypeOK
    /\ ~hist.raced => /\ tr.unanswered <= hist.silent + 1
                      /\ pc["keepalive"] = "load" => tr.unanswered <= hist.silent
                      /\ pc["keepalive"] = "store" => loaded <= hist.silent

(* The link is declared dead only after Threshold - 1 probes without a       *)
(* frame in between, unless an increment overwrote the reader's reset.      *)
THEOREM DeadOnlyAfterSilence == Spec => DeadMeansSilent
<1>1. Init => SilentInv
  BY TypeInit DEF Init, SilentInv
<1>2. SilentInv /\ [Next]_vars => SilentInv'
  <2> SUFFICES ASSUME SilentInv, [Next]_vars, ~hist'.raced
               PROVE  /\ tr'.unanswered <= hist'.silent + 1
                      /\ pc'["keepalive"] = "load" => tr'.unanswered <= hist'.silent
                      /\ pc'["keepalive"] = "store" => loaded' <= hist'.silent
    BY TypeNext DEF SilentInv
  <2>0. /\ TypeOK /\ tr \in TrType /\ hist \in HistType /\ DOMAIN pc = Thread
    BY DEF SilentInv, TypeOK, TrType, HistType
  <2>0a. /\ tr.unanswered \in Nat /\ tr.unanswered <= Threshold
         /\ loaded \in Nat /\ hist.silent \in Nat /\ Threshold \in Nat
    BY LinkAssumption DEF SilentInv, TypeOK, Counter
  <2>1. CASE ReaderCheck \/ ReaderRead
    <3>1. /\ tr' = tr /\ loaded' = loaded /\ hist'.silent = hist.silent /\ hist'.raced = hist.raced
          /\ pc'["keepalive"] = pc["keepalive"]
      BY <2>0, <2>1 DEF ReaderCheck, ReaderRead, Goto, Thread, HistType
    <3> QED
      BY <3>1 DEF SilentInv
  <2>2. CASE ReaderDispatch
    <3>1. tr'.unanswered = 0 /\ hist'.silent = 0 /\ pc'["keepalive"] = pc["keepalive"]
      BY <2>0, <2>2 DEF ReaderDispatch, Goto, Thread, TrType, HistType
    <3>2. pc["keepalive"] = "store" => hist'.raced
      BY <2>0, <2>2 DEF ReaderDispatch, HistType
    <3> QED
      BY <3>1, <3>2
  <2>3. CASE KaProbe
    <3>1. /\ tr' = tr /\ hist'.silent = Sat(hist.silent + 1) /\ hist'.raced = hist.raced
          /\ pc'["keepalive"] \in {"load", "done"}
      BY <2>0, <2>3 DEF KaProbe, Goto, Thread, HistType
    <3>2. tr.unanswered <= hist.silent + 1 /\ tr.unanswered <= Threshold
      BY <2>0a, <3>1 DEF SilentInv
    <3>3. tr.unanswered <= Sat(hist.silent + 1) /\ Sat(hist.silent + 1) \in Nat
      BY <2>0a, <3>2 DEF Sat
    <3>4. tr'.unanswered <= hist'.silent
      BY <3>1, <3>3
    <3>5. tr'.unanswered <= hist'.silent + 1
      BY <2>0a, <3>1, <3>3
    <3> QED
      BY <3>1, <3>4, <3>5
  <2>4. CASE KaLoad
    <3>1. /\ tr' = tr /\ hist' = hist /\ loaded' = tr.unanswered
          /\ pc["keepalive"] = "load" /\ pc'["keepalive"] = "store"
      BY <2>0, <2>4 DEF KaLoad, Goto, Thread
    <3> QED
      BY <3>1 DEF SilentInv
  <2>5. CASE KaStore
    <3>1. /\ tr'.unanswered = Sat(loaded + 1) /\ hist' = hist
          /\ pc["keepalive"] = "store" /\ pc'["keepalive"] = "judge"
      BY <2>0, <2>5 DEF KaStore, Goto, Thread, TrType
    <3>2. loaded <= hist.silent
      BY <3>1 DEF SilentInv
    <3>3. Sat(loaded + 1) <= hist.silent + 1
      BY <2>0a, <3>2 DEF Sat
    <3> QED
      BY <3>1, <3>3
  <2>6. CASE KaDown
    <3>1. /\ tr'.unanswered = tr.unanswered /\ hist'.silent = hist.silent
          /\ hist'.raced = hist.raced /\ pc'["keepalive"] \notin {"load", "store"}
      BY <2>0, <2>6 DEF KaDown, CallStop, Goto, Thread, TrType, HistType
    <3> QED
      BY <3>1 DEF SilentInv
  <2>7. CASE KaCheck
    <3>1. /\ tr'.unanswered \in {0, tr.unanswered} /\ hist' = hist
          /\ pc'["keepalive"] \notin {"load", "store"}
      BY <2>0, <2>7 DEF KaCheck, Goto, Thread, TrType
    <3>2. tr'.unanswered <= hist'.silent + 1
      BY <2>0a, <3>1 DEF SilentInv
    <3> QED
      BY <3>1, <3>2
  <2>8. CASE RecFin
    <3>1. /\ pc'["keepalive"] = "sleep" /\ hist'.silent = hist.silent
          /\ \/ tr'.unanswered = 0
             \/ tr'.unanswered = tr.unanswered /\ hist'.raced = hist.raced
      BY <2>0, <2>8 DEF RecFin, RecEnd, Goto, Thread, TrType, HistType
    <3>2. tr'.unanswered <= hist'.silent + 1
      BY <2>0a, <3>1 DEF SilentInv
    <3> QED
      BY <3>1, <3>2
  <2> QED
    BY <2>0, <2>1, <2>2, <2>3, <2>4, <2>5, <2>6, <2>7, <2>8, FlagStep DEF SilentInv
<1>3. ASSUME SilentInv, [Next]_vars, pc["keepalive"] = "judge", pc'["keepalive"] = "down"
      PROVE  hist.raced \/ hist.silent + 1 >= Threshold
  <2>0. /\ TypeOK /\ DOMAIN pc = Thread /\ tr.unanswered \in Nat /\ hist.silent \in Nat
        /\ Threshold \in Nat
    BY <1>3, LinkAssumption DEF SilentInv, TypeOK, Counter
  <2>1. KaJudge
    <3>1. CASE KeepaliveStep
      BY <1>3, <3>1 DEF KeepaliveStep, KaWake, KaCheck, KaProbe, KaLoad, KaStore, KaJudge,
         KaDown, RecReset, RecCld, RecCheck, RecAt, RecDlc, RecFin
    <3>2. ASSUME NEW t \in Caller, StopStep(t) PROVE FALSE
      <4>1. CASE t = "keepalive"
        BY <1>3, <3>2, <4>1 DEF StopStep, StopOwn, StopDisconnect, StopRaises, StopFlag,
           StopJoin, StopRelease
      <4>2. CASE t # "keepalive"
        BY <1>3, <2>0, <3>2, <4>2 DEF StopStep, StopOwn, StopDisconnect, StopRaises, StopFlag,
           StopJoin, StopRelease, Goto, Thread
      <4> QED
        BY <4>1, <4>2
    <3>3. ASSUME NEW t \in Closer, Quit(t) \/ ShutdownStep(t) PROVE FALSE
      BY <1>3, <2>0, <3>3 DEF Quit, ShutdownStep, SdKeepalive, SdJoinKeepalive, SdReader,
         SdJoinReader, SdServices, SdCld, SdPort, CallStop, Goto, Thread, Closer
    <3>4. CASE ReaderStep \/ PppStep
      BY <1>3, <2>0, <3>4 DEF ReaderStep, ReaderCheck, ReaderRead, ReaderRaises, ReaderDispatch, PppStep,
         PppBoot, PppUp, PppTimeout, PppAuthFailed, PppAuthOwn, PppAuthDisconnect,
         PppAuthRaises, PppAuthRelease, PppEnd, Goto, Thread
    <3>5. CASE DialBegin \/ DialStep \/ StopCommand \/ StopCommandEnd
      BY <1>3, <2>0, <3>5 DEF DialBegin, DialStep, DialOwn, DialWait, DialRaises, DialRelease,
         StopCommand, StopCommandEnd, CallStop, Goto, Thread
    <3>6. CASE ModemFlip \/ ModemTalk \/ UNCHANGED vars
      BY <1>3, <3>6 DEF ModemFlip, ModemTalk, vars
    <3> QED
      BY <1>3, <3>1, <3>2, <3>3, <3>4, <3>5, <3>6 DEF Next
  <2>2. tr.unanswered >= Threshold
    BY <1>3, <2>0, <2>1 DEF KaJudge, Goto, Thread
  <2>3. ~hist.raced => tr.unanswered <= hist.silent + 1
    BY <1>3 DEF SilentInv
  <2> QED
    BY <2>0, <2>2, <2>3
<1>4. SilentInv /\ [Next]_vars
      => [pc["keepalive"] = "judge" /\ pc'["keepalive"] = "down"
          => hist.raced \/ hist.silent + 1 >= Threshold]_vars
  BY <1>3
<1> QED
  BY <1>1, <1>2, <1>4, PTL DEF Spec, DeadMeansSilent
=============================================================================
