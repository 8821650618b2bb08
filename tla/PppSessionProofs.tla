-------------------------- MODULE PppSessionProofs --------------------------
(***************************************************************************)
(* Theorems about a PPP dial, for every set of peers and every number of   *)
(* dials, stops and faults.                                                *)
(***************************************************************************)
EXTENDS PppSession, TLAPS

-----------------------------------------------------------------------------
(* Queues                                                                   *)

(* What a queue has after a message is put in, or two queues are joined.    *)
LEMMA HasAppend ==
    ASSUME NEW S, NEW q \in Seq(S), NEW m \in S, NEW kinds
    PROVE  Has(Append(q, m), kinds) <=> Has(q, kinds) \/ m.k \in kinds
<1>1. /\ Append(q, m) \in Seq(S) /\ Len(Append(q, m)) = Len(q) + 1
      /\ \A i \in 1 .. Len(q) : Append(q, m)[i] = q[i]
      /\ Append(q, m)[Len(q) + 1] = m
  OBVIOUS
<1>2. DOMAIN q = 1 .. Len(q) /\ DOMAIN Append(q, m) = 1 .. Len(q) + 1 /\ Len(q) \in Nat
  BY <1>1
<1> QED
  BY <1>1, <1>2 DEF Has

LEMMA HasConcat ==
    ASSUME NEW S, NEW q \in Seq(S), NEW r \in Seq(S), NEW kinds
    PROVE  Has(q \o r, kinds) <=> Has(q, kinds) \/ Has(r, kinds)
<1>1. /\ Len(q \o r) = Len(q) + Len(r) /\ q \o r \in Seq(S)
      /\ \A i \in 1 .. Len(q) : (q \o r)[i] = q[i]
      /\ \A i \in 1 .. Len(r) : (q \o r)[Len(q) + i] = r[i]
      /\ \A i \in Len(q) + 1 .. Len(q) + Len(r) : (q \o r)[i] = r[i - Len(q)]
  OBVIOUS
<1>2. /\ DOMAIN q = 1 .. Len(q) /\ DOMAIN r = 1 .. Len(r) /\ Len(q) \in Nat /\ Len(r) \in Nat
      /\ DOMAIN (q \o r) = 1 .. Len(q) + Len(r)
  BY <1>1
<1>3. ASSUME Has(q \o r, kinds) PROVE Has(q, kinds) \/ Has(r, kinds)
  <2>1. PICK i \in 1 .. Len(q) + Len(r) : (q \o r)[i].k \in kinds
    BY <1>2, <1>3 DEF Has
  <2>2. CASE i <= Len(q)
    BY <1>1, <1>2, <2>1, <2>2 DEF Has
  <2>3. CASE i > Len(q)
    <3>1. i - Len(q) \in 1 .. Len(r) /\ (q \o r)[i] = r[i - Len(q)]
      BY <1>1, <1>2, <2>3
    <3> QED
      BY <1>2, <2>1, <3>1 DEF Has
  <2> QED
    BY <1>2, <2>1, <2>2, <2>3
<1>4. ASSUME Has(q, kinds) PROVE Has(q \o r, kinds)
  BY <1>1, <1>2, <1>4 DEF Has
<1>5. ASSUME Has(r, kinds) PROVE Has(q \o r, kinds)
  <2>1. PICK i \in 1 .. Len(r) : r[i].k \in kinds
    BY <1>2, <1>5 DEF Has
  <2>2. Len(q) + i \in 1 .. Len(q) + Len(r) /\ (q \o r)[Len(q) + i] = r[i]
    BY <1>1, <1>2
  <2> QED
    BY <1>2, <2>1, <2>2 DEF Has
<1> QED
  BY <1>3, <1>4, <1>5

(* The last message of two queues that are joined.                          *)
LEMMA ConcatLast ==
    ASSUME NEW S, NEW q \in Seq(S), NEW r \in Seq(S), r # <<>>
    PROVE  (q \o r)[Len(q \o r)] = r[Len(r)]
<1>1. /\ Len(q \o r) = Len(q) + Len(r) /\ q \o r \in Seq(S)
      /\ \A i \in 1 .. Len(q) : (q \o r)[i] = q[i]
      /\ \A i \in 1 .. Len(r) : (q \o r)[Len(q) + i] = r[i]
  OBVIOUS
<1>2. Len(q) \in Nat /\ Len(r) \in Nat /\ Len(r) \in 1 .. Len(r)
  OBVIOUS
<1> QED
  BY <1>1, <1>2

(* What is left when the first message is taken.                            *)
LEMMA HasTail ==
    ASSUME NEW S, NEW q \in Seq(S), q # <<>>, NEW kinds
    PROVE  Has(q, kinds) <=> Head(q).k \in kinds \/ Has(Tail(q), kinds)
<1>1. /\ Len(q) \in Nat \ {0} /\ DOMAIN q = 1 .. Len(q) /\ Head(q) = q[1]
      /\ Tail(q) \in Seq(S) /\ Len(Tail(q)) = Len(q) - 1
      /\ \A i \in 1 .. Len(q) - 1 : Tail(q)[i] = q[i + 1]
  OBVIOUS
<1>2. DOMAIN Tail(q) = 1 .. Len(q) - 1
  BY <1>1
<1>3. ASSUME Has(q, kinds) PROVE Head(q).k \in kinds \/ Has(Tail(q), kinds)
  <2>1. PICK i \in 1 .. Len(q) : q[i].k \in kinds
    BY <1>1, <1>3 DEF Has
  <2>2. CASE i = 1
    BY <1>1, <2>1, <2>2
  <2>3. CASE i # 1
    <3>1. i - 1 \in 1 .. Len(q) - 1 /\ Tail(q)[i - 1] = q[(i - 1) + 1] /\ (i - 1) + 1 = i
      BY <1>1, <2>3
    <3> QED
      BY <1>2, <2>1, <3>1 DEF Has
  <2> QED
    BY <2>2, <2>3
<1>4. ASSUME Has(Tail(q), kinds) PROVE Has(q, kinds)
  <2>1. PICK i \in 1 .. Len(q) - 1 : Tail(q)[i].k \in kinds
    BY <1>2, <1>4 DEF Has
  <2>2. i + 1 \in 1 .. Len(q) /\ q[i + 1] = Tail(q)[i]
    BY <1>1
  <2> QED
    BY <1>1, <2>1, <2>2 DEF Has
<1>5. ASSUME Head(q).k \in kinds PROVE Has(q, kinds)
  BY <1>1, <1>5 DEF Has
<1> QED
  BY <1>3, <1>4, <1>5

-----------------------------------------------------------------------------
(* Types                                                                    *)

PcOK == pc \in [Thread -> RunPc \union ConPc] /\ pc["run"] \in RunPc /\ pc["con"] \in ConPc

HostType ==
    [running : BOOLEAN, pppRunning : BOOLEAN, dialing : BOOLEAN, lcpUp : BOOLEAN,
     authUp : BOOLEAN, auth : {"none", "pap", "chap"}, failed : BOOLEAN,
     seen : BOOLEAN, naked : BOOLEAN, lcpOpts : SUBSET {"nocomp", "mru"},
     ip : BOOLEAN, ipcpOpts : SUBSET {"ip", "nonb"}, ipcpUp : BOOLEAN,
     tries : 0..Attempts, tun : {"none", "on", "stopping"},
     fwd : {"off", "read", "send"}, ready : BOOLEAN, lost : BOOLEAN]

PeerType ==
    [mode : {"cmd", "data", "held", "reset"}, s : Setups, alg : {"md5", "other"},
     acked : BOOLEAN, heard : BOOLEAN, asks : Nat, authd : BOOLEAN, asked : BOOLEAN,
     chal : Nat, agreed : BOOLEAN, ipAsked : BOOLEAN, data : 0..1]

HistType ==
    [clean : BOOLEAN, faults : Nat, stops : Nat, mark : Nat, up : BOOLEAN,
     lcp : BOOLEAN, late : Nat]

Option == {"rest", "pap", "md5", "other", "nocomp", "mru", "ip", "nonb"}
TxMsg == [k : HostKind, a : SUBSET Option]
RxMsg == {m \in [k : PeerKind, a : SUBSET Option] : m.a = {"rest"} => m.k = "IP"}
Frame == {m \in RxMsg : m.k \notin Text}

QueueOK ==
    /\ parser \in [q : Seq(Frame), phase : {"clear", "own", "open"}]
    /\ rx \in Seq(RxMsg)
    /\ tx \in Seq(TxMsg)

CountOK == dials \in 0..MaxDials /\ stops \in 0..MaxStops /\ faults \in 0..MaxFaults

TypeInv ==
    PcOK /\ host \in HostType /\ QueueOK /\ peer \in PeerType /\ CountOK /\ hist \in HistType

LEMMA TypeInit == Init => TypeInv
<1> SUFFICES ASSUME Init PROVE TypeInv
  OBVIOUS
<1> USE DEF Init
<1>1. PcOK
  BY DEF PcOK, Thread, RunPc, ConPc
<1>2. host \in HostType
  BY DEF HostType, Fresh, Attempts
<1>3. QueueOK
  BY DEF QueueOK
<1>4. peer \in PeerType
  BY PppAssumption DEF PeerType, NoPeer
<1>5. CountOK
  BY PppAssumption DEF CountOK
<1>6. hist \in HistType
  BY DEF HistType
<1> QED
  BY <1>1, <1>2, <1>3, <1>4, <1>5, <1>6 DEF TypeInv

(* A thread goes to a label of its own.                                     *)
LEMMA Moves ==
    ASSUME PcOK, NEW t \in Thread, NEW l, Goto(t, l),
           t = "run" => l \in RunPc, t = "con" => l \in ConPc
    PROVE  PcOK'
BY DEF PcOK, Goto, Thread

LEMMA PcNext ==
    ASSUME TypeInv, [Next]_vars
    PROVE  PcOK'
<1>0. PcOK /\ {"run", "con"} \subseteq Thread
  BY DEF TypeInv, Thread
<1>1. ASSUME UNCHANGED pc PROVE PcOK'
  BY <1>0, <1>1 DEF PcOK
<1>2. ASSUME NEW l \in RunPc, Goto("run", l) PROVE PcOK'
  BY <1>0, <1>2, Moves
<1>3. ASSUME NEW l \in ConPc, Goto("con", l) PROVE PcOK'
  BY <1>0, <1>3, Moves
<1>4. /\ {"none", "boot", "lcp", "grace", "auth", "released", "ipcp", "tun", "idle", "d_tun"}
            \subseteq RunPc
      /\ {"none", "flag", "join", "d_tun"} \subseteq ConPc
      /\ DiscPc \subseteq RunPc /\ DiscPc \subseteq ConPc
      /\ {"d_tun", "d_join", "d_term", "d_esc", "d_nc", "d_ok"} \subseteq DiscPc
  BY DEF RunPc, ConPc, DiscPc
<1>5. CASE RunStep
  BY <1>1, <1>2, <1>4, <1>5 DEF RunStep, Boot, LcpWait, Grace, AfterGrace, AskIpcp, PapSend,
     AuthOver, AuthReleased, IpcpWait, StartTun, RunLoopEnds
<1>6. CASE Dial \/ CallStop \/ LinkDown \/ StopStep
  BY <1>2, <1>3, <1>4, <1>6 DEF Dial, CallStop, LinkDown, Stop, StopStep, StopFlag, StopEnd
<1>7. ASSUME NEW t \in Thread, DiscStep(t) PROVE PcOK'
  <2>1. ASSUME NEW l \in DiscPc \union {After(t)}, Goto(t, l) PROVE PcOK'
    BY <1>0, <1>4, <2>1, Moves DEF After, Thread
  <2> QED
    BY <1>1, <1>4, <1>7, <2>1 DEF DiscStep, DiscTun, DiscJoin, DiscFeed, DiscTerm, DiscEsc,
       DiscCarrier, DiscOk, Terminate, Escape
<1>8. CASE DialFails \/ Engine \/ Reader \/ FwdStep
  BY <1>1, <1>8 DEF DialFails, Engine, Reader, FwdStep, FwdRead, FwdEnd, FwdSend
<1>9. CASE PeerStep \/ Lose \/ PeerLeaves \/ LinkReset \/ UNCHANGED vars
  BY <1>1, <1>9 DEF PeerStep, PeerDue, PeerData, ModemStep, Lose, PeerLeaves, LinkReset, vars
<1> QED
  BY <1>5, <1>6, <1>7, <1>8, <1>9 DEF Next

(* Each field may be given any value of its type.                           *)
LEMMA HostUpdates ==
    ASSUME NEW h \in HostType
    PROVE
        /\ \A v \in BOOLEAN : [h EXCEPT !.running = v] \in HostType
        /\ \A v \in BOOLEAN : [h EXCEPT !.pppRunning = v] \in HostType
        /\ \A v \in BOOLEAN : [h EXCEPT !.dialing = v] \in HostType
        /\ \A v \in BOOLEAN : [h EXCEPT !.lcpUp = v] \in HostType
        /\ \A v \in BOOLEAN : [h EXCEPT !.authUp = v] \in HostType
        /\ \A v \in {"none", "pap", "chap"} : [h EXCEPT !.auth = v] \in HostType
        /\ \A v \in BOOLEAN : [h EXCEPT !.failed = v] \in HostType
        /\ \A v \in BOOLEAN : [h EXCEPT !.seen = v] \in HostType
        /\ \A v \in BOOLEAN : [h EXCEPT !.naked = v] \in HostType
        /\ \A v \in SUBSET {"nocomp", "mru"} : [h EXCEPT !.lcpOpts = v] \in HostType
        /\ \A v \in BOOLEAN : [h EXCEPT !.ip = v] \in HostType
        /\ \A v \in SUBSET {"ip", "nonb"} : [h EXCEPT !.ipcpOpts = v] \in HostType
        /\ \A v \in BOOLEAN : [h EXCEPT !.ipcpUp = v] \in HostType
        /\ \A v \in 0..Attempts : [h EXCEPT !.tries = v] \in HostType
        /\ \A v \in {"none", "on", "stopping"} : [h EXCEPT !.tun = v] \in HostType
        /\ \A v \in {"off", "read", "send"} : [h EXCEPT !.fwd = v] \in HostType
        /\ \A v \in BOOLEAN : [h EXCEPT !.ready = v] \in HostType
        /\ \A v \in BOOLEAN : [h EXCEPT !.lost = v] \in HostType
<1>1. \A v \in BOOLEAN : [h EXCEPT !.running = v] \in HostType
  BY DEF HostType
<1>2. \A v \in BOOLEAN : [h EXCEPT !.pppRunning = v] \in HostType
  BY DEF HostType
<1>3. \A v \in BOOLEAN : [h EXCEPT !.dialing = v] \in HostType
  BY DEF HostType
<1>4. \A v \in BOOLEAN : [h EXCEPT !.lcpUp = v] \in HostType
  BY DEF HostType
<1>5. \A v \in BOOLEAN : [h EXCEPT !.authUp = v] \in HostType
  BY DEF HostType
<1>6. \A v \in {"none", "pap", "chap"} : [h EXCEPT !.auth = v] \in HostType
  BY DEF HostType
<1>7. \A v \in BOOLEAN : [h EXCEPT !.failed = v] \in HostType
  BY DEF HostType
<1>8. \A v \in BOOLEAN : [h EXCEPT !.seen = v] \in HostType
  BY DEF HostType
<1>9. \A v \in BOOLEAN : [h EXCEPT !.naked = v] \in HostType
  BY DEF HostType
<1>10. \A v \in SUBSET {"nocomp", "mru"} : [h EXCEPT !.lcpOpts = v] \in HostType
  BY DEF HostType
<1>11. \A v \in BOOLEAN : [h EXCEPT !.ip = v] \in HostType
  BY DEF HostType
<1>12. \A v \in SUBSET {"ip", "nonb"} : [h EXCEPT !.ipcpOpts = v] \in HostType
  BY DEF HostType
<1>13. \A v \in BOOLEAN : [h EXCEPT !.ipcpUp = v] \in HostType
  BY DEF HostType
<1>14. \A v \in 0..Attempts : [h EXCEPT !.tries = v] \in HostType
  BY DEF HostType
<1>15. \A v \in {"none", "on", "stopping"} : [h EXCEPT !.tun = v] \in HostType
  BY DEF HostType
<1>16. \A v \in {"off", "read", "send"} : [h EXCEPT !.fwd = v] \in HostType
  BY DEF HostType
<1>17. \A v \in BOOLEAN : [h EXCEPT !.ready = v] \in HostType
  BY DEF HostType
<1>18. \A v \in BOOLEAN : [h EXCEPT !.lost = v] \in HostType
  BY DEF HostType
<1> QED
  BY <1>1, <1>2, <1>3, <1>4, <1>5, <1>6, <1>7, <1>8, <1>9,
     <1>10, <1>11, <1>12, <1>13, <1>14, <1>15, <1>16, <1>17, <1>18

LEMMA EndTypes ==
    ASSUME NEW h \in HostType
    PROVE  [h EXCEPT !.running = FALSE, !.pppRunning = FALSE] \in HostType
<1>1. [h EXCEPT !.running = FALSE] \in HostType
  BY HostUpdates
<1> QED
  BY <1>1, HostUpdates

LEMMA ResetTypes ==
    ASSUME NEW h \in HostType
    PROVE  Reset(h) \in HostType
<1> DEFINE h1 == [Fresh EXCEPT !.running = TRUE]
           h2 == [h1 EXCEPT !.pppRunning = TRUE]
           h3 == [h2 EXCEPT !.dialing = h.dialing]
           h4 == [h3 EXCEPT !.lcpOpts = h.lcpOpts \ {"nocomp"}]
           h5 == [h4 EXCEPT !.tun = h.tun]
           h6 == [h5 EXCEPT !.fwd = h.fwd]
           h7 == [h6 EXCEPT !.ready = h.ready]
           h8 == [h7 EXCEPT !.lost = h.lost]
<1>0. /\ h.dialing \in BOOLEAN /\ h.lcpOpts \ {"nocomp"} \in SUBSET {"nocomp", "mru"}
      /\ h.tun \in {"none", "on", "stopping"} /\ h.fwd \in {"off", "read", "send"}
      /\ h.ready \in BOOLEAN /\ h.lost \in BOOLEAN
  BY DEF HostType
<1>1. Fresh \in HostType
  BY DEF Fresh, HostType, Attempts
<1> HIDE DEF h1, h2, h3, h4, h5, h6, h7, h8
<1>2. h1 \in HostType
  BY <1>1, HostUpdates DEF h1
<1>3. h2 \in HostType
  BY <1>2, HostUpdates DEF h2
<1>4. h3 \in HostType
  BY <1>0, <1>3, HostUpdates DEF h3
<1>5. h4 \in HostType
  BY <1>0, <1>4, HostUpdates DEF h4
<1>6. h5 \in HostType
  BY <1>0, <1>5, HostUpdates DEF h5
<1>7. h6 \in HostType
  BY <1>0, <1>6, HostUpdates DEF h6
<1>8. h7 \in HostType
  BY <1>0, <1>7, HostUpdates DEF h7
<1>9. h8 \in HostType
  BY <1>0, <1>8, HostUpdates DEF h8
<1>10. h8 = Reset(h)
  BY DEF Reset, h1, h2, h3, h4, h5, h6, h7, h8
<1> QED
  BY <1>9, <1>10

LEMMA HostNext ==
    ASSUME TypeInv, [Next]_vars
    PROVE  host' \in HostType
<1>0. host \in HostType
  BY DEF TypeInv
<1>1. ASSUME UNCHANGED host PROVE host' \in HostType
  BY <1>0, <1>1
<1>2. CASE RunStep
  <2>1. CASE Boot
    BY <1>0, <2>1, ResetTypes DEF Boot
  <2>2. CASE LcpWait
    BY <1>0, <2>2, EndTypes DEF LcpWait, RunEnds
  <2>8. CASE AuthReleased
    <3>1. [host EXCEPT !.dialing = FALSE] \in HostType
      BY <1>0, HostUpdates
    <3> QED
      BY <2>8, <3>1, EndTypes DEF AuthReleased, RunEnds
  <2>3. CASE PapSend
    <3>1. host.tries + 1 \in 0 .. Attempts
      BY <1>0, <2>3 DEF PapSend, Attempts, HostType
    <3> QED
      BY <1>0, <2>3, <3>1, HostUpdates DEF PapSend
  <2>4. CASE AuthOver
    BY <1>0, <2>4, HostUpdates DEF AuthOver
  <2>5. CASE IpcpWait
    BY <1>0, <2>5, EndTypes, HostUpdates DEF IpcpWait, RunEnds
  <2>6. CASE StartTun
    BY <1>0, <2>6, HostUpdates DEF StartTun
  <2>7. CASE Grace \/ RunLoopEnds
    BY <1>1, <2>7 DEF Grace, RunLoopEnds
  <2> QED
    BY <1>2, <2>1, <2>2, <2>3, <2>4, <2>5, <2>6, <2>7, <2>8 DEF RunStep
<1>3. CASE Engine
  <2>1. PICK m \in Frame :
            HandleLcp(host, m) \/ HandleAuth(host, m) \/ HandleIpcp(host, m) \/ Silent(host)
    <3>1. parser.q # <<>> /\ parser.q \in Seq(Frame)
      BY <1>3 DEF Engine, TypeInv, QueueOK
    <3> QED
      BY <1>3, <3>1 DEF Engine
  <2>2. CASE Silent(host)
    BY <1>0, <2>2 DEF Silent
  <2>3. CASE HandleAuth(host, m)
    BY <1>0, <2>3, HostUpdates DEF HandleAuth, Silent, Reply
  <2>4. CASE HandleIpcp(host, m)
    <3> DEFINE o == host.ipcpOpts \union {IF m.k = "IREJ" THEN "nonb" ELSE "ip"}
               g == [host EXCEPT !.ipcpOpts = o]
               u == [host EXCEPT !.ipcpUp = TRUE]
    <3>1. o \in SUBSET {"ip", "nonb"} /\ (g.ip \/ m.k = "INAK") \in BOOLEAN
      BY <1>0 DEF HostType
    <3> HIDE DEF o
    <3>2. g \in HostType /\ u \in HostType
      BY <1>0, <3>1, HostUpdates
    <3> HIDE DEF g, u
    <3>3. [g EXCEPT !.ip = g.ip \/ m.k = "INAK"] \in HostType
      BY <3>1, <3>2, HostUpdates
    <3>4. host' \in {host, u, [g EXCEPT !.ip = g.ip \/ m.k = "INAK"]}
      BY <2>4 DEF HandleIpcp, Silent, Reply, g, o, u
    <3> QED
      BY <1>0, <3>2, <3>3, <3>4
  <2>5. CASE m.k = "LREQ" /\ PeerRequest(host, m.a)
    BY <1>0, <2>5, HostUpdates DEF PeerRequest, Reply
  <2>6. CASE HandleLcp(host, m) /\ m.k # "LREQ"
    <3> DEFINE o == host.lcpOpts \union {IF m.k = "LREJ" THEN "nocomp" ELSE "mru"}
    <3>1. o \in SUBSET {"nocomp", "mru"}
      BY <1>0 DEF HostType
    <3>2. host' = [host EXCEPT !.lcpOpts = o] \/ \E v \in BOOLEAN : host' = [host EXCEPT !.lcpUp = v]
      BY <2>6 DEF HandleLcp, Silent, Reply
    <3> HIDE DEF o
    <3> QED
      BY <1>0, <3>1, <3>2, HostUpdates
  <2> QED
    BY <2>1, <2>2, <2>3, <2>4, <2>5, <2>6 DEF HandleLcp
<1>4. CASE Dial \/ DialFails
  <2>1. [host EXCEPT !.running = TRUE] \in HostType /\ [host EXCEPT !.pppRunning = FALSE] \in HostType
    BY <1>0, HostUpdates
  <2>2. [host EXCEPT !.running = TRUE, !.pppRunning = TRUE] \in HostType
    BY <2>1, HostUpdates
  <2> QED
    BY <1>4, <2>1, <2>2 DEF Dial, DialFails
<1>5. ASSUME NEW b \in BOOLEAN, Stop(b) PROVE host' \in HostType
  BY <1>0, <1>5, HostUpdates DEF Stop
<1>6. CASE StopFlag
  BY <1>0, <1>6, HostUpdates DEF StopFlag
<1>7. CASE StopEnd
  <2>1. (host.pppRunning /\ host.lost) \in BOOLEAN
    OBVIOUS
  <2> QED
    BY <1>0, <1>7, <2>1, HostUpdates DEF StopEnd
<1>8. CASE FwdStep
  BY <1>0, <1>8, HostUpdates DEF FwdStep, FwdRead, FwdEnd, FwdSend
<1>9. ASSUME NEW t \in Thread, DiscStep(t) PROVE host' \in HostType
  <2>1. CASE DiscTun(t) \/ DiscJoin(t)
    BY <1>0, <2>1, HostUpdates DEF DiscTun, DiscJoin
  <2>2. CASE DiscFeed(t) \/ DiscTerm(t) \/ DiscEsc(t) \/ DiscCarrier(t) \/ DiscOk(t)
    BY <1>1, <2>2 DEF DiscFeed, DiscTerm, DiscEsc, DiscCarrier, DiscOk
  <2> QED
    BY <1>9, <2>1, <2>2 DEF DiscStep
<1>10. CASE Reader \/ PeerStep \/ Lose \/ PeerLeaves \/ LinkReset \/ UNCHANGED vars
  BY <1>1, <1>10 DEF Reader, PeerStep, PeerDue, PeerData, ModemStep, Lose, PeerLeaves, LinkReset, vars
<1> QED
  BY <1>2, <1>3, <1>4, <1>5, <1>6, <1>7, <1>8, <1>9, <1>10
     DEF Next, StopStep, CallStop, LinkDown

(* What the host, the peer and the reader put in a queue is a message.      *)
LEMMA QueueNext ==
    ASSUME TypeInv, [Next]_vars
    PROVE  QueueOK'
<1>0. /\ parser \in [q : Seq(Frame), phase : {"clear", "own", "open"}]
      /\ parser.q \in Seq(Frame) /\ parser.phase \in {"clear", "own", "open"}
      /\ rx \in Seq(RxMsg) /\ tx \in Seq(TxMsg)
      /\ host \in HostType /\ peer \in PeerType
  BY DEF TypeInv, QueueOK
<1>1. ASSUME UNCHANGED <<parser, rx, tx>> PROVE QueueOK'
  BY <1>0, <1>1 DEF QueueOK
<1>2. ASSUME NEW k \in HostKind, NEW a \in SUBSET Option, Say(k, a) PROVE tx' \in Seq(TxMsg)
  <2>1. Msg(k, a) \in TxMsg
    BY DEF Msg, TxMsg
  <2> QED
    BY <1>0, <1>2, <2>1 DEF Say
<1>3. ASSUME UNCHANGED <<parser, rx>>, tx' \in Seq(TxMsg) PROVE QueueOK'
  BY <1>0, <1>3 DEF QueueOK
<1>4. /\ {"LREQ", "LACK", "LNAK", "TERM", "TERMACK", "PAP", "RESP", "IREQ", "IACK",
          "IP", "ESC", "ATH"} = HostKind
      /\ {} \in SUBSET Option /\ host.lcpOpts \in SUBSET Option /\ host.ipcpOpts \in SUBSET Option
  BY <1>0 DEF HostKind, Option, HostType
<1>5. ASSUME Feed PROVE parser' \in [q : Seq(Frame), phase : {"clear", "own", "open"}]
                        /\ rx' \in Seq(RxMsg)
  <2> DEFINE m == Head(rx)
  <2>1. m \in RxMsg /\ Tail(rx) \in Seq(RxMsg)
    BY <1>0, <1>5 DEF Feed
  <2>2. ASSUME Divided(m), rx' = <<Msg("IP", {"rest"})>> \o Tail(rx), parser' = FirstPart(parser)
        PROVE  parser' \in [q : Seq(Frame), phase : {"clear", "own", "open"}]
               /\ rx' \in Seq(RxMsg)
    <3>1. Msg("IP", {"rest"}) \in RxMsg
      BY DEF Msg, RxMsg, PeerKind, Option
    <3> HIDE DEF m
    <3>2. <<Msg("IP", {"rest"})>> \in Seq(RxMsg)
      BY <3>1
    <3>3. rx' \in Seq(RxMsg)
      BY <2>1, <2>2, <3>2
    <3> QED
      BY <1>0, <2>2, <3>3 DEF FirstPart
  <2>3. ASSUME rx' = Tail(rx), m.a = {"rest"}, parser' = LastPart(parser, m)
        PROVE  parser' \in [q : Seq(Frame), phase : {"clear", "own", "open"}]
    <3>1. m \in Frame
      BY <2>1, <2>3 DEF RxMsg, Frame, Text
    <3> HIDE DEF m
    <3> QED
      BY <1>0, <2>3, <3>1 DEF LastPart
  <2>4. ASSUME rx' = Tail(rx), parser' = Whole(parser, m)
        PROVE  parser' \in [q : Seq(Frame), phase : {"clear", "own", "open"}]
    <3>1. m.k \notin Text => m \in Frame
      BY <2>1 DEF Frame
    <3>2. \/ parser' = parser \/ parser' = [parser EXCEPT !.phase = "open"]
          \/ m \in Frame /\ parser' = [parser EXCEPT !.q = Append(parser.q, m)]
      BY <2>4, <3>1 DEF Whole
    <3> HIDE DEF m
    <3>3. m \in Frame => Append(parser.q, m) \in Seq(Frame)
      BY <1>0
    <3> QED
      BY <1>0, <3>2, <3>3
  <2> QED
    BY <1>5, <2>1, <2>2, <2>3, <2>4 DEF Feed
<1>6. ASSUME Drop PROVE rx' \in Seq(RxMsg) /\ parser' = parser
  BY <1>0, <1>6 DEF Drop
<1>7. CASE RunStep
  <2>1. CASE Boot
    <3>1. host'.lcpOpts \in SUBSET Option
      BY HostNext DEF HostType, Option
    <3> QED
      BY <1>2, <1>3, <1>4, <2>1, <3>1 DEF Boot
  <2>2. CASE Grace \/ PapSend \/ AuthOver
    BY <1>1, <1>2, <1>3, <1>4, <2>2 DEF Grace, AfterGrace, AskIpcp, PapSend, AuthOver
  <2>3. CASE LcpWait \/ AuthReleased \/ IpcpWait \/ StartTun \/ RunLoopEnds
    BY <1>1, <2>3 DEF LcpWait, AuthReleased, IpcpWait, StartTun, RunLoopEnds
  <2> QED
    BY <1>7, <2>1, <2>2, <2>3 DEF RunStep
<1>8. CASE Engine
  <2>1. PICK m \in Frame : HandleLcp(host, m) \/ HandleAuth(host, m) \/ HandleIpcp(host, m)
                           \/ Silent(host)
    BY <1>0, <1>8 DEF Engine
  <2>2. parser' \in [q : Seq(Frame), phase : {"clear", "own", "open"}] /\ rx' = rx
    <3>1. parser' = [parser EXCEPT !.q = Tail(parser.q)] /\ Tail(parser.q) \in Seq(Frame)
      BY <1>0, <1>8 DEF Engine
    <3> QED
      BY <1>0, <1>8, <3>1 DEF Engine
  <2>3. \/ tx' = tx
        \/ \E k \in HostKind, a \in SUBSET Option : Say(k, a)
    <3>1. CASE HandleLcp(host, m)
      <4> DEFINE o == host.lcpOpts \union {IF m.k = "LREJ" THEN "nocomp" ELSE "mru"}
      <4>1. o \in SUBSET Option
        BY <1>0 DEF HostType, Option
      <4>2. tx' = tx \/ Say("LREQ", o) \/ \E k \in {"LACK", "LNAK", "TERMACK"} : Say(k, {})
        BY <3>1 DEF HandleLcp, PeerRequest, Reply, Silent
      <4> HIDE DEF o
      <4> QED
        BY <1>4, <4>1, <4>2
    <3>2. CASE HandleIpcp(host, m)
      <4> DEFINE o == host.ipcpOpts \union {IF m.k = "IREJ" THEN "nonb" ELSE "ip"}
      <4>1. o \in SUBSET Option
        BY <1>0 DEF HostType, Option
      <4>2. tx' = tx \/ Say("IREQ", o) \/ Say("IACK", {})
        BY <3>2 DEF HandleIpcp, Reply, Silent
      <4> HIDE DEF o
      <4> QED
        BY <1>4, <4>1, <4>2
    <3>3. CASE HandleAuth(host, m) \/ Silent(host)
      BY <1>4, <3>3 DEF HandleAuth, Reply, Silent
    <3> QED
      BY <2>1, <3>1, <3>2, <3>3
  <2> QED
    BY <1>0, <1>2, <2>2, <2>3 DEF QueueOK
<1>9. CASE Reader
  BY <1>0, <1>5, <1>6, <1>9 DEF Reader, QueueOK
<1>10. ASSUME NEW t \in Thread, DiscStep(t) PROVE QueueOK'
  <2>1. CASE DiscTun(t) \/ DiscJoin(t)
    BY <1>1, <1>2, <1>3, <1>4, <2>1 DEF DiscTun, DiscJoin, Terminate
  <2>2. CASE DiscFeed(t)
    BY <1>0, <1>5, <2>2 DEF DiscFeed, QueueOK
  <2>3. CASE DiscTerm(t)
    BY <1>1, <2>3 DEF DiscTerm
  <2>4. CASE DiscEsc(t)
    <3>1. Msg("ESC", {}) \in TxMsg /\ Msg("ATH", {}) \in TxMsg
      BY DEF Msg, TxMsg, HostKind
    <3> DEFINE s == <<Msg("ESC", {}), Msg("ATH", {})>>
    <3>2. tx' = tx \/ Say("ESC", {}) \/ tx' = tx \o s
      BY <2>4 DEF DiscEsc, Escape
    <3>3. s \in Seq(TxMsg) /\ "ESC" \in HostKind
      BY <3>1 DEF HostKind
    <3> HIDE DEF s
    <3>4. tx \o s \in Seq(TxMsg)
      BY <1>0, <3>3
    <3>5. tx' \in Seq(TxMsg)
      <4>1. CASE Say("ESC", {})
        BY <1>2, <1>4, <3>3, <4>1
      <4> QED
        BY <1>0, <3>2, <3>4, <4>1
    <3> QED
      BY <1>3, <2>4, <3>5 DEF DiscEsc
  <2>5. CASE DiscCarrier(t) \/ DiscOk(t)
    <3>1. rx' \in Seq(RxMsg) /\ parser' = parser
      BY <1>0, <1>6, <2>5 DEF DiscCarrier, DiscOk, OtherText, GotText, NoText
    <3>2. tx' = tx \/ Say("ATH", {})
      BY <2>5 DEF DiscCarrier, DiscOk
    <3>3. tx' \in Seq(TxMsg)
      BY <1>0, <1>2, <1>4, <3>2
    <3> QED
      BY <1>0, <3>1, <3>3 DEF QueueOK
  <2> QED
    BY <1>10, <2>1, <2>2, <2>3, <2>4, <2>5 DEF DiscStep
<1>11. CASE Dial \/ DialFails
  <2>1. rx' = <<>> /\ UNCHANGED <<parser, tx>>
    BY <1>11 DEF Dial, DialFails
  <2> QED
    BY <1>0, <2>1 DEF QueueOK
<1>12. CASE CallStop \/ LinkDown \/ StopStep
  BY <1>1, <1>12 DEF CallStop, LinkDown, Stop, StopStep, StopFlag, StopEnd
<1>13. CASE FwdStep
  BY <1>1, <1>2, <1>3, <1>4, <1>13 DEF FwdStep, FwdRead, FwdEnd, FwdSend
<1>14. CASE PeerStep
  <2>1. ASSUME NEW ms \in Seq(RxMsg), Tell(ms) PROVE rx' \in Seq(RxMsg)
    BY <1>0, <2>1 DEF Tell
  <2>2. ASSUME NEW k \in PeerKind, NEW a \in SUBSET Option, a # {"rest"}
        PROVE  Msg(k, a) \in RxMsg
    BY <2>2 DEF Msg, RxMsg
  <2>3. /\ {} \in SUBSET Option /\ {} # {"rest"} /\ {"pap"} \in SUBSET Option
        /\ {"pap"} # {"rest"} /\ {peer.alg} \in SUBSET Option /\ {peer.alg} # {"rest"}
    BY <1>0 DEF Option, PeerType
  <2>4. PeerKind = {"LREQ", "LACK", "LNAK", "LREJ", "TERM", "TERMACK", "PAPACK", "PAPNAK",
                    "CHAL", "SUCC", "FAIL", "IREQ", "IACK", "INAK", "IREJ", "IP",
                    "NOCARRIER", "OK"}
    BY DEF PeerKind, Text
  <2>5. ASSUME NEW k \in PeerKind, NEW a \in SUBSET Option, a # {"rest"}, Tell(<<Msg(k, a)>>)
        PROVE  rx' \in Seq(RxMsg)
    <3>1. Msg(k, a) \in RxMsg
      BY <2>2, <2>5
    <3>2. <<Msg(k, a)>> \in Seq(RxMsg)
      BY <3>1
    <3> QED
      BY <2>1, <2>5, <3>2
  <2>6. CASE PeerDue
    <3>1. \/ \E a \in {{}, {"pap"}, {peer.alg}} : Tell(<<Msg("LREQ", a)>>)
          \/ Tell(<<Msg("CHAL", {})>>)
      BY <2>6 DEF PeerDue
    <3>2. rx' \in Seq(RxMsg)
      BY <2>3, <2>4, <2>5, <3>1
    <3> QED
      BY <1>0, <2>6, <3>2 DEF PeerDue, QueueOK
  <2>7. CASE PeerData
    <3>1. Msg("IP", {}) \in RxMsg
      BY <2>2, <2>3, <2>4
    <3>2. <<Msg("IP", {})>> \in Seq(RxMsg)
      BY <3>1
    <3>3. rx' \in Seq(RxMsg)
      BY <2>1, <2>7, <3>2 DEF PeerData
    <3> QED
      BY <1>0, <2>7, <3>3 DEF PeerData, QueueOK
  <2>8. CASE ModemStep
    <3>1. tx' \in Seq(TxMsg) /\ parser' = parser
      BY <1>0, <2>8 DEF ModemStep
    <3>2. PICK c : ModemText(c) \/ PeerLcp(c) \/ PeerAuth(c) \/ PeerIpcp(c)
      BY <2>8 DEF ModemStep
    <3>3. ASSUME ModemText(c) PROVE rx' \in Seq(RxMsg)
      <4>1. UNCHANGED rx \/ Tell(<<Msg("OK", {})>>)
        BY <3>3 DEF ModemText
      <4> QED
        BY <1>0, <2>3, <2>4, <2>5, <4>1
    <3>4. ASSUME PeerLcp(c) PROVE rx' \in Seq(RxMsg)
      <4>1. CASE c.k = "LREQ"
        <5>1. peer.s \in Setup
          BY <1>0, PppAssumption DEF PeerType
        <5>2. (IF Objects(c.a) THEN peer.s.first ELSE "LACK") \in PeerKind
          BY <2>4, <5>1 DEF Setup
        <5>3. Tell(<<Msg(IF Objects(c.a) THEN peer.s.first ELSE "LACK", {})>>)
          BY <3>4, <4>1 DEF PeerLcp
        <5> QED
          BY <2>3, <2>5, <5>2, <5>3
      <4>2. CASE c.k = "TERM"
        <5>1. Msg("TERMACK", {}) \in RxMsg /\ Msg("NOCARRIER", {}) \in RxMsg
          BY <2>2, <2>3, <2>4
        <5>2. <<Msg("TERMACK", {}), Msg("NOCARRIER", {})>> \in Seq(RxMsg)
          BY <5>1
        <5>3. Tell(<<Msg("TERMACK", {}), Msg("NOCARRIER", {})>>)
          BY <3>4, <4>2 DEF PeerLcp
        <5> QED
          BY <2>1, <5>2, <5>3
      <4>3. CASE c.k \notin {"LREQ", "TERM"}
        <5>1. UNCHANGED rx \/ Tell(<<Msg("NOCARRIER", {})>>)
          BY <3>4, <4>3 DEF PeerLcp
        <5> QED
          BY <1>0, <2>3, <2>4, <2>5, <5>1
      <4> QED
        BY <4>1, <4>2, <4>3
    <3>5. ASSUME PeerAuth(c) PROVE rx' \in Seq(RxMsg)
      <4>1. UNCHANGED rx \/ \E k \in {"PAPACK", "PAPNAK", "SUCC", "FAIL"} : Tell(<<Msg(k, {})>>)
        BY <3>5 DEF PeerAuth
      <4> QED
        BY <1>0, <2>3, <2>4, <2>5, <4>1
    <3>6. ASSUME PeerIpcp(c) PROVE rx' \in Seq(RxMsg)
      <4>1. \/ UNCHANGED rx
            \/ \E r \in {"IREJ", "INAK", "IACK"} :
                   Tell(<<Msg(r, {})>>) \/ Tell(<<Msg("IREQ", {}), Msg(r, {})>>)
        BY <3>6 DEF PeerIpcp
      <4>2. ASSUME NEW r \in {"IREJ", "INAK", "IACK"}, Tell(<<Msg("IREQ", {}), Msg(r, {})>>)
            PROVE  rx' \in Seq(RxMsg)
        <5>1. Msg("IREQ", {}) \in RxMsg /\ Msg(r, {}) \in RxMsg
          BY <2>2, <2>3, <2>4
        <5>2. <<Msg("IREQ", {}), Msg(r, {})>> \in Seq(RxMsg)
          BY <5>1
        <5> QED
          BY <2>1, <4>2, <5>2
      <4> QED
        BY <1>0, <2>3, <2>4, <2>5, <4>1, <4>2
    <3>7. rx' \in Seq(RxMsg)
      BY <3>2, <3>3, <3>4, <3>5, <3>6
    <3> QED
      BY <1>0, <3>1, <3>7 DEF QueueOK
  <2> QED
    BY <1>14, <2>6, <2>7, <2>8 DEF PeerStep
<1>15. CASE Lose
  <2>1. /\ rx # <<>> => Tail(rx) \in Seq(RxMsg)
        /\ tx # <<>> => Tail(tx) \in Seq(TxMsg)
    BY <1>0
  <2>2. rx' \in {rx, Tail(rx)} /\ tx' \in {tx, Tail(tx)} /\ parser' = parser
        /\ (rx' = rx \/ rx # <<>>) /\ (tx' = tx \/ tx # <<>>)
    BY <1>15 DEF Lose
  <2> QED
    BY <1>0, <2>1, <2>2 DEF QueueOK
<1>16. CASE PeerLeaves
  <2>1. Msg("TERM", {}) \in RxMsg
    BY DEF Msg, RxMsg, PeerKind, Option
  <2>2. rx' \in Seq(RxMsg)
    BY <1>0, <1>16, <2>1 DEF PeerLeaves, Tell
  <2> QED
    BY <1>0, <1>16, <2>2 DEF PeerLeaves, QueueOK
<1>17. CASE LinkReset
  BY <1>0, <1>17 DEF LinkReset, QueueOK
<1>18. CASE UNCHANGED vars
  BY <1>1, <1>18 DEF vars
<1> QED
  BY <1>7, <1>8, <1>9, <1>10, <1>11, <1>12, <1>13, <1>14, <1>15, <1>16, <1>17, <1>18 DEF Next

(* The peer.                                                                *)
LEMMA PeerNext ==
    ASSUME TypeInv, [Next]_vars
    PROVE  peer' \in PeerType
<1>0. peer \in PeerType
  BY DEF TypeInv
<1>1. ASSUME UNCHANGED peer PROVE peer' \in PeerType
  BY <1>0, <1>1
<1>2. CASE Dial
  <2>1. PICK s \in Setups : peer' = [NoPeer EXCEPT !.mode = "data", !.s = s,
                                     !.alg = IF s.auth = "md5" THEN "md5" ELSE "other"]
    BY <1>2 DEF Dial
  <2>2. peer' = [mode |-> "data", s |-> s, alg |-> IF s.auth = "md5" THEN "md5" ELSE "other",
                 acked |-> FALSE, heard |-> FALSE, asks |-> 0,
                 authd |-> FALSE, asked |-> FALSE, chal |-> 0,
                 agreed |-> FALSE, ipAsked |-> FALSE, data |-> 0]
    BY <2>1 DEF NoPeer
  <2> QED
    BY <2>2 DEF PeerType
<1>3. CASE PeerDue
  <2> DEFINE g == [peer EXCEPT !.asks = peer.asks + 1]
  <2>1. g \in PeerType /\ [peer EXCEPT !.chal = peer.chal + 1] \in PeerType
    BY <1>0 DEF PeerType
  <2>2. peer' = [peer EXCEPT !.chal = peer.chal + 1] \/ \E b \in BOOLEAN : peer' = [g EXCEPT !.asked = b]
    BY <1>3 DEF PeerDue
  <2> HIDE DEF g
  <2>3. \A b \in BOOLEAN : [g EXCEPT !.asked = b] \in PeerType
    BY <2>1 DEF PeerType
  <2> QED
    BY <2>1, <2>2, <2>3
<1>4. CASE PeerData \/ LinkReset
  BY <1>0, <1>4 DEF PeerData, LinkReset, PeerType
<1>5. CASE ModemStep
  <2>1. PICK c : ModemText(c) \/ PeerLcp(c) \/ PeerAuth(c) \/ PeerIpcp(c)
    BY <1>5 DEF ModemStep
  <2>2. CASE ModemText(c)
    BY <1>0, <2>2 DEF ModemText, PeerType
  <2>3. CASE PeerLcp(c)
    <3> DEFINE g == [peer EXCEPT !.asks = 0]
    <3>1. /\ \A b \in BOOLEAN : [peer EXCEPT !.acked = b] \in PeerType
          /\ [peer EXCEPT !.heard = TRUE] \in PeerType
          /\ [peer EXCEPT !.mode = "cmd"] \in PeerType
          /\ g \in PeerType
      BY <1>0 DEF PeerType
    <3>2. \/ \E b \in BOOLEAN : peer' = [peer EXCEPT !.acked = b]
          \/ peer' = [peer EXCEPT !.heard = TRUE]
          \/ peer' = [peer EXCEPT !.mode = "cmd"]
          \/ \E x \in {"md5", g.alg} : peer' = [g EXCEPT !.alg = x]
      BY <2>3 DEF PeerLcp
    <3> HIDE DEF g
    <3>3. \A x \in {"md5", g.alg} : [g EXCEPT !.alg = x] \in PeerType
      BY <3>1 DEF PeerType
    <3> QED
      BY <3>1, <3>2, <3>3
  <2>4. CASE PeerAuth(c)
    BY <1>0, <2>4 DEF PeerAuth, PeerType
  <2>5. CASE PeerIpcp(c)
    BY <1>0, <2>5 DEF PeerIpcp, PeerType
  <2> QED
    BY <2>1, <2>2, <2>3, <2>4, <2>5
<1>6. CASE DialFails \/ CallStop \/ LinkDown \/ StopStep \/ Engine \/ Reader \/ FwdStep
  BY <1>1, <1>6 DEF DialFails, CallStop, LinkDown, Stop, StopStep, StopFlag, StopEnd, Engine,
     Reader, FwdStep, FwdRead, FwdEnd, FwdSend
<1>7. CASE RunStep
  BY <1>1, <1>7 DEF RunStep, Boot, LcpWait, Grace, PapSend, AuthOver, AuthReleased, IpcpWait,
     StartTun, RunLoopEnds
<1>8. ASSUME NEW t \in Thread, DiscStep(t) PROVE peer' \in PeerType
  BY <1>1, <1>8 DEF DiscStep, DiscTun, DiscJoin, DiscFeed, DiscTerm, DiscEsc, DiscCarrier, DiscOk
<1>9. CASE Lose \/ PeerLeaves \/ UNCHANGED vars
  BY <1>1, <1>9 DEF Lose, PeerLeaves, vars
<1> QED
  BY <1>2, <1>3, <1>4, <1>5, <1>6, <1>7, <1>8, <1>9 DEF Next, PeerStep

(* The bounds.                                                              *)
LEMMA CountNext ==
    ASSUME TypeInv, [Next]_vars
    PROVE  CountOK' /\ faults' >= faults
<1>0. /\ dials \in 0..MaxDials /\ stops \in 0..MaxStops /\ faults \in 0..MaxFaults
      /\ MaxDials \in Nat /\ MaxStops \in Nat /\ MaxFaults \in Nat
  BY PppAssumption DEF TypeInv, CountOK
<1>1. ASSUME UNCHANGED <<dials, stops>>, Fault \/ NoFault PROVE CountOK' /\ faults' >= faults
  BY <1>0, <1>1 DEF CountOK, Fault, NoFault
<1>2. ASSUME Deadline PROVE Fault \/ NoFault
  BY <1>2 DEF Deadline
<1>3. CASE Dial
  BY <1>0, <1>3 DEF Dial, CanDial, NoFault, CountOK
<1>4. CASE CallStop \/ LinkDown
  BY <1>0, <1>4 DEF CallStop, LinkDown, Stop, NoFault, CountOK
<1>5. CASE RunStep
  BY <1>1, <1>2, <1>5 DEF RunStep, Boot, LcpWait, Grace, PapSend, AuthOver, AuthReleased, IpcpWait,
     StartTun, RunLoopEnds
<1>6. CASE DialFails \/ StopStep \/ Engine \/ Reader \/ FwdStep
  BY <1>1, <1>6 DEF DialFails, StopStep, StopFlag, StopEnd, Engine, Reader, FwdStep, FwdRead,
     FwdEnd, FwdSend
<1>7. ASSUME NEW t \in Thread, DiscStep(t) PROVE CountOK' /\ faults' >= faults
  BY <1>1, <1>2, <1>7 DEF DiscStep, DiscTun, DiscJoin, DiscFeed, DiscTerm, DiscEsc, DiscCarrier,
     DiscOk, OtherText, GotText, NoText
<1>8. CASE PeerStep \/ Lose \/ PeerLeaves \/ LinkReset
  BY <1>1, <1>8 DEF PeerStep, PeerDue, PeerData, ModemStep, Lose, PeerLeaves, LinkReset
<1>9. CASE UNCHANGED vars
  BY <1>1, <1>9 DEF vars, NoFault
<1> QED
  BY <1>3, <1>4, <1>5, <1>6, <1>7, <1>8, <1>9 DEF Next

(* The history variables.                                                   *)
LEMMA HistNext ==
    ASSUME TypeInv, [Next]_vars
    PROVE  hist' \in HistType
<1>0. hist \in HistType /\ faults \in Nat /\ stops \in Nat /\ host \in HostType
  BY PppAssumption DEF TypeInv, CountOK
<1>1. ASSUME UNCHANGED hist PROVE hist' \in HistType
  BY <1>0, <1>1
<1>2. CASE Dial
  <2>1. (parser = [q |-> <<>>, phase |-> "clear"]) \in BOOLEAN
    OBVIOUS
  <2> QED
    BY <1>0, <1>2, <2>1 DEF Dial, HistType
<1>3. CASE CallStop \/ LinkDown
  <2> DEFINE h1 == [hist EXCEPT !.mark = faults]
             h2 == [h1 EXCEPT !.up = pc["run"] = "idle"]
             h3 == [h2 EXCEPT !.lcp = FALSE]
             h4 == [h3 EXCEPT !.late = 0]
  <2>1. hist' = h4
    BY <1>3 DEF CallStop, LinkDown, Stop
  <2>2. h1 \in HistType
    BY <1>0 DEF HistType
  <2> HIDE DEF h1
  <2>3. h2 \in HistType
    BY <2>2 DEF HistType
  <2> HIDE DEF h2
  <2>4. h3 \in HistType
    BY <2>3 DEF HistType
  <2> HIDE DEF h3
  <2>5. h4 \in HistType
    BY <2>4 DEF HistType
  <2> QED
    BY <2>1, <2>5
<1>4. CASE FwdStep
  BY <1>0, <1>1, <1>4 DEF FwdStep, FwdRead, FwdEnd, FwdSend, HistType
<1>5. ASSUME NEW t \in Thread, DiscStep(t) PROVE hist' \in HistType
  <2>1. ASSUME Terminate(t) PROVE hist' \in HistType
    BY <1>0, <2>1 DEF Terminate, HistType, HostType
  <2> QED
    BY <1>1, <1>5, <2>1 DEF DiscStep, DiscTun, DiscJoin, DiscFeed, DiscTerm, DiscEsc, DiscCarrier,
       DiscOk
<1>6. CASE DialFails \/ StopStep \/ Engine \/ Reader
  BY <1>1, <1>6 DEF DialFails, StopStep, StopFlag, StopEnd, Engine, Reader
<1>7. CASE RunStep
  BY <1>1, <1>7 DEF RunStep, Boot, LcpWait, Grace, PapSend, AuthOver, AuthReleased, IpcpWait,
     StartTun, RunLoopEnds
<1>8. CASE PeerStep \/ Lose \/ PeerLeaves \/ LinkReset \/ UNCHANGED vars
  BY <1>1, <1>8 DEF PeerStep, PeerDue, PeerData, ModemStep, Lose, PeerLeaves, LinkReset, vars
<1> QED
  BY <1>2, <1>3, <1>4, <1>5, <1>6, <1>7, <1>8 DEF Next

LEMMA TypeInvImplies == TypeInv => TypeOK
<1> SUFFICES ASSUME TypeInv PROVE TypeOK
  OBVIOUS
<1>1. \A i \in DOMAIN parser.q : parser.q[i].k \in PeerKind \ Text
  BY DEF TypeInv, QueueOK, Frame, RxMsg
<1>2. \A i \in DOMAIN rx : rx[i].k \in PeerKind
  BY DEF TypeInv, QueueOK, RxMsg
<1>3. \A i \in DOMAIN tx : tx[i].k \in HostKind
  <2>1. tx \in Seq(TxMsg) /\ \A m \in TxMsg : m.k \in HostKind
    BY DEF TypeInv, QueueOK, TxMsg
  <2> QED
    BY <2>1
<1>4. parser.phase \in {"clear", "own", "open"}
  BY DEF TypeInv, QueueOK
<1>5. peer.mode \in {"cmd", "data", "held", "reset"} /\ peer.s \in Setups
  BY DEF TypeInv, PeerType
<1> QED
  BY <1>1, <1>2, <1>3, <1>4, <1>5 DEF TypeInv, TypeOK, PcOK, HostType, CountOK

LEMMA TypeNext == TypeInv /\ [Next]_vars => TypeInv'
<1> SUFFICES ASSUME TypeInv, [Next]_vars PROVE TypeInv'
  OBVIOUS
<1> QED
  BY PcNext, HostNext, QueueNext, PeerNext, CountNext, HistNext DEF TypeInv

LEMMA TypeInvariant == Spec => []TypeInv
<1> QED
  BY TypeInit, TypeNext, PTL DEF Spec

(* Every variable keeps its type, and the queues hold what the two ends say *)
(* (PppService, PppParser and the peer).                                    *)
THEOREM TypeCorrect == Spec => []TypeOK
<1> QED
  BY TypeInvariant, TypeInvImplies, PTL

-----------------------------------------------------------------------------
(* The engine leaves to the other threads what is theirs                    *)

Threads(h) == <<h.running, h.pppRunning, h.dialing, h.tries, h.tun, h.fwd, h.ready, h.lost>>

LEMMA EngineUpdates ==
    ASSUME NEW h \in HostType
    PROVE
        /\ \A v \in BOOLEAN : Threads([h EXCEPT !.lcpUp = v]) = Threads(h)
        /\ \A v \in BOOLEAN : Threads([h EXCEPT !.authUp = v]) = Threads(h)
        /\ \A v \in {"none", "pap", "chap"} : Threads([h EXCEPT !.auth = v]) = Threads(h)
        /\ \A v \in BOOLEAN : Threads([h EXCEPT !.failed = v]) = Threads(h)
        /\ \A v \in BOOLEAN : Threads([h EXCEPT !.seen = v]) = Threads(h)
        /\ \A v \in BOOLEAN : Threads([h EXCEPT !.naked = v]) = Threads(h)
        /\ \A v : Threads([h EXCEPT !.lcpOpts = v]) = Threads(h)
        /\ \A v \in BOOLEAN : Threads([h EXCEPT !.ip = v]) = Threads(h)
        /\ \A v : Threads([h EXCEPT !.ipcpOpts = v]) = Threads(h)
        /\ \A v \in BOOLEAN : Threads([h EXCEPT !.ipcpUp = v]) = Threads(h)
BY DEF HostType, Threads

LEMMA RequestHost ==
    ASSUME host \in HostType, NEW a, PeerRequest(host, a)
    PROVE  Threads(host') = Threads(host)
<1> DEFINE g == [host EXCEPT !.seen = TRUE]
           p1 == [g EXCEPT !.auth = "pap"]
           p2 == [p1 EXCEPT !.authUp = FALSE]
           c1 == [g EXCEPT !.auth = "chap"]
           c2 == [c1 EXCEPT !.authUp = FALSE]
           c3 == [c2 EXCEPT !.naked = TRUE]
<1>1. host' \in {g, p2, c2, c3}
  BY DEF PeerRequest, Reply
<1> HIDE DEF g, p1, p2, c1, c2, c3
<1>2. g \in HostType /\ Threads(g) = Threads(host)
  BY HostUpdates, EngineUpdates DEF g
<1>3. p1 \in HostType /\ Threads(p1) = Threads(host)
  BY <1>2, HostUpdates, EngineUpdates DEF p1
<1>4. Threads(p2) = Threads(host)
  BY <1>3, EngineUpdates DEF p2
<1>5. c1 \in HostType /\ Threads(c1) = Threads(host)
  BY <1>2, HostUpdates, EngineUpdates DEF c1
<1>6. c2 \in HostType /\ Threads(c2) = Threads(host)
  BY <1>5, HostUpdates, EngineUpdates DEF c2
<1>7. Threads(c3) = Threads(host)
  BY <1>6, EngineUpdates DEF c3
<1> QED
  BY <1>1, <1>2, <1>4, <1>6, <1>7

LEMMA EngineHost ==
    ASSUME host \in HostType, Engine
    PROVE  Threads(host') = Threads(host)
<1> DEFINE m == Head(parser.q)
<1>1. HandleLcp(host, m) \/ HandleAuth(host, m) \/ HandleIpcp(host, m) \/ Silent(host)
  BY DEF Engine
<1>2. CASE HandleLcp(host, m)
  <2>1. \/ PeerRequest(host, m.a)
        \/ \E v \in BOOLEAN : host' = [host EXCEPT !.lcpUp = v]
        \/ \E v : host' = [host EXCEPT !.lcpOpts = v]
    BY <1>2 DEF HandleLcp, Silent, Reply
  <2>2. CASE PeerRequest(host, m.a)
    <3> HIDE DEF m
    <3> QED
      BY <2>2, RequestHost
  <2>3. ASSUME NEW v \in BOOLEAN, host' = [host EXCEPT !.lcpUp = v]
        PROVE  Threads(host') = Threads(host)
    BY <2>3, EngineUpdates
  <2>4. ASSUME NEW v, host' = [host EXCEPT !.lcpOpts = v]
        PROVE  Threads(host') = Threads(host)
    BY <2>4, EngineUpdates
  <2> QED
    BY <2>1, <2>2, <2>3, <2>4
<1>3. CASE HandleAuth(host, m)
  BY <1>3, EngineUpdates DEF HandleAuth, Silent, Reply
<1>4. CASE HandleIpcp(host, m)
  <2> DEFINE o == host.ipcpOpts \union {IF m.k = "IREJ" THEN "nonb" ELSE "ip"}
             h1 == [host EXCEPT !.ipcpOpts = o]
             h2 == [h1 EXCEPT !.ip = @ \/ m.k = "INAK"]
  <2>1. host' \in {host, [host EXCEPT !.ipcpUp = TRUE], h2}
    BY <1>4 DEF HandleIpcp, Silent, Reply
  <2>2. o \in SUBSET {"ip", "nonb"}
    BY DEF HostType
  <2>3. h1 \in HostType /\ Threads(h1) = Threads(host)
    BY <2>2, HostUpdates, EngineUpdates
  <2> HIDE DEF h1
  <2>4. (h1.ip \/ m.k = "INAK") \in BOOLEAN
    BY <2>3 DEF HostType
  <2>5. Threads(h2) = Threads(h1)
    BY <2>3, <2>4, EngineUpdates
  <2> HIDE DEF h2
  <2> QED
    BY <2>1, <2>3, <2>5, EngineUpdates
<1> QED
  BY <1>1, <1>2, <1>3, <1>4 DEF Silent

-----------------------------------------------------------------------------
(* A stopped session is down                                                *)

(* While stop() is at work on a session that was up, _run() waits or has    *)
(* ended; once the adapter is closed the forwarder has at most one packet   *)
(* left to send, in its hand or sent already.                               *)
StopInv ==
    pc["con"] # "none" /\ hist.up =>
        /\ pc["run"] \in {"idle", "none"}
        /\ ~host.ready
        /\ pc["con"] \in {"d_term", "d_esc", "d_nc", "d_ok", "flag", "join"} => host.tun = "none"
        /\ host.tun # "none" => hist.late = 0
        /\ hist.late = 0 \/ (hist.late = 1 /\ host.fwd # "send")

LEMMA StopInit == Init => StopInv
BY DEF Init, StopInv, Thread

LEMMA StopNext ==
    ASSUME TypeInv, StopInv, [Next]_vars
    PROVE  StopInv'
<1>0. /\ pc \in [Thread -> RunPc \union ConPc] /\ Thread = {"run", "con"}
      /\ pc["run"] \in RunPc /\ pc["con"] \in ConPc
      /\ host \in HostType /\ hist \in HistType
  BY DEF TypeInv, PcOK, Thread
<1> DEFINE Same == /\ host'.ready = host.ready /\ host'.tun = host.tun /\ host'.fwd = host.fwd
                   /\ hist'.up = hist.up /\ hist'.late = hist.late
<1>1. ASSUME UNCHANGED pc, Same PROVE StopInv'
  BY <1>1 DEF StopInv
<1>2. ASSUME NEW l, Goto("run", l), Same, pc["run"] \in {"idle", "none"} => l \in {"idle", "none"}
      PROVE  StopInv'
  BY <1>0, <1>2 DEF StopInv, Goto
<1>3. CASE RunStep
  <2>1. CASE RunLoopEnds
    BY <1>2, <2>1 DEF RunLoopEnds
  <2>2. CASE ~RunLoopEnds
    <3>1. /\ pc["run"] \notin {"idle", "none"}
          /\ pc' = pc \/ \E l : Goto("run", l)
          /\ hist' = hist
      BY <1>3, <2>2 DEF RunStep, Boot, LcpWait, Grace, AfterGrace, AskIpcp, PapSend,
         AuthOver, AuthOpen, AuthReleased, IpcpWait, StartTun
    <3> QED
      BY <1>0, <3>1 DEF StopInv, Goto
  <2> QED
    BY <2>1, <2>2
<1>4. CASE Dial \/ DialFails
  <2>1. pc["con"] = "none" /\ (pc' = pc \/ Goto("run", "boot"))
    BY <1>0, <1>4 DEF Dial, DialFails, CanDial
  <2>2. pc'["con"] = "none"
    BY <1>0, <2>1 DEF Goto
  <2> QED
    BY <2>2 DEF StopInv
<1>5. ASSUME NEW b \in BOOLEAN, Stop(b) PROVE StopInv'
  <2>1. /\ pc' = [pc EXCEPT !["con"] = "d_tun"]
        /\ host'.ready = FALSE /\ hist'.late = 0
        /\ hist'.up = (pc["run"] = "idle")
    BY <1>0, <1>5 DEF Stop, Goto, HostType, HistType
  <2> QED
    BY <1>0, <2>1 DEF StopInv
<1>6. CASE StopStep
  <2>1. /\ host'.ready = host.ready /\ host'.tun = host.tun /\ host'.fwd = host.fwd
        /\ hist' = hist /\ pc["con"] \in {"flag", "join"}
        /\ pc' = [pc EXCEPT !["con"] = IF pc["con"] = "flag" THEN "join" ELSE "none"]
    BY <1>0, <1>6 DEF StopStep, StopFlag, StopEnd, Goto, HostType
  <2> QED
    BY <1>0, <2>1 DEF StopInv
<1>7. CASE Engine
  <2>1. host'.ready = host.ready /\ host'.tun = host.tun /\ host'.fwd = host.fwd
    BY <1>0, <1>7, EngineHost DEF Threads
  <2> QED
    BY <1>1, <1>7, <2>1 DEF Engine
<1>8. CASE FwdStep
  <2>1. CASE FwdRead
    BY <1>0, <2>1 DEF FwdRead, SessionOpen, StopInv, HostType
  <2>2. CASE FwdEnd
    BY <1>0, <2>2 DEF FwdEnd, StopInv, HostType
  <2>3. CASE FwdSend
    BY <1>0, <2>3 DEF FwdSend, StopInv, HostType, HistType
  <2> QED
    BY <1>8, <2>1, <2>2, <2>3 DEF FwdStep
<1>9. ASSUME NEW t \in Thread, DiscStep(t) PROVE StopInv'
  <2>1. pc[t] \in DiscPc
    BY <1>9 DEF DiscStep, DiscTun, DiscJoin, DiscFeed, DiscTerm, DiscEsc, DiscCarrier, DiscOk, DiscPc
  <2>2. hist'.up = hist.up /\ hist'.late = hist.late
    BY <1>0, <1>9 DEF DiscStep, DiscTun, DiscJoin, DiscFeed, DiscTerm, DiscEsc, DiscCarrier, DiscOk,
       Terminate, HistType
  <2>3. CASE t = "run"
    <3>1. pc["run"] \notin {"idle", "none"}
      BY <2>1, <2>3 DEF DiscPc
    <3>2. pc'["con"] = pc["con"]
      BY <1>0, <1>9, <2>3 DEF DiscStep, DiscTun, DiscJoin, DiscFeed, DiscTerm, DiscEsc, DiscCarrier,
         DiscOk, Terminate, Escape, Goto
    <3> QED
      BY <2>2, <3>1, <3>2 DEF StopInv
  <2>4. CASE t = "con"
    <3>1. CASE DiscTun("con")
      <4>1. CASE host.tun # "none"
        <5>1. host'.ready = host.ready /\ host'.fwd = host.fwd /\ host'.tun = "stopping"
              /\ pc' = [pc EXCEPT !["con"] = "d_join"]
          BY <1>0, <3>1, <4>1 DEF DiscTun, Goto, HostType
        <5> QED
          BY <1>0, <2>2, <3>1, <4>1, <5>1 DEF StopInv, DiscTun
      <4>2. CASE host.tun = "none"
        <5>1. host' = host /\ \E l : pc' = [pc EXCEPT !["con"] = l]
          BY <3>1, <4>2 DEF DiscTun, Terminate, Goto
        <5> QED
          BY <1>0, <2>2, <3>1, <4>2, <5>1 DEF StopInv, DiscTun
      <4> QED
        BY <4>1, <4>2
    <3>2. CASE DiscJoin("con")
      <4>1. host'.ready = host.ready /\ host'.fwd = host.fwd /\ host'.tun = "none"
            /\ \E l : pc' = [pc EXCEPT !["con"] = l]
        BY <1>0, <3>2 DEF DiscJoin, Terminate, Goto, HostType
      <4> QED
        BY <1>0, <2>2, <3>2, <4>1 DEF StopInv, DiscJoin
    <3>3. CASE DiscFeed("con") \/ DiscTerm("con") \/ DiscEsc("con") \/ DiscCarrier("con") \/ DiscOk("con")
      <4>1. host' = host /\ (pc' = pc \/ \E l : pc' = [pc EXCEPT !["con"] = l])
            /\ pc["con"] \in {"d_term", "d_esc", "d_nc", "d_ok"}
        BY <3>3 DEF DiscFeed, DiscTerm, DiscEsc, DiscCarrier, DiscOk, Escape, Goto
      <4> QED
        BY <1>0, <2>2, <4>1 DEF StopInv
    <3> QED
      BY <1>9, <2>4, <3>1, <3>2, <3>3 DEF DiscStep
  <2> QED
    BY <1>0, <2>3, <2>4
<1>10. CASE Reader \/ PeerStep \/ Lose \/ PeerLeaves \/ LinkReset \/ UNCHANGED vars
  BY <1>1, <1>10 DEF Reader, PeerStep, PeerDue, PeerData, ModemStep, Lose, PeerLeaves, LinkReset, vars
<1> QED
  BY <1>3, <1>4, <1>5, <1>6, <1>7, <1>8, <1>9, <1>10 DEF Next, CallStop, LinkDown

(* A session that was up when stop() was called leaves nothing behind: the  *)
(* adapter is closed, the services know, and at most one packet follows     *)
(* (PppService.stop(), _stop_tun(), _tun_forward()).                        *)
THEOREM StoppedDown == Spec => []StoppedIsDown
<1>1. TypeInv /\ StopInv => StoppedIsDown
  BY DEF StopInv, StoppedIsDown, TypeInv, HistType
<1> QED
  BY <1>1, TypeInvariant, StopInit, StopNext, PTL DEF Spec

-----------------------------------------------------------------------------
(* The hang-up makes up for one fault                                       *)

(* What has been said is still on its way after a step of the host.         *)
LEMMA SayKeeps ==
    ASSUME NEW S, tx \in Seq(S), NEW k, NEW a, Say(k, a), NEW kinds
    PROVE  /\ Has(tx, kinds) => Has(tx', kinds)
           /\ k \in kinds => Has(tx', kinds)
<1> DEFINE m == Msg(k, a)
           T == S \union {m}
<1>1. tx \in Seq(T) /\ m \in T /\ m.k = k
  BY DEF Msg
<1>2. tx' = Append(tx, m)
  BY DEF Say
<1> HIDE DEF m, T
<1> QED
  BY <1>1, <1>2, HasAppend

(* A step that takes nothing from the modem and dials nobody.               *)
Calm == \/ RunStep \/ Engine \/ FwdStep \/ (\E t \in Thread : DiscStep(t)) \/ StopStep
        \/ DialFails \/ CallStop \/ LinkDown \/ Reader
        \/ PeerDue \/ PeerData \/ PeerLeaves \/ UNCHANGED vars

LEMMA HostKeeps ==
    ASSUME TypeInv, Calm, NEW kinds, Has(tx, kinds)
    PROVE  Has(tx', kinds)
<1>0. tx \in Seq(TxMsg)
  BY DEF TypeInv, QueueOK
<1>1. ASSUME UNCHANGED tx PROVE Has(tx', kinds)
  BY <1>1
<1>2. ASSUME NEW k, NEW a, Say(k, a) PROVE Has(tx', kinds)
  BY <1>0, <1>2, SayKeeps
<1>3. CASE RunStep
  BY <1>1, <1>2, <1>3 DEF RunStep, Boot, LcpWait, Grace, AfterGrace, AskIpcp, PapSend,
     AuthOver, AuthReleased, IpcpWait, StartTun, RunLoopEnds
<1>4. CASE Engine
  <2>1. \E m : HandleLcp(host, m) \/ HandleAuth(host, m) \/ HandleIpcp(host, m) \/ Silent(host)
    BY <1>4 DEF Engine
  <2>2. tx' = tx \/ \E k, a : Say(k, a)
    BY <2>1 DEF HandleLcp, PeerRequest, HandleAuth, HandleIpcp, Silent, Reply
  <2> QED
    BY <1>1, <1>2, <2>2
<1>5. CASE FwdStep
  BY <1>1, <1>2, <1>5 DEF FwdStep, FwdRead, FwdEnd, FwdSend
<1>6. ASSUME NEW t \in Thread, DiscStep(t) PROVE Has(tx', kinds)
  <2>1. CASE DiscEsc(t)
    <3> DEFINE r == <<Msg("ESC", {}), Msg("ATH", {})>>
               T == TxMsg \union {Msg("ESC", {}), Msg("ATH", {})}
    <3>1. tx' = tx \/ Say("ESC", {}) \/ tx' = tx \o r
      BY <2>1 DEF DiscEsc, Escape
    <3>2. r \in Seq(T) /\ tx \in Seq(T)
      BY <1>0
    <3> HIDE DEF r, T
    <3>3. tx' = tx \o r => Has(tx', kinds)
      BY <3>2, HasConcat
    <3> QED
      BY <1>1, <1>2, <3>1, <3>3
  <2> QED
    BY <1>1, <1>2, <1>6, <2>1 DEF DiscStep, DiscTun, DiscJoin, DiscFeed, DiscTerm,
       DiscCarrier, DiscOk, Terminate
<1>7. CASE DialFails \/ CallStop \/ LinkDown \/ StopStep \/ Reader
  BY <1>1, <1>7 DEF DialFails, CallStop, LinkDown, Stop, StopStep, StopFlag, StopEnd, Reader
<1>8. CASE PeerDue \/ PeerData \/ PeerLeaves \/ UNCHANGED vars
  BY <1>1, <1>8 DEF PeerDue, PeerData, PeerLeaves, vars
<1> QED
  BY <1>3, <1>4, <1>5, <1>6, <1>7, <1>8 DEF Calm

(* Only a dial brings the modem into data mode.                             *)
LEMMA ModeNext ==
    ASSUME TypeInv, Calm \/ ModemStep \/ Lose, peer.mode # "data"
    PROVE  peer'.mode # "data"
<1>0. peer \in PeerType
  BY DEF TypeInv
<1>1. ASSUME UNCHANGED peer PROVE peer'.mode # "data"
  BY <1>1
<1>2. CASE ModemStep
  <2>1. \E c : ModemText(c)
    BY <1>2 DEF ModemStep
  <2> QED
    BY <1>0, <2>1 DEF ModemText, PeerType
<1>3. CASE PeerDue \/ PeerData
  BY <1>3 DEF PeerDue, PeerData, LcpDue, ChalDue, Opened, Network
<1>5. CASE RunStep
  BY <1>1, <1>5 DEF RunStep, Boot, LcpWait, Grace, PapSend, AuthOver, AuthReleased, IpcpWait,
     StartTun, RunLoopEnds
<1>6. ASSUME NEW t \in Thread, DiscStep(t) PROVE peer'.mode # "data"
  BY <1>1, <1>6 DEF DiscStep, DiscTun, DiscJoin, DiscFeed, DiscTerm, DiscEsc, DiscCarrier, DiscOk
<1>7. CASE DialFails \/ CallStop \/ LinkDown \/ StopStep \/ Engine \/ Reader \/ FwdStep
  BY <1>1, <1>7 DEF DialFails, CallStop, LinkDown, Stop, StopStep, StopFlag, StopEnd, Engine,
     Reader, FwdStep, FwdRead, FwdEnd, FwdSend
<1>8. CASE Lose \/ PeerLeaves \/ UNCHANGED vars
  BY <1>1, <1>8 DEF Lose, PeerLeaves, vars
<1> QED
  BY <1>2, <1>3, <1>5, <1>6, <1>7, <1>8 DEF Calm

(* Until "+++" is sent, the Terminate-Request has worked, is on its way, or *)
(* something went wrong; afterwards it takes two faults to lose both.       *)
HangInv ==
    /\ hist.mark <= faults
    /\ hist.lcp /\ ~host.lost /\ peer.mode = "data" =>
        /\ pc["con"] \in {"d_term", "d_esc"} => Has(tx, {"TERM"}) \/ faults >= hist.mark + 1
        /\ pc["con"] \in {"d_nc", "d_ok", "flag"} =>
              \/ Has(tx, {"TERM"}) /\ Has(tx, {"ESC"})
              \/ faults >= hist.mark + 1 /\ Has(tx, {"TERM", "ESC"})
              \/ faults >= hist.mark + 2

LEMMA HangInit == Init => HangInv
BY DEF Init, HangInv, Thread

LEMMA HasEither ==
    ASSUME NEW q
    PROVE  Has(q, {"TERM", "ESC"}) <=> Has(q, {"TERM"}) \/ Has(q, {"ESC"})
BY DEF Has

LEMMA HangNext ==
    ASSUME TypeInv, HangInv, [Next]_vars
    PROVE  HangInv'
<1>0. /\ pc \in [Thread -> RunPc \union ConPc] /\ Thread = {"run", "con"}
      /\ host \in HostType /\ hist \in HistType /\ peer \in PeerType
      /\ tx \in Seq(TxMsg) /\ faults \in Nat /\ faults' \in Nat
      /\ hist.mark \in Nat /\ faults' >= faults
  BY PppAssumption, CountNext DEF TypeInv, PcOK, Thread, QueueOK, HistType, CountOK
<1> DEFINE Same == hist'.mark = hist.mark /\ hist'.lcp = hist.lcp /\ host'.lost = host.lost
<1>1. ASSUME Same, pc'["con"] = pc["con"], Calm
      PROVE  HangInv'
  <2>1. \A kinds : Has(tx, kinds) => Has(tx', kinds)
    BY <1>1, HostKeeps
  <2>2. peer'.mode = "data" => peer.mode = "data"
    BY <1>1, ModeNext
  <2>3. hist.mark <= faults'
    BY <1>0 DEF HangInv
  <2>4. faults >= hist.mark + 1 => faults' >= hist.mark + 1
    BY <1>0
  <2>5. faults >= hist.mark + 2 => faults' >= hist.mark + 2
    BY <1>0
  <2> QED
    BY <1>1, <2>1, <2>2, <2>3, <2>4, <2>5 DEF HangInv
<1>2. CASE Dial
  <2>1. pc["con"] = "none" /\ pc' = [pc EXCEPT !["run"] = "boot"]
    BY <1>0, <1>2 DEF Dial, CanDial, Goto
  <2>2. pc'["con"] = "none" /\ hist'.mark = hist.mark
    BY <1>0, <1>2, <2>1 DEF Dial, HistType
  <2> QED
    BY <1>0, <2>2 DEF HangInv
<1>3. CASE ModemStep
  <2>1. /\ tx # <<>> /\ tx' = Tail(tx) /\ faults' = faults
        /\ UNCHANGED <<pc, host, hist>>
    BY <1>3 DEF ModemStep, NoFault
  <2> DEFINE c == Head(tx)
  <2>2. ModemText(c) \/ (peer.mode = "data" /\ (PeerLcp(c) \/ PeerAuth(c) \/ PeerIpcp(c)))
    BY <1>3 DEF ModemStep
  <2>3. peer'.mode = "data" => peer.mode = "data"
    BY <1>3, ModeNext
  <2>4. c.k \in {"TERM", "ESC"} => peer'.mode # "data"
    BY <1>0, <2>2 DEF ModemText, PeerLcp, PeerAuth, PeerIpcp, PeerType
  <2>5. \A kinds : Has(tx, kinds) <=> c.k \in kinds \/ Has(tx', kinds)
    BY <1>0, <2>1, <2>2, HasTail
  <2>6. peer'.mode = "data" => /\ Has(tx, {"TERM"}) <=> Has(tx', {"TERM"})
                               /\ Has(tx, {"ESC"}) <=> Has(tx', {"ESC"})
                               /\ Has(tx, {"TERM", "ESC"}) <=> Has(tx', {"TERM", "ESC"})
    BY <2>4, <2>5
  <2> QED
    BY <2>1, <2>3, <2>6 DEF HangInv
<1>4. CASE Lose
  <2>1. UNCHANGED <<pc, host, hist, peer>> /\ faults' = faults + 1
    BY <1>4 DEF Lose, Fault
  <2>2. hist.mark <= faults'
    BY <1>0, <2>1 DEF HangInv
  <2>3. faults' >= hist.mark + 1 /\ (faults >= hist.mark + 1 => faults' >= hist.mark + 2)
    BY <1>0, <2>1 DEF HangInv
  <2>4. CASE tx' = tx
    BY <1>0, <2>1, <2>2, <2>3, <2>4, HasEither DEF HangInv
  <2>5. CASE tx # <<>> /\ tx' = Tail(tx)
    <3>1. \A kinds : Has(tx, kinds) <=> Head(tx).k \in kinds \/ Has(tx', kinds)
      BY <1>0, <2>5, HasTail
    <3>2. Has(tx, {"TERM"}) /\ Has(tx, {"ESC"}) => Has(tx', {"TERM", "ESC"})
      BY <3>1, HasEither
    <3> QED
      BY <1>0, <2>1, <2>2, <2>3, <3>2 DEF HangInv
  <2> QED
    BY <1>4, <2>4, <2>5 DEF Lose
<1>5. CASE LinkReset
  <2>1. peer'.mode = "reset" /\ UNCHANGED hist
    BY <1>0, <1>5 DEF LinkReset, PeerType
  <2> QED
    BY <1>0, <2>1 DEF HangInv
<1>6. ASSUME NEW b \in BOOLEAN, Stop(b) PROVE HangInv'
  <2> DEFINE h1 == [hist EXCEPT !.mark = faults]
             h2 == [h1 EXCEPT !.up = pc["run"] = "idle"]
             h3 == [h2 EXCEPT !.lcp = FALSE]
             h4 == [h3 EXCEPT !.late = 0]
  <2>1. hist' = h4
    BY <1>6 DEF Stop
  <2>2. h1 \in HistType /\ h1.mark = faults
    BY <1>0 DEF HistType
  <2> HIDE DEF h1
  <2>3. h2 \in HistType /\ h2.mark = faults
    BY <2>2 DEF HistType
  <2> HIDE DEF h2
  <2>4. h3 \in HistType /\ h3.mark = faults /\ ~h3.lcp
    BY <2>3 DEF HistType
  <2> HIDE DEF h3
  <2>5. hist'.mark = faults /\ ~hist'.lcp
    BY <2>1, <2>4 DEF HistType
  <2> QED
    BY <1>0, <2>5 DEF HangInv
<1>7. CASE StopStep
  <2>1. /\ UNCHANGED <<hist, tx, peer>> /\ host'.lost = host.lost
        /\ (pc["con"] = "flag" /\ pc'["con"] = "join") \/ pc'["con"] = "none"
    BY <1>0, <1>7 DEF StopStep, StopFlag, StopEnd, Goto, HostType
  <2> QED
    BY <1>0, <2>1 DEF HangInv
<1>8. ASSUME NEW t \in Thread, DiscStep(t) PROVE HangInv'
  <2>0. Calm /\ host'.lost = host.lost /\ hist'.mark = hist.mark
    BY <1>0, <1>8 DEF Calm, DiscStep, DiscTun, DiscJoin, DiscFeed, DiscTerm, DiscEsc, DiscCarrier,
       DiscOk, Terminate, HostType, HistType
  <2>1. CASE t = "run"
    <3>1. pc'["con"] = pc["con"]
      BY <1>0, <1>8, <2>1 DEF DiscStep, DiscTun, DiscJoin, DiscFeed, DiscTerm, DiscEsc,
         DiscCarrier, DiscOk, Terminate, Escape, Goto
    <3>2. hist'.lcp = hist.lcp
      BY <1>0, <1>8, <2>1 DEF DiscStep, DiscTun, DiscJoin, DiscFeed, DiscTerm, DiscEsc,
         DiscCarrier, DiscOk, Terminate, HistType
    <3> QED
      BY <1>1, <2>0, <3>1, <3>2
  <2>2. CASE t = "con"
    <3>0. /\ \A kinds : Has(tx, kinds) => Has(tx', kinds)
          /\ peer'.mode = "data" => peer.mode = "data"
          /\ hist'.mark <= faults'
          /\ faults >= hist.mark + 1 => faults' >= hist'.mark + 1
          /\ faults >= hist.mark + 2 => faults' >= hist'.mark + 2
      BY <1>0, <2>0, HostKeeps, ModeNext DEF HangInv
    <3>1. ASSUME Terminate("con") PROVE HangInv'
      <4>1. hist'.lcp = host.lcpUp /\ pc'["con"] \in {"d_term", "d_esc"}
        BY <1>0, <3>1 DEF Terminate, Goto, HistType
      <4>2. host.lcpUp => Has(tx', {"TERM"})
        BY <1>0, <3>1, SayKeeps DEF Terminate
      <4> QED
        BY <3>0, <4>1, <4>2 DEF HangInv
    <3>2. ASSUME UNCHANGED hist, pc'["con"] = "d_join" PROVE HangInv'
      BY <3>0, <3>2 DEF HangInv
    <3>3. CASE DiscTun("con") \/ DiscJoin("con")
      BY <1>0, <3>1, <3>2, <3>3 DEF DiscTun, DiscJoin, Goto
    <3>4. CASE DiscFeed("con")
      BY <1>1, <2>0, <3>4 DEF DiscFeed
    <3>5. CASE DiscTerm("con")
      <4>1. UNCHANGED hist /\ pc["con"] = "d_term" /\ pc'["con"] = "d_esc"
        BY <1>0, <3>5 DEF DiscTerm, Goto
      <4> QED
        BY <2>0, <3>0, <4>1 DEF HangInv
    <3>6. CASE DiscEsc("con")
      <4>1. UNCHANGED hist /\ pc["con"] = "d_esc"
        BY <3>6 DEF DiscEsc
      <4>2. CASE host.lost
        BY <2>0, <3>0, <4>2 DEF HangInv
      <4>3. CASE ~host.lost
        <5>1. Escape("con") /\ pc'["con"] \in {"d_nc", "d_ok"}
          BY <1>0, <3>6, <4>3 DEF DiscEsc, Lost, Escape, Goto
        <5> DEFINE r == <<Msg("ESC", {}), Msg("ATH", {})>>
                   T == TxMsg \union {Msg("ESC", {}), Msg("ATH", {})}
        <5>2. Say("ESC", {}) \/ tx' = tx \o r
          BY <5>1 DEF Escape
        <5>3. r \in Seq(T) /\ tx \in Seq(T) /\ Has(r, {"ESC"})
          BY <1>0 DEF Has, Msg
        <5> HIDE DEF r, T
        <5>4. tx' = tx \o r => Has(tx', {"ESC"})
          BY <5>3, HasConcat
        <5>5. Has(tx', {"ESC"})
          BY <1>0, <5>2, <5>4, SayKeeps
        <5> QED
          BY <2>0, <3>0, <4>1, <5>1, <5>5, HasEither DEF HangInv
      <4> QED
        BY <4>2, <4>3
    <3>7. CASE DiscCarrier("con") \/ DiscOk("con")
      <4>1. UNCHANGED hist /\ pc["con"] \in {"d_nc", "d_ok"}
            /\ pc'["con"] \in {"d_nc", "d_ok", "flag"}
        BY <1>0, <3>7 DEF DiscCarrier, DiscOk, Goto, After
      <4> QED
        BY <2>0, <3>0, <4>1 DEF HangInv
    <3> QED
      BY <1>8, <2>2, <3>3, <3>4, <3>5, <3>6, <3>7 DEF DiscStep
  <2> QED
    BY <1>0, <2>1, <2>2
<1>9. CASE RunStep
  <2>1. pc' = pc \/ \E l : pc' = [pc EXCEPT !["run"] = l]
    BY <1>9 DEF RunStep, Boot, LcpWait, Grace, AfterGrace, AskIpcp, PapSend,
       AuthOver, AuthReleased, IpcpWait, StartTun, RunLoopEnds, Goto
  <2>2. UNCHANGED hist
    BY <1>9 DEF RunStep, Boot, LcpWait, Grace, PapSend, AuthOver, AuthReleased, IpcpWait,
       StartTun, RunLoopEnds
  <2>3. host'.lost = host.lost
    <3>1. CASE Boot
      BY <1>0, <3>1 DEF Boot, Reset, Fresh
    <3>2. CASE LcpWait \/ AuthReleased
      BY <1>0, <3>2 DEF LcpWait, AuthReleased, RunEnds, HostType
    <3>3. CASE IpcpWait \/ PapSend \/ AuthOver
      BY <1>0, <3>3 DEF IpcpWait, PapSend, AuthOver, RunEnds, HostType
    <3>4. CASE Grace \/ StartTun \/ RunLoopEnds
      BY <1>0, <3>4 DEF Grace, StartTun, RunLoopEnds, HostType
    <3> QED
      BY <1>9, <3>1, <3>2, <3>3, <3>4 DEF RunStep
  <2> QED
    BY <1>0, <1>1, <1>9, <2>1, <2>2, <2>3 DEF Calm
<1>10. CASE Engine
  BY <1>0, <1>1, <1>10, EngineHost DEF Engine, Calm, Threads
<1>11. CASE FwdStep
  BY <1>0, <1>1, <1>11 DEF FwdStep, FwdRead, FwdEnd, FwdSend, Calm, HostType, HistType
<1>12. CASE Reader \/ PeerDue \/ PeerData \/ PeerLeaves \/ UNCHANGED vars
  BY <1>1, <1>12 DEF Reader, PeerDue, PeerData, PeerLeaves, vars, Calm
<1>13. CASE DialFails
  BY <1>0, <1>1, <1>13 DEF DialFails, Calm, HostType
<1> QED
  BY <1>2, <1>3, <1>4, <1>5, <1>6, <1>7, <1>8, <1>9, <1>10, <1>11, <1>12, <1>13
     DEF Next, PeerStep, CallStop, LinkDown

(* When LCP was up, the modem has left data mode at the end of a hang-up    *)
(* that nothing or one thing disturbed (_disconnect(), hangup_command_mode).*)
THEOREM HangUpWorks == Spec => []HangUpTolerates
<1>1. TypeInv /\ HangInv => HangUpTolerates
  <2> SUFFICES ASSUME TypeInv, HangInv, pc["con"] = "flag", hist.lcp, ~host.lost,
                      faults - hist.mark <= 1, peer.mode = "data"
               PROVE  Has(tx, {"TERM", "ESC"})
    BY DEF HangUpTolerates
  <2>1. faults \in Int /\ hist.mark \in Int
    BY PppAssumption DEF TypeInv, CountOK, HistType
  <2> QED
    BY <2>1, HasEither DEF HangInv
<1> QED
  BY <1>1, TypeInvariant, HangInit, HangNext, PTL DEF Spec

-----------------------------------------------------------------------------
(* What the session has agreed                                              *)

Agreed(h) == <<h.ip, h.ipcpOpts, h.ipcpUp, h.auth>>

LEMMA AgreedUpdates ==
    ASSUME NEW h \in HostType
    PROVE
        /\ \A v : Agreed([h EXCEPT !.running = v]) = Agreed(h)
        /\ \A v : Agreed([h EXCEPT !.pppRunning = v]) = Agreed(h)
        /\ \A v : Agreed([h EXCEPT !.dialing = v]) = Agreed(h)
        /\ \A v : Agreed([h EXCEPT !.lcpUp = v]) = Agreed(h)
        /\ \A v : Agreed([h EXCEPT !.authUp = v]) = Agreed(h)
        /\ \A v : Agreed([h EXCEPT !.failed = v]) = Agreed(h)
        /\ \A v : Agreed([h EXCEPT !.seen = v]) = Agreed(h)
        /\ \A v : Agreed([h EXCEPT !.naked = v]) = Agreed(h)
        /\ \A v : Agreed([h EXCEPT !.lcpOpts = v]) = Agreed(h)
        /\ \A v : Agreed([h EXCEPT !.tries = v]) = Agreed(h)
        /\ \A v : Agreed([h EXCEPT !.tun = v]) = Agreed(h)
        /\ \A v : Agreed([h EXCEPT !.fwd = v]) = Agreed(h)
        /\ \A v : Agreed([h EXCEPT !.ready = v]) = Agreed(h)
        /\ \A v : Agreed([h EXCEPT !.lost = v]) = Agreed(h)
BY DEF HostType, Agreed

(* Only the engine and the reset at the start of _run() touch it.           *)
LEMMA AgreedStays ==
    ASSUME TypeInv, [Next]_vars
    PROVE  Engine \/ Boot \/ Agreed(host') = Agreed(host)
<1>0. host \in HostType
  BY DEF TypeInv
<1>1. ASSUME UNCHANGED host PROVE Agreed(host') = Agreed(host)
  BY <1>1
<1>2. ASSUME NEW h \in HostType, Agreed(h) = Agreed(host), RunEnds(h)
      PROVE  Agreed(host') = Agreed(host)
  <2> DEFINE h1 == [h EXCEPT !.running = FALSE]
  <2>1. host' = [h1 EXCEPT !.pppRunning = FALSE]
    BY <1>2 DEF RunEnds
  <2>2. h1 \in HostType /\ Agreed(h1) = Agreed(host)
    BY <1>2, HostUpdates, AgreedUpdates
  <2> HIDE DEF h1
  <2> QED
    BY <2>1, <2>2, AgreedUpdates
<1>3. CASE LcpWait
  BY <1>0, <1>1, <1>2, <1>3 DEF LcpWait
<1>4. CASE AuthReleased
  <2>1. [host EXCEPT !.dialing = FALSE] \in HostType
        /\ Agreed([host EXCEPT !.dialing = FALSE]) = Agreed(host)
    BY <1>0, HostUpdates, AgreedUpdates
  <2> QED
    BY <1>2, <1>4, <2>1 DEF AuthReleased
<1>5. CASE AuthOver
  BY <1>0, <1>5 DEF AuthOver, Agreed, HostType
<1>6. CASE IpcpWait
  <2>1. host' = [host EXCEPT !.ready = TRUE] \/ RunEnds(host)
    BY <1>6 DEF IpcpWait
  <2> QED
    BY <1>0, <1>2, <2>1, AgreedUpdates
<1>7. CASE PapSend
  BY <1>0, <1>7, AgreedUpdates DEF PapSend
<1>8. CASE StartTun
  BY <1>0, <1>8 DEF StartTun, Agreed, HostType
<1>9. CASE Grace \/ RunLoopEnds
  BY <1>1, <1>9 DEF Grace, RunLoopEnds
<1>10. CASE Dial \/ DialFails \/ CallStop \/ LinkDown \/ StopStep
  BY <1>0, <1>10 DEF Dial, DialFails, CallStop, LinkDown, Stop, StopStep, StopFlag, StopEnd,
     Agreed, HostType
<1>11. CASE FwdStep
  BY <1>0, <1>11, AgreedUpdates DEF FwdStep, FwdRead, FwdEnd, FwdSend
<1>12. ASSUME NEW t \in Thread, DiscStep(t) PROVE Agreed(host') = Agreed(host)
  BY <1>0, <1>12, AgreedUpdates DEF DiscStep, DiscTun, DiscJoin, DiscFeed, DiscTerm, DiscEsc,
     DiscCarrier, DiscOk
<1>13. CASE Reader \/ PeerStep \/ Lose \/ PeerLeaves \/ LinkReset \/ UNCHANGED vars
  BY <1>1, <1>13 DEF Reader, PeerStep, PeerDue, PeerData, ModemStep, Lose, PeerLeaves, LinkReset, vars
<1> QED
  BY <1>3, <1>4, <1>5, <1>6, <1>7, <1>8, <1>9, <1>10, <1>11, <1>12, <1>13 DEF Next, RunStep

(* What the engine makes of a frame.                                        *)
LEMMA EngineLearns ==
    ASSUME TypeInv, Engine
    PROVE  LET m == Head(parser.q) IN
           /\ host'.ipcpUp => host.ipcpUp \/ m.k = "IACK"
           /\ host'.auth = "pap" => host.auth = "pap" \/ (m.k = "LREQ" /\ m.a = {"pap"})
           /\ host.ip => host'.ip
           /\ host'.ip \/ ("ip" \in host'.ipcpOpts => "ip" \in host.ipcpOpts)
           /\ tx' = tx \/ \E k, a : Say(k, a) /\ (k = "IREQ" => a = host'.ipcpOpts) /\ k # "PAP"
<1> DEFINE m == Head(parser.q)
           Goal == /\ host'.ipcpUp => host.ipcpUp \/ m.k = "IACK"
                   /\ host'.auth = "pap" => host.auth = "pap" \/ (m.k = "LREQ" /\ m.a = {"pap"})
                   /\ host.ip => host'.ip
                   /\ host'.ip \/ ("ip" \in host'.ipcpOpts => "ip" \in host.ipcpOpts)
                   /\ tx' = tx \/ \E k, a : Say(k, a) /\ (k = "IREQ" => a = host'.ipcpOpts)
                                                       /\ k # "PAP"
           Quick == tx' = tx \/ \E k, a : Say(k, a) /\ k # "IREQ" /\ k # "PAP"
<1> SUFFICES Goal
  OBVIOUS
<1>0. host \in HostType
  BY DEF TypeInv
<1>1. HandleLcp(host, m) \/ HandleAuth(host, m) \/ HandleIpcp(host, m) \/ Silent(host)
  BY DEF Engine
<1>2. ASSUME Agreed(host') = Agreed(host), Quick PROVE Goal
  BY <1>2 DEF Agreed
<1> HIDE DEF m, Goal, Quick
<1>3. CASE HandleLcp(host, m)
  <2>1. \/ PeerRequest(host, m.a) /\ m.k = "LREQ"
        \/ \E v \in BOOLEAN : host' = [host EXCEPT !.lcpUp = v]
        \/ \E v : host' = [host EXCEPT !.lcpOpts = v]
    BY <1>3 DEF HandleLcp, Silent, Reply
  <2>2. Quick
    BY <1>3 DEF HandleLcp, PeerRequest, Silent, Reply, Quick
  <2>3. CASE PeerRequest(host, m.a) /\ m.k = "LREQ"
    <3> DEFINE g == [host EXCEPT !.seen = TRUE]
               p1 == [g EXCEPT !.auth = "pap"]
               p2 == [p1 EXCEPT !.authUp = FALSE]
               c1 == [g EXCEPT !.auth = "chap"]
               c2 == [c1 EXCEPT !.authUp = FALSE]
               c3 == [c2 EXCEPT !.naked = TRUE]
    <3>1. host' \in {g, c2, c3} \/ (host' = p2 /\ m.a = {"pap"})
      BY <2>3 DEF PeerRequest, Reply
    <3> HIDE DEF g, p1, p2, c1, c2, c3
    <3>2. g \in HostType /\ Agreed(g) = Agreed(host)
      BY <1>0, HostUpdates, AgreedUpdates DEF g
    <3>3. p1 \in HostType /\ p1.ip = g.ip /\ p1.ipcpOpts = g.ipcpOpts /\ p1.ipcpUp = g.ipcpUp
      BY <3>2 DEF p1, HostType
    <3>4. Agreed(p2) = Agreed(p1)
      BY <3>3, AgreedUpdates DEF p2
    <3>5. c1 \in HostType /\ c1.ip = g.ip /\ c1.ipcpOpts = g.ipcpOpts /\ c1.ipcpUp = g.ipcpUp
          /\ c1.auth = "chap"
      BY <3>2 DEF c1, HostType
    <3>6. c2 \in HostType /\ Agreed(c2) = Agreed(c1)
      BY <3>5, HostUpdates, AgreedUpdates DEF c2
    <3>7. Agreed(c3) = Agreed(c1)
      BY <3>6, AgreedUpdates DEF c3
    <3>8. /\ host'.ip = host.ip /\ host'.ipcpOpts = host.ipcpOpts /\ host'.ipcpUp = host.ipcpUp
          /\ host'.auth = "pap" => host.auth = "pap" \/ m.a = {"pap"}
      BY <3>1, <3>2, <3>3, <3>4, <3>5, <3>6, <3>7 DEF Agreed
    <3> QED
      BY <2>2, <2>3, <3>8 DEF Goal, Quick
  <2>4. ASSUME NEW v \in BOOLEAN, host' = [host EXCEPT !.lcpUp = v] PROVE Goal
    BY <1>0, <1>2, <2>2, <2>4, AgreedUpdates
  <2>5. ASSUME NEW v, host' = [host EXCEPT !.lcpOpts = v] PROVE Goal
    BY <1>0, <1>2, <2>2, <2>5, AgreedUpdates
  <2> QED
    BY <2>1, <2>3, <2>4, <2>5
<1>4. CASE HandleAuth(host, m)
  <2>1. Agreed(host') = Agreed(host)
    BY <1>0, <1>4, AgreedUpdates DEF HandleAuth, Silent, Reply
  <2>2. Quick
    BY <1>4 DEF HandleAuth, Silent, Reply, Quick
  <2> QED
    BY <1>2, <2>1, <2>2
<1>5. CASE HandleIpcp(host, m)
  <2> DEFINE o == host.ipcpOpts \union {IF m.k = "IREJ" THEN "nonb" ELSE "ip"}
             h1 == [host EXCEPT !.ipcpOpts = o]
             h2 == [h1 EXCEPT !.ip = h1.ip \/ m.k = "INAK"]
  <2>1. \/ host' = host /\ Quick
        \/ m.k = "IACK" /\ host' = [host EXCEPT !.ipcpUp = TRUE] /\ Quick
        \/ m.k \in {"INAK", "IREJ"} /\ host' = h2 /\ Say("IREQ", o)
    BY <1>5 DEF HandleIpcp, Silent, Reply, Quick
  <2>2. o \in SUBSET {"ip", "nonb"}
    BY <1>0 DEF HostType
  <2>3. h1 \in HostType /\ h1.ip = host.ip /\ h1.ipcpOpts = o /\ h1.ipcpUp = host.ipcpUp
        /\ h1.auth = host.auth
    BY <1>0, <2>2 DEF HostType
  <2>4. m.k = "INAK" \/ ("ip" \in o /\ m.k = "IREJ" => "ip" \in host.ipcpOpts)
    OBVIOUS
  <2> HIDE DEF h1, o
  <2>5. h2.ip = (h1.ip \/ m.k = "INAK") /\ h2.ipcpOpts = o /\ h2.ipcpUp = host.ipcpUp
        /\ h2.auth = host.auth
    BY <2>3 DEF HostType
  <2> HIDE DEF h2
  <2>6. CASE host' = host /\ Quick
    BY <1>2, <2>6
  <2>7. CASE m.k = "IACK" /\ host' = [host EXCEPT !.ipcpUp = TRUE] /\ Quick
    BY <1>0, <2>7 DEF HostType, Goal, Quick
  <2>8. CASE m.k \in {"INAK", "IREJ"} /\ host' = h2 /\ Say("IREQ", o)
    BY <2>3, <2>4, <2>5, <2>8 DEF Goal
  <2> QED
    BY <2>1, <2>6, <2>7, <2>8
<1>6. CASE Silent(host)
  BY <1>2, <1>6 DEF Silent, Quick
<1> QED
  BY <1>1, <1>3, <1>4, <1>5, <1>6

(* A dial starts with nothing on the way, and _run() is alone then.         *)
BootInv ==
    pc["run"] = "boot" =>
        pc["con"] = "none" /\ tx = <<>> /\ host.fwd = "off" /\ ~peer.agreed

LEMMA BootInit == Init => BootInv
BY DEF Init, BootInv, Thread

LEMMA BootNext ==
    ASSUME TypeInv, BootInv, [Next]_vars
    PROVE  BootInv'
<1>0. /\ pc \in [Thread -> RunPc \union ConPc] /\ Thread = {"run", "con"}
      /\ host \in HostType /\ peer \in PeerType
  BY DEF TypeInv, PcOK, Thread
<1>1. ASSUME pc["run"] # "boot", pc'["run"] = pc["run"] PROVE BootInv'
  BY <1>1 DEF BootInv
<1>2. ASSUME pc'["run"] # "boot" PROVE BootInv'
  BY <1>2 DEF BootInv
<1>3. ASSUME pc["run"] = "boot", UNCHANGED <<pc, tx, peer>>, host'.fwd = host.fwd PROVE BootInv'
  BY <1>3 DEF BootInv
<1>4. CASE Dial
  <2>1. PICK s \in Setups : peer' = [NoPeer EXCEPT !.mode = "data", !.s = s,
                                     !.alg = IF s.auth = "md5" THEN "md5" ELSE "other"]
    BY <1>4 DEF Dial
  <2>2. ~peer'.agreed
    BY <2>1 DEF NoPeer
  <2>3. pc'["con"] = "none" /\ tx' = <<>> /\ host'.fwd = "off"
    BY <1>0, <1>4 DEF Dial, CanDial, Goto, HostType
  <2> QED
    BY <2>2, <2>3 DEF BootInv
<1>5. CASE RunStep
  <2>1. \/ UNCHANGED pc /\ pc["run"] = "auth"
        \/ \E l : l # "boot" /\ pc' = [pc EXCEPT !["run"] = l]
    <3>1. CASE Boot \/ LcpWait \/ Grace
      BY <3>1 DEF Boot, LcpWait, Grace, AfterGrace, AskIpcp, Goto
    <3>2. CASE PapSend \/ AuthOver \/ AuthReleased
      BY <3>2 DEF PapSend, AuthOpen, AuthOver, AuthReleased, AskIpcp, Goto
    <3>3. CASE IpcpWait \/ StartTun \/ RunLoopEnds
      BY <3>3 DEF IpcpWait, StartTun, RunLoopEnds, Goto
    <3> QED
      BY <1>5, <3>1, <3>2, <3>3 DEF RunStep
  <2>2. pc'["run"] # "boot"
    BY <1>0, <2>1
  <2> QED
    BY <1>2, <2>2
<1>6. CASE DialFails \/ CallStop \/ LinkDown
  <2>1. pc["run"] # "boot" /\ pc'["run"] = pc["run"]
    BY <1>0, <1>6 DEF DialFails, CallStop, LinkDown, CanDial, Stop, Goto
  <2> QED
    BY <1>1, <2>1
<1>7. ASSUME NEW t \in Thread, DiscStep(t) PROVE BootInv'
  <2>1. CASE t = "run"
    <3>1. pc'["run"] # "boot"
      BY <1>0, <1>7, <2>1 DEF DiscStep, DiscTun, DiscJoin, DiscFeed, DiscTerm, DiscEsc,
         DiscCarrier, DiscOk, Terminate, Escape, After, Goto
    <3> QED
      BY <1>2, <3>1
  <2>2. CASE t = "con"
    <3>1. pc'["run"] = pc["run"] /\ pc["con"] # "none"
      BY <1>0, <1>7, <2>2 DEF DiscStep, DiscTun, DiscJoin, DiscFeed, DiscTerm, DiscEsc,
         DiscCarrier, DiscOk, Terminate, Escape, Goto
    <3> QED
      BY <1>1, <3>1 DEF BootInv
  <2> QED
    BY <1>0, <2>1, <2>2
<1>8. CASE StopStep
  <2>1. pc'["run"] = pc["run"] /\ pc["con"] # "none"
    BY <1>0, <1>8 DEF StopStep, StopFlag, StopEnd, Goto
  <2> QED
    BY <1>1, <2>1 DEF BootInv
<1>9. CASE Engine
  BY <1>1, <1>9 DEF Engine, EngineAlive
<1>10. CASE FwdStep
  BY <1>1, <1>10 DEF FwdStep, FwdRead, FwdEnd, FwdSend, BootInv
<1>11. CASE ModemStep \/ Lose
  <2>1. tx # <<>> \/ UNCHANGED <<tx, peer>>
    BY <1>11 DEF ModemStep, Lose
  <2>2. UNCHANGED <<pc, host>>
    BY <1>11 DEF ModemStep, Lose
  <2> QED
    BY <2>1, <2>2 DEF BootInv
<1>12. CASE PeerDue \/ PeerData \/ LinkReset
  <2>1. UNCHANGED <<pc, host>> /\ peer'.agreed = peer.agreed /\ (tx' = tx \/ tx' = <<>>)
    BY <1>0, <1>12 DEF PeerDue, PeerData, LinkReset, PeerType
  <2> QED
    BY <2>1 DEF BootInv
<1>13. CASE Reader \/ PeerLeaves \/ UNCHANGED vars
  BY <1>1, <1>3, <1>13 DEF Reader, PeerLeaves, vars
<1> QED
  BY <1>4, <1>5, <1>6, <1>7, <1>8, <1>9, <1>10, <1>11, <1>12, <1>13 DEF Next, PeerStep

(* The peer is asked for an address only after it has named one.            *)
NoIp == {m \in TxMsg : m.k = "IREQ" => "ip" \notin m.a}

IpInv == host.ip \/ (tx \in Seq(NoIp) /\ "ip" \notin host.ipcpOpts)

LEMMA IpInit == Init => IpInv
BY DEF Init, IpInv, Fresh

LEMMA IpNext ==
    ASSUME TypeInv, BootInv, IpInv, [Next]_vars
    PROVE  IpInv'
<1>0. /\ host \in HostType /\ host' \in HostType /\ tx \in Seq(TxMsg)
      /\ tx' \in Seq(TxMsg)
  BY HostNext, QueueNext DEF TypeInv, QueueOK
<1>1. ASSUME NEW k, NEW a, Say(k, a), k = "IREQ" => "ip" \notin a, tx \in Seq(NoIp)
      PROVE  tx' \in Seq(NoIp)
  <2> DEFINE m == Msg(k, a)
  <2>1. tx' = Append(tx, m) /\ m.k = k /\ m.a = a
    BY <1>1 DEF Say, Msg
  <2> HIDE DEF m
  <2>2. m \in TxMsg
    <3>1. Len(tx') = Len(tx) + 1 /\ tx'[Len(tx')] = m /\ Len(tx) \in Nat
      BY <1>0, <2>1
    <3> QED
      BY <1>0, <3>1
  <2> QED
    BY <1>1, <2>1, <2>2 DEF NoIp
<1>2. ASSUME Agreed(host') = Agreed(host),
             \/ tx' = tx
             \/ \E k, a : Say(k, a) /\ (k = "IREQ" => a = host.ipcpOpts)
      PROVE  IpInv'
  BY <1>1, <1>2 DEF IpInv, Agreed
<1>3. ASSUME Agreed(host') = Agreed(host), tx # <<>>, tx' = Tail(tx) PROVE IpInv'
  BY <1>3 DEF IpInv, Agreed
<1>4. CASE Boot
  <2>1. tx = <<>> /\ ~host'.ip /\ host'.ipcpOpts = {} /\ Say("LREQ", host'.lcpOpts)
    BY <1>4 DEF BootInv, Boot, Reset, Fresh
  <2>2. tx \in Seq(NoIp)
    BY <2>1
  <2> QED
    BY <1>1, <2>1, <2>2 DEF IpInv
<1>5. CASE Engine
  <2>1. /\ host.ip => host'.ip
        /\ host'.ip \/ ("ip" \in host'.ipcpOpts => "ip" \in host.ipcpOpts)
        /\ tx' = tx \/ \E k, a : Say(k, a) /\ (k = "IREQ" => a = host'.ipcpOpts)
    BY <1>5, EngineLearns
  <2>2. CASE host'.ip
    BY <2>2 DEF IpInv
  <2>3. CASE ~host'.ip
    <3>1. tx \in Seq(NoIp) /\ "ip" \notin host'.ipcpOpts
      BY <2>1, <2>3 DEF IpInv
    <3>2. tx' \in Seq(NoIp)
      BY <1>1, <2>1, <3>1
    <3> QED
      BY <3>1, <3>2 DEF IpInv
  <2> QED
    BY <2>2, <2>3
<1>6. Engine \/ Boot \/ Agreed(host') = Agreed(host)
  BY AgreedStays
<1>7. CASE RunStep /\ ~Boot
  <2>1. tx' = tx \/ \E k, a : Say(k, a) /\ (k = "IREQ" => a = host.ipcpOpts)
    BY <1>7 DEF RunStep, LcpWait, Grace, AfterGrace, AskIpcp, PapSend,
       AuthOver, AuthReleased, IpcpWait, StartTun, RunLoopEnds
  <2> QED
    BY <1>2, <1>5, <1>6, <1>7, <2>1
<1>8. ASSUME NEW t \in Thread, DiscStep(t) PROVE IpInv'
  <2>1. CASE DiscEsc(t)
    <3> DEFINE r == <<Msg("ESC", {}), Msg("ATH", {})>>
    <3>1. tx' = tx \/ Say("ESC", {}) \/ tx' = tx \o r
      BY <2>1 DEF DiscEsc, Escape
    <3>2. r \in Seq(NoIp)
      BY DEF NoIp, TxMsg, HostKind, Msg
    <3> HIDE DEF r
    <3>3. tx' = tx \o r /\ tx \in Seq(NoIp) => tx' \in Seq(NoIp)
      BY <3>2
    <3> QED
      BY <1>2, <1>4, <1>5, <1>6, <3>1, <3>3 DEF IpInv, Agreed
  <2> QED
    BY <1>2, <1>4, <1>5, <1>6, <1>8, <2>1 DEF DiscStep, DiscTun, DiscJoin, DiscFeed, DiscTerm,
       DiscCarrier, DiscOk, Terminate
<1>9. CASE FwdStep
  BY <1>2, <1>4, <1>5, <1>6, <1>9 DEF FwdStep, FwdRead, FwdEnd, FwdSend
<1>10. CASE Dial \/ DialFails \/ CallStop \/ LinkDown \/ StopStep \/ Reader
  BY <1>2, <1>4, <1>5, <1>6, <1>10 DEF Dial, DialFails, CallStop, LinkDown, Stop, StopStep,
     StopFlag, StopEnd, Reader
<1>11. CASE PeerDue \/ PeerData \/ PeerLeaves \/ UNCHANGED vars
  BY <1>2, <1>4, <1>5, <1>6, <1>11 DEF PeerDue, PeerData, PeerLeaves, vars
<1>12. CASE ModemStep \/ Lose
  BY <1>2, <1>3, <1>4, <1>5, <1>6, <1>12 DEF ModemStep, Lose
<1>13. CASE LinkReset
  BY <1>13 DEF LinkReset, IpInv
<1> QED
  BY <1>4, <1>5, <1>7, <1>8, <1>9, <1>10, <1>11, <1>12, <1>13 DEF Next, PeerStep

(* The peer agrees to an address it has named, after authentication.        *)
PeerInv ==
    /\ peer.agreed => host.ip /\ (peer.s.auth # "none" => peer.authd)
    /\ peer.authd => peer.s.accepts /\ (peer.s.auth = "pap" \/ peer.alg = "md5")
    /\ peer.asked => peer.s.auth = "pap"

(* During a dial the peer forgets nothing.                                  *)
PeerGrows ==
    /\ peer'.s = peer.s
    /\ peer.agreed => peer'.agreed
    /\ peer.authd => peer'.authd
    /\ peer.asked => peer'.asked

LEMMA PeerInit == Init => PeerInv
BY DEF Init, PeerInv, NoPeer

LEMMA PeerModem ==
    ASSUME TypeInv, IpInv, PeerInv, ModemStep
    PROVE  PeerGrows /\ PeerInv'
<1> DEFINE c == Head(tx)
<1>0. peer \in PeerType /\ tx # <<>> /\ UNCHANGED host /\ tx \in Seq(TxMsg)
  BY DEF TypeInv, ModemStep, QueueOK
<1>1. ModemText(c) \/ PeerLcp(c) \/ PeerAuth(c) \/ PeerIpcp(c)
  BY DEF ModemStep
<1>2. c.k = "IREQ" /\ "ip" \in c.a => host.ip
  <2>1. tx \in Seq(NoIp) => c \in NoIp
    BY <1>0
  <2> QED
    BY <2>1 DEF IpInv, NoIp
<1> HIDE DEF c
<1>3. CASE ModemText(c)
  BY <1>0, <1>3 DEF ModemText, PeerGrows, PeerInv, PeerType
<1>4. CASE PeerLcp(c)
  <2> DEFINE g == [peer EXCEPT !.asks = 0]
  <2>1. CASE c.k = "LNAK"
    <3>1. peer' = [g EXCEPT !.alg = IF peer.s.auth = "other" THEN "md5" ELSE g.alg]
      BY <1>4, <2>1 DEF PeerLcp
    <3>2. g \in PeerType /\ g.s = peer.s /\ g.agreed = peer.agreed /\ g.authd = peer.authd
          /\ g.asked = peer.asked /\ g.alg = peer.alg
      BY <1>0 DEF PeerType
    <3> HIDE DEF g
    <3>3. /\ peer'.s = g.s /\ peer'.agreed = g.agreed /\ peer'.authd = g.authd
          /\ peer'.asked = g.asked /\ peer'.alg \in {"md5", g.alg}
      BY <3>1, <3>2 DEF PeerType
    <3> QED
      BY <1>0, <3>2, <3>3 DEF PeerGrows, PeerInv
  <2>2. CASE c.k # "LNAK"
    <3>1. /\ peer'.s = peer.s /\ peer'.agreed = peer.agreed /\ peer'.authd = peer.authd
          /\ peer'.asked = peer.asked /\ peer'.alg = peer.alg
      BY <1>0, <1>4, <2>2 DEF PeerLcp, PeerType
    <3> QED
      BY <1>0, <3>1 DEF PeerGrows, PeerInv
  <2> QED
    BY <2>1, <2>2
<1>5. CASE PeerAuth(c)
  <2> DEFINE ok == peer.s.accepts /\ (c.k = "PAP" \/ peer.alg = "md5")
  <2>1. \/ UNCHANGED peer
        \/ /\ peer' = [peer EXCEPT !.authd = ok]
           /\ peer.s.auth # "none" /\ (c.k = "PAP" <=> peer.s.auth = "pap")
    BY <1>5 DEF PeerAuth
  <2>2. CASE UNCHANGED peer
    BY <1>0, <2>2 DEF PeerGrows, PeerInv
  <2>3. CASE /\ peer' = [peer EXCEPT !.authd = ok]
             /\ peer.s.auth # "none" /\ (c.k = "PAP" <=> peer.s.auth = "pap")
    <3>1. /\ peer'.s = peer.s /\ peer'.agreed = peer.agreed /\ peer'.authd = ok
          /\ peer'.asked = peer.asked /\ peer'.alg = peer.alg
      BY <1>0, <2>3 DEF PeerType
    <3>2. peer.authd => ok
      BY <2>3 DEF PeerInv
    <3> QED
      BY <1>0, <2>3, <3>1, <3>2 DEF PeerGrows, PeerInv
  <2> QED
    BY <2>1, <2>2, <2>3
<1>6. CASE PeerIpcp(c)
  <2> DEFINE r == IF peer.s.picky /\ "nonb" \notin c.a THEN "IREJ"
                  ELSE IF "ip" \notin c.a THEN "INAK" ELSE "IACK"
             g == [peer EXCEPT !.agreed = peer.agreed \/ r = "IACK"]
  <2>1. UNCHANGED peer \/ (c.k = "IREQ" /\ Network /\ peer' = [g EXCEPT !.ipAsked = TRUE])
    BY <1>6 DEF PeerIpcp
  <2>2. r = "IACK" => "ip" \in c.a
    OBVIOUS
  <2>3. CASE UNCHANGED peer
    BY <1>0, <2>3 DEF PeerGrows, PeerInv
  <2>4. CASE c.k = "IREQ" /\ Network /\ peer' = [g EXCEPT !.ipAsked = TRUE]
    <3> HIDE DEF r
    <3>1. /\ g \in PeerType /\ g.s = peer.s /\ g.agreed = (peer.agreed \/ r = "IACK")
          /\ g.authd = peer.authd /\ g.asked = peer.asked /\ g.alg = peer.alg
      BY <1>0 DEF PeerType
    <3> HIDE DEF g
    <3>2. /\ peer'.s = g.s /\ peer'.agreed = g.agreed /\ peer'.authd = g.authd
          /\ peer'.asked = g.asked /\ peer'.alg = g.alg
      BY <2>4, <3>1 DEF PeerType
    <3> QED
      BY <1>0, <1>2, <2>2, <2>4, <3>1, <3>2 DEF PeerGrows, PeerInv, Network
  <2> QED
    BY <2>1, <2>3, <2>4
<1> QED
  BY <1>1, <1>3, <1>4, <1>5, <1>6

LEMMA PeerInvNext ==
    ASSUME TypeInv, BootInv, IpInv, PeerInv, [Next]_vars
    PROVE  PeerInv' /\ (Dial \/ PeerGrows)
<1>0. peer \in PeerType
  BY DEF TypeInv
<1>1. host.ip => host'.ip \/ Boot
  BY AgreedStays, EngineLearns DEF Agreed
<1>2. ASSUME UNCHANGED peer PROVE PeerInv' /\ PeerGrows
  <2>1. peer.agreed => ~Boot
    BY DEF Boot, BootInv
  <2> QED
    BY <1>1, <1>2, <2>1 DEF PeerInv, PeerGrows
<1>3. CASE Dial
  <2>1. PICK s \in Setups : peer' = [NoPeer EXCEPT !.mode = "data", !.s = s,
                                     !.alg = IF s.auth = "md5" THEN "md5" ELSE "other"]
    BY <1>3 DEF Dial
  <2>2. ~peer'.agreed /\ ~peer'.authd /\ ~peer'.asked
    BY <2>1 DEF NoPeer
  <2> QED
    BY <1>3, <2>2 DEF PeerInv
<1>4. CASE PeerDue
  <2> DEFINE g == [peer EXCEPT !.asks = peer.asks + 1]
  <2>1. \/ peer' = [peer EXCEPT !.chal = peer.chal + 1]
        \/ peer' = [g EXCEPT !.asked = (peer.s.auth = "pap")]
    BY <1>4 DEF PeerDue
  <2>2. g \in PeerType /\ g.s = peer.s /\ g.agreed = peer.agreed /\ g.authd = peer.authd
        /\ g.asked = peer.asked /\ g.alg = peer.alg
    BY <1>0 DEF PeerType
  <2> HIDE DEF g
  <2>3. /\ peer'.s = peer.s /\ peer'.agreed = peer.agreed /\ peer'.authd = peer.authd
        /\ peer'.asked \in {peer.asked, peer.s.auth = "pap"} /\ peer'.alg = peer.alg
    BY <1>0, <2>1, <2>2 DEF PeerType
  <2>4. UNCHANGED host
    BY <1>4 DEF PeerDue
  <2> QED
    BY <2>3, <2>4 DEF PeerInv, PeerGrows
<1>5. CASE ModemStep
  BY <1>5, PeerModem
<1>6. CASE PeerData \/ LinkReset
  <2>1. /\ UNCHANGED host /\ peer'.s = peer.s /\ peer'.agreed = peer.agreed
        /\ peer'.authd = peer.authd /\ peer'.asked = peer.asked /\ peer'.alg = peer.alg
    BY <1>0, <1>6 DEF PeerData, LinkReset, PeerType
  <2> QED
    BY <2>1 DEF PeerInv, PeerGrows
<1>7. CASE DialFails \/ CallStop \/ LinkDown \/ StopStep \/ Engine \/ Reader \/ FwdStep
  BY <1>2, <1>7 DEF DialFails, CallStop, LinkDown, Stop, StopStep, StopFlag, StopEnd, Engine,
     Reader, FwdStep, FwdRead, FwdEnd, FwdSend
<1>8. CASE RunStep
  BY <1>2, <1>8 DEF RunStep, Boot, LcpWait, Grace, PapSend, AuthOver, AuthReleased, IpcpWait,
     StartTun, RunLoopEnds
<1>9. ASSUME NEW t \in Thread, DiscStep(t) PROVE PeerInv' /\ PeerGrows
  BY <1>2, <1>9 DEF DiscStep, DiscTun, DiscJoin, DiscFeed, DiscTerm, DiscEsc, DiscCarrier, DiscOk
<1>10. CASE Lose \/ PeerLeaves \/ UNCHANGED vars
  BY <1>2, <1>10 DEF Lose, PeerLeaves, vars
<1> QED
  BY <1>3, <1>4, <1>5, <1>6, <1>7, <1>8, <1>9, <1>10 DEF Next, PeerStep

(* What is read goes to the parser, and both only get what the peer says.   *)
LEMMA FeedStays ==
    ASSUME NEW S, rx \in Seq(S), parser.q \in Seq(S), TypeInv, Msg("IP", {"rest"}) \in S, Feed
    PROVE  rx' \in Seq(S) /\ parser'.q \in Seq(S)
<1> DEFINE m == Head(rx)
<1>1. m \in S /\ Tail(rx) \in Seq(S)
  BY DEF Feed
<1>2. parser \in [q : Seq(Frame), phase : {"clear", "own", "open"}]
  BY DEF TypeInv, QueueOK
<1>3. ASSUME rx' = <<Msg("IP", {"rest"})>> \o Tail(rx), parser' = FirstPart(parser)
      PROVE  rx' \in Seq(S) /\ parser'.q \in Seq(S)
  <2> HIDE DEF m
  <2>1. <<Msg("IP", {"rest"})>> \in Seq(S)
    OBVIOUS
  <2>2. rx' \in Seq(S)
    BY <1>1, <1>3, <2>1
  <2> QED
    BY <1>2, <1>3, <2>2 DEF FirstPart
<1>4. Append(parser.q, m) \in Seq(S)
  BY <1>1
<1>5. ASSUME rx' = Tail(rx), parser' = LastPart(parser, m) \/ parser' = Whole(parser, m)
      PROVE  rx' \in Seq(S) /\ parser'.q \in Seq(S)
  <2> HIDE DEF m
  <2>1. parser'.q \in {parser.q, Append(parser.q, m)}
    <3>1. CASE parser' = LastPart(parser, m)
      BY <1>2, <3>1 DEF LastPart
    <3>2. CASE parser' = Whole(parser, m)
      BY <1>2, <3>2 DEF Whole
    <3> QED
      BY <1>5, <3>1, <3>2
  <2> QED
    BY <1>1, <1>4, <1>5, <2>1
<1> QED
  BY <1>3, <1>5 DEF Feed

LEMMA Heard ==
    ASSUME TypeInv, [Next]_vars, NEW S, rx \in Seq(S), parser.q \in Seq(S),
           Msg("IP", {"rest"}) \in S,
           \A k \in PeerKind \ {"IACK"} : Msg(k, {}) \in S,
           Msg("LREQ", {"md5"}) \in S, Msg("LREQ", {"other"}) \in S
    PROVE  \/ Dial
           \/ rx' \in Seq(S) /\ parser'.q \in Seq(S)
           \/ Msg("LREQ", {"pap"}) \notin S /\ peer'.asked
           \/ Msg("IACK", {}) \notin S /\ peer'.agreed
<1> DEFINE Goal == \/ rx' \in Seq(S) /\ parser'.q \in Seq(S)
                   \/ Msg("LREQ", {"pap"}) \notin S /\ peer'.asked
                   \/ Msg("IACK", {}) \notin S /\ peer'.agreed
<1> SUFFICES ASSUME ~Dial PROVE Goal
  OBVIOUS
<1>0. /\ parser \in [q : Seq(Frame), phase : {"clear", "own", "open"}] /\ peer \in PeerType
      /\ PeerKind = {"LREQ", "LACK", "LNAK", "LREJ", "TERM", "TERMACK", "PAPACK", "PAPNAK",
                     "CHAL", "SUCC", "FAIL", "IREQ", "IACK", "INAK", "IREJ", "IP",
                     "NOCARRIER", "OK"}
  BY DEF TypeInv, QueueOK, PeerKind, Text
<1>1. ASSUME UNCHANGED <<rx, parser>> PROVE Goal
  BY <1>1
<1>2. ASSUME Feed PROVE Goal
  BY <1>2, FeedStays
<1>3. ASSUME Drop PROVE Goal
  BY <1>3 DEF Drop
<1>4. ASSUME NEW m \in S, Tell(<<m>>), UNCHANGED parser PROVE Goal
  <2>1. <<m>> \in Seq(S)
    OBVIOUS
  <2>2. rx \o <<m>> \in Seq(S)
    BY <2>1
  <2> QED
    BY <1>4, <2>2 DEF Tell
<1>5. ASSUME NEW m \in S, NEW n \in S, Tell(<<m, n>>), UNCHANGED parser PROVE Goal
  <2>1. <<m, n>> \in Seq(S)
    OBVIOUS
  <2>2. rx \o <<m, n>> \in Seq(S)
    BY <2>1
  <2> QED
    BY <1>5, <2>2 DEF Tell
<1> HIDE DEF Goal
<1>6. ASSUME NEW k \in PeerKind \ {"IACK"}, Tell(<<Msg(k, {})>>), UNCHANGED parser PROVE Goal
  BY <1>4, <1>6
<1>7. CASE RunStep \/ FwdStep
  BY <1>1, <1>7 DEF RunStep, Boot, LcpWait, Grace, PapSend, AuthOver, AuthReleased, IpcpWait,
     StartTun, RunLoopEnds, FwdStep, FwdRead, FwdEnd, FwdSend
<1>8. CASE Engine
  <2>1. rx' = rx /\ parser'.q = Tail(parser.q) /\ parser.q # <<>>
    BY <1>0, <1>8 DEF Engine
  <2> QED
    BY <2>1 DEF Goal
<1>9. CASE Reader
  BY <1>2, <1>3, <1>9 DEF Reader
<1>10. ASSUME NEW t \in Thread, DiscStep(t) PROVE Goal
  BY <1>1, <1>2, <1>3, <1>10 DEF DiscStep, DiscTun, DiscJoin, DiscFeed, DiscTerm, DiscEsc,
     DiscCarrier, DiscOk, GotText, OtherText, NoText
<1>11. CASE CallStop \/ LinkDown \/ StopStep
  BY <1>1, <1>11 DEF CallStop, LinkDown, Stop, StopStep, StopFlag, StopEnd
<1>12. CASE DialFails \/ LinkReset
  <2>1. rx' = <<>> /\ parser' = parser
    BY <1>12 DEF DialFails, LinkReset
  <2> QED
    BY <2>1 DEF Goal
<1>13. CASE Lose
  <2>1. parser' = parser /\ (rx' = rx \/ (rx # <<>> /\ rx' = Tail(rx)))
    BY <1>13 DEF Lose
  <2> QED
    BY <2>1 DEF Goal
<1>14. CASE PeerLeaves \/ PeerData
  BY <1>0, <1>6, <1>14 DEF PeerLeaves, PeerData
<1>15. CASE PeerDue
  <2> DEFINE g == [peer EXCEPT !.asks = peer.asks + 1]
  <2>1. CASE Tell(<<Msg("CHAL", {})>>)
    BY <1>0, <1>6, <1>15, <2>1 DEF PeerDue
  <2>2. CASE peer' = [g EXCEPT !.asked = (peer.s.auth = "pap")]
    <3>1. \/ Tell(<<Msg("CHAL", {})>>) \/ Tell(<<Msg("LREQ", {})>>)
          \/ peer.s.auth = "pap" /\ Tell(<<Msg("LREQ", {"pap"})>>)
          \/ Tell(<<Msg("LREQ", {peer.alg})>>)
      BY <1>15 DEF PeerDue
    <3>2. peer.alg \in {"md5", "other"}
      BY <1>0 DEF PeerType
    <3>3. g \in PeerType
      <4>1. peer \in PeerType
        BY <1>0
      <4> QED
        BY <4>1 DEF PeerType
    <3> HIDE DEF g
    <3>4. peer.s.auth = "pap" => peer'.asked
      BY <2>2, <3>3 DEF PeerType
    <3>5. CASE peer.s.auth = "pap" /\ Tell(<<Msg("LREQ", {"pap"})>>)
      <4>1. CASE Msg("LREQ", {"pap"}) \in S
        BY <1>4, <1>15, <3>5, <4>1 DEF PeerDue
      <4>2. CASE Msg("LREQ", {"pap"}) \notin S
        BY <3>4, <3>5, <4>2 DEF Goal
      <4> QED
        BY <4>1, <4>2
    <3>6. CASE Tell(<<Msg("LREQ", {peer.alg})>>)
      BY <1>4, <1>15, <3>2, <3>6 DEF PeerDue
    <3> QED
      BY <1>0, <1>6, <1>15, <3>1, <3>5, <3>6 DEF PeerDue
  <2> QED
    BY <1>15, <2>1, <2>2 DEF PeerDue
<1>16. CASE ModemStep
  <2>0. UNCHANGED parser
    BY <1>16 DEF ModemStep
  <2>1. PICK c : ModemText(c) \/ PeerLcp(c) \/ PeerAuth(c) \/ PeerIpcp(c)
    BY <1>16 DEF ModemStep
  <2>2. CASE ModemText(c)
    <3>1. UNCHANGED rx \/ Tell(<<Msg("OK", {})>>)
      BY <2>2 DEF ModemText
    <3> QED
      BY <1>0, <1>1, <1>6, <2>0, <3>1
  <2>3. CASE PeerLcp(c)
    <3>1. peer.s \in Setup
      BY <1>0, PppAssumption DEF PeerType
    <3> DEFINE k == IF Objects(c.a) THEN peer.s.first ELSE "LACK"
    <3>2. k \in PeerKind \ {"IACK"}
      BY <1>0, <3>1 DEF Setup
    <3>3. \/ UNCHANGED rx \/ Tell(<<Msg(k, {})>>) \/ Tell(<<Msg("NOCARRIER", {})>>)
          \/ Tell(<<Msg("TERMACK", {}), Msg("NOCARRIER", {})>>)
      BY <2>3 DEF PeerLcp
    <3> HIDE DEF k
    <3>4. Msg("TERMACK", {}) \in S /\ Msg("NOCARRIER", {}) \in S
      BY <1>0
    <3> QED
      BY <1>0, <1>1, <1>5, <1>6, <2>0, <3>2, <3>3, <3>4
  <2>4. CASE PeerAuth(c)
    <3>1. UNCHANGED rx \/ \E k \in {"PAPACK", "PAPNAK", "SUCC", "FAIL"} : Tell(<<Msg(k, {})>>)
      BY <2>4 DEF PeerAuth
    <3> QED
      BY <1>0, <1>1, <1>6, <2>0, <3>1
  <2>5. CASE PeerIpcp(c)
    <3> DEFINE r == IF peer.s.picky /\ "nonb" \notin c.a THEN "IREJ"
                    ELSE IF "ip" \notin c.a THEN "INAK" ELSE "IACK"
               g == [peer EXCEPT !.agreed = peer.agreed \/ r = "IACK"]
    <3>1. \/ UNCHANGED rx
          \/ /\ Tell(<<Msg(r, {})>>) \/ Tell(<<Msg("IREQ", {}), Msg(r, {})>>)
             /\ peer' = [g EXCEPT !.ipAsked = TRUE]
      BY <2>5 DEF PeerIpcp
    <3>2. r \in {"IREJ", "INAK", "IACK"}
      OBVIOUS
    <3> HIDE DEF r
    <3>3. g \in PeerType /\ (r = "IACK" => g.agreed)
      BY <1>0 DEF PeerType
    <3> HIDE DEF g
    <3>4. peer' = [g EXCEPT !.ipAsked = TRUE] => (r = "IACK" => peer'.agreed)
      BY <3>3 DEF PeerType
    <3>5. Msg("IREQ", {}) \in S /\ (r # "IACK" => Msg(r, {}) \in S)
      BY <1>0, <3>2
    <3>6. CASE Msg(r, {}) \in S
      BY <1>1, <1>4, <1>5, <2>0, <3>1, <3>5, <3>6
    <3>7. CASE Msg(r, {}) \notin S
      BY <1>1, <2>0, <3>1, <3>4, <3>5, <3>7 DEF Goal
    <3> QED
      BY <3>6, <3>7
  <2> QED
    BY <2>1, <2>2, <2>3, <2>4, <2>5
<1>17. CASE UNCHANGED vars
  BY <1>1, <1>17 DEF vars
<1> QED
  BY <1>7, <1>8, <1>9, <1>10, <1>11, <1>12, <1>13, <1>14, <1>15, <1>16, <1>17 DEF Next, PeerStep

(* No answer is waiting that the peer of this dial has not given.           *)
NoIack == {m \in RxMsg : m.k # "IACK"}
NoPap == {m \in RxMsg : m.k = "LREQ" => m.a # {"pap"}}

HeardInv ==
    hist.clean =>
        /\ peer.agreed \/ (rx \in Seq(NoIack) /\ parser.q \in Seq(NoIack))
        /\ peer.asked \/ (rx \in Seq(NoPap) /\ parser.q \in Seq(NoPap))

LearnInv ==
    hist.clean /\ pc["run"] \notin {"none", "boot"} =>
        /\ host.ipcpUp => peer.agreed
        /\ host.auth = "pap" => peer.asked

LEMMA HeardInit == Init => HeardInv /\ LearnInv
BY DEF Init, HeardInv, LearnInv, Thread

LEMMA HistClean ==
    ASSUME TypeInv, [Next]_vars
    PROVE  Dial \/ hist'.clean = hist.clean
<1>0. hist \in HistType
  BY DEF TypeInv
<1>1. ASSUME UNCHANGED hist PROVE hist'.clean = hist.clean
  BY <1>1
<1>2. CASE CallStop \/ LinkDown
  BY <1>0, <1>2 DEF CallStop, LinkDown, Stop, HistType
<1>3. CASE FwdStep
  BY <1>0, <1>3 DEF FwdStep, FwdRead, FwdEnd, FwdSend, HistType
<1>4. ASSUME NEW t \in Thread, DiscStep(t) PROVE hist'.clean = hist.clean
  BY <1>0, <1>4 DEF DiscStep, DiscTun, DiscJoin, DiscFeed, DiscTerm, DiscEsc, DiscCarrier,
     DiscOk, Terminate, HistType
<1>5. CASE DialFails \/ StopStep \/ Engine \/ Reader
  BY <1>1, <1>5 DEF DialFails, StopStep, StopFlag, StopEnd, Engine, Reader
<1>6. CASE RunStep
  BY <1>1, <1>6 DEF RunStep, Boot, LcpWait, Grace, PapSend, AuthOver, AuthReleased, IpcpWait,
     StartTun, RunLoopEnds
<1>7. CASE PeerStep \/ Lose \/ PeerLeaves \/ LinkReset \/ UNCHANGED vars
  BY <1>1, <1>7 DEF PeerStep, PeerDue, PeerData, ModemStep, Lose, PeerLeaves, LinkReset, vars
<1> QED
  BY <1>2, <1>3, <1>4, <1>5, <1>6, <1>7 DEF Next

LEMMA HeardNext ==
    ASSUME TypeInv, BootInv, IpInv, PeerInv, HeardInv, [Next]_vars
    PROVE  HeardInv'
<1>1. CASE Dial
  <2> DEFINE c == parser = [q |-> <<>>, phase |-> "clear"]
             h == [hist EXCEPT !.clean = c]
             g == [h EXCEPT !.faults = faults]
  <2>1. hist' = [g EXCEPT !.stops = stops] /\ rx' = <<>> /\ parser' = parser
    BY <1>1 DEF Dial
  <2>3. hist'.clean => c
    <3>1. c \in BOOLEAN /\ faults \in Nat /\ hist \in HistType
      BY PppAssumption DEF TypeInv, CountOK
    <3>2. h \in HistType /\ h.clean = c
      BY <3>1 DEF HistType
    <3> HIDE DEF h
    <3>3. g \in HistType /\ g.clean = c
      BY <3>1, <3>2 DEF HistType
    <3> HIDE DEF g
    <3> QED
      BY <2>1, <3>3 DEF HistType
  <2>4. hist'.clean => parser'.q = <<>>
    BY <2>1, <2>3
  <2>5. <<>> \in Seq(NoIack) /\ <<>> \in Seq(NoPap)
    OBVIOUS
  <2> QED
    BY <2>1, <2>4, <2>5 DEF HeardInv
<1>2. CASE ~Dial
  <2>0. /\ hist'.clean = hist.clean
        /\ peer.agreed => peer'.agreed
        /\ peer.asked => peer'.asked
    BY <1>2, HistClean, PeerInvNext DEF PeerGrows
  <2>1. ASSUME rx \in Seq(NoIack), parser.q \in Seq(NoIack)
        PROVE  peer'.agreed \/ (rx' \in Seq(NoIack) /\ parser'.q \in Seq(NoIack))
    <3>1. /\ Msg("IP", {"rest"}) \in NoIack /\ \A k \in PeerKind \ {"IACK"} : Msg(k, {}) \in NoIack
          /\ Msg("LREQ", {"md5"}) \in NoIack /\ Msg("LREQ", {"other"}) \in NoIack
          /\ Msg("LREQ", {"pap"}) \in NoIack
      BY DEF NoIack, RxMsg, Msg, PeerKind, Option
    <3> QED
      BY <1>2, <2>1, <3>1, Heard
  <2>2. ASSUME rx \in Seq(NoPap), parser.q \in Seq(NoPap)
        PROVE  peer'.asked \/ (rx' \in Seq(NoPap) /\ parser'.q \in Seq(NoPap))
    <3>1. /\ Msg("IP", {"rest"}) \in NoPap /\ \A k \in PeerKind \ {"IACK"} : Msg(k, {}) \in NoPap
          /\ Msg("LREQ", {"md5"}) \in NoPap /\ Msg("LREQ", {"other"}) \in NoPap
          /\ Msg("IACK", {}) \in NoPap
      BY DEF NoPap, RxMsg, Msg, PeerKind, Option
    <3> QED
      BY <1>2, <2>2, <3>1, Heard
  <2> QED
    BY <2>0, <2>1, <2>2 DEF HeardInv
<1> QED
  BY <1>1, <1>2

LEMMA LearnNext ==
    ASSUME TypeInv, BootInv, IpInv, PeerInv, HeardInv, LearnInv, [Next]_vars
    PROVE  LearnInv'
<1>0. /\ pc \in [Thread -> RunPc \union ConPc] /\ Thread = {"run", "con"}
  BY DEF TypeInv, PcOK, Thread
<1>1. CASE Dial
  BY <1>0, <1>1 DEF Dial, Goto, LearnInv
<1>2. CASE Boot
  <2>1. ~host'.ipcpUp /\ host'.auth = "none"
    BY <1>2 DEF Boot, Reset, Fresh
  <2> QED
    BY <2>1 DEF LearnInv
<1>3. CASE ~Dial /\ ~Boot
  <2>0. /\ hist'.clean = hist.clean
        /\ peer.agreed => peer'.agreed
        /\ peer.asked => peer'.asked
    BY <1>3, HistClean, PeerInvNext DEF PeerGrows
  <2>1. CASE Engine
    <3> DEFINE m == Head(parser.q)
    <3>1. /\ host'.ipcpUp => host.ipcpUp \/ m.k = "IACK"
          /\ host'.auth = "pap" => host.auth = "pap" \/ (m.k = "LREQ" /\ m.a = {"pap"})
      BY <2>1, EngineLearns
    <3>2. UNCHANGED pc /\ parser.q # <<>>
      BY <2>1 DEF Engine
    <3>3. parser.q \in Seq(NoIack) => m.k # "IACK"
      <4>1. parser.q \in Seq(NoIack) => m \in NoIack
        BY <3>2
      <4> QED
        BY <4>1 DEF NoIack
    <3>4. parser.q \in Seq(NoPap) => ~(m.k = "LREQ" /\ m.a = {"pap"})
      <4>1. parser.q \in Seq(NoPap) => m \in NoPap
        BY <3>2
      <4> QED
        BY <4>1 DEF NoPap
    <3> HIDE DEF m
    <3> QED
      BY <2>0, <3>1, <3>2, <3>3, <3>4 DEF LearnInv, HeardInv
  <2>2. CASE ~Engine
    <3>1. Agreed(host') = Agreed(host)
      BY <1>3, <2>2, AgreedStays
    <3>2. pc["run"] \in {"none", "boot"} => pc'["run"] \in {"none", "boot"}
      <4>1. CASE RunStep
        BY <1>0, <1>3, <4>1 DEF RunStep, LcpWait, Grace, PapSend, AuthOpen, AuthOver, AuthReleased,
           IpcpWait, StartTun, RunLoopEnds
      <4>2. ASSUME NEW t \in Thread, DiscStep(t), t = "run" PROVE pc[t] \notin {"none", "boot"}
        BY <4>2 DEF DiscStep, DiscTun, DiscJoin, DiscFeed, DiscTerm, DiscEsc, DiscCarrier, DiscOk
      <4>3. ASSUME NEW t \in Thread, DiscStep(t), t = "con" PROVE pc'["run"] = pc["run"]
        BY <1>0, <4>3 DEF DiscStep, DiscTun, DiscJoin, DiscFeed, DiscTerm, DiscEsc, DiscCarrier,
           DiscOk, Terminate, Escape, Goto
      <4>4. CASE CallStop \/ LinkDown \/ StopStep
        BY <1>0, <4>4 DEF CallStop, LinkDown, Stop, StopStep, StopFlag, StopEnd, Goto
      <4>5. CASE UNCHANGED pc
        BY <4>5
      <4>6. DialFails \/ FwdStep \/ Reader \/ PeerStep \/ Lose \/ PeerLeaves \/ LinkReset
               \/ UNCHANGED vars => UNCHANGED pc
        BY DEF DialFails, FwdStep, FwdRead, FwdEnd, FwdSend, Reader, PeerStep, PeerDue, PeerData,
           ModemStep, Lose, PeerLeaves, LinkReset, vars
      <4> QED
        BY <1>0, <1>3, <2>2, <4>1, <4>2, <4>3, <4>4, <4>5, <4>6 DEF Next
    <3> QED
      BY <2>0, <3>1, <3>2 DEF LearnInv, Agreed
  <2> QED
    BY <2>1, <2>2
<1> QED
  BY <1>1, <1>2, <1>3

DialInv == BootInv /\ IpInv /\ PeerInv /\ HeardInv /\ LearnInv

LEMMA DialInvariant == Spec => [](TypeInv /\ DialInv)
<1>1. Init => DialInv
  BY BootInit, IpInit, PeerInit, HeardInit DEF DialInv
<1>2. TypeInv /\ DialInv /\ [Next]_vars => DialInv'
  BY BootNext, IpNext, PeerInvNext, HeardNext, LearnNext DEF DialInv
<1> QED
  BY <1>1, <1>2, TypeInvariant, PTL DEF Spec

(* PPP_IPCP_UP is fired only for a session the peer of this dial has agreed *)
(* to, after the authentication it asked for (_run(), _handle_ipcp()).      *)
THEOREM UpIsAgreed == Spec => UpMeansAgreed
<1> DEFINE A == host'.ready /\ ~host.ready /\ hist.clean =>
                    /\ peer.agreed /\ host.ip
                    /\ peer.s.auth # "none" => peer.authd
<1>1. TypeInv /\ DialInv /\ [Next]_vars => A
  <2> SUFFICES ASSUME TypeInv, DialInv, [Next]_vars, host'.ready, ~host.ready, hist.clean
               PROVE  /\ peer.agreed /\ host.ip
                      /\ peer.s.auth # "none" => peer.authd
    OBVIOUS
  <2>0. host \in HostType
    BY DEF TypeInv
  <2>1. IpcpWait /\ host.ipcpUp
    <3>1. CASE IpcpWait
      <4>1. RunEnds(host) => ~host'.ready
        BY <2>0 DEF RunEnds, HostType
      <4>2. host.ipcpUp \/ RunEnds(host)
        BY <3>1 DEF IpcpWait
      <4> QED
        BY <3>1, <4>1, <4>2
    <3>2. CASE Boot
      BY <3>2 DEF Boot, Reset, Fresh
    <3>3. CASE LcpWait
      BY <2>0, <3>3 DEF LcpWait, RunEnds, HostType
    <3>4. CASE AuthReleased
      BY <2>0, <3>4 DEF AuthReleased, RunEnds, HostType
    <3>5. CASE Grace \/ PapSend \/ AuthOver \/ StartTun \/ RunLoopEnds
      BY <2>0, <3>5 DEF Grace, PapSend, AuthOver, StartTun, RunLoopEnds, HostType
    <3>6. CASE Engine
      BY <2>0, <3>6, EngineHost DEF Threads
    <3>7. CASE Dial \/ DialFails \/ CallStop \/ LinkDown \/ StopStep
      BY <2>0, <3>7 DEF Dial, DialFails, CallStop, LinkDown, Stop, StopStep, StopFlag, StopEnd,
         HostType
    <3>8. CASE FwdStep
      BY <2>0, <3>8 DEF FwdStep, FwdRead, FwdEnd, FwdSend, HostType
    <3>9. ASSUME NEW t \in Thread, DiscStep(t) PROVE FALSE
      BY <2>0, <3>9 DEF DiscStep, DiscTun, DiscJoin, DiscFeed, DiscTerm, DiscEsc, DiscCarrier,
         DiscOk, HostType
    <3>10. CASE Reader \/ PeerStep \/ Lose \/ PeerLeaves \/ LinkReset \/ UNCHANGED vars
      BY <3>10 DEF Reader, PeerStep, PeerDue, PeerData, ModemStep, Lose, PeerLeaves, LinkReset, vars
    <3> QED
      BY <3>1, <3>2, <3>3, <3>4, <3>5, <3>6, <3>7, <3>8, <3>9, <3>10 DEF Next, RunStep
  <2> QED
    BY <2>1 DEF IpcpWait, DialInv, LearnInv, PeerInv
<1>2. TypeInv /\ DialInv /\ [Next]_vars => [A]_vars
  BY <1>1
<1> QED
  BY <1>2, DialInvariant, PTL DEF Spec, UpMeansAgreed

(* PAP credentials are sent only when the peer of this dial has asked for   *)
(* them (_run() and its reset of what an earlier dial has left).            *)
THEOREM CredentialsAsked == Spec => CredentialsOnRequest
<1> DEFINE A == hist.clean /\ tx' # tx /\ tx' # <<>> /\ tx'[Len(tx')].k = "PAP"
                    /\ Len(tx') > Len(tx) => peer.asked
<1>1. TypeInv /\ DialInv /\ [Next]_vars => A
  <2> SUFFICES ASSUME TypeInv, DialInv, [Next]_vars, hist.clean, tx' # tx, tx' # <<>>,
                      tx'[Len(tx')].k = "PAP", Len(tx') > Len(tx)
               PROVE  peer.asked
    OBVIOUS
  <2>0. tx \in Seq(TxMsg) /\ tx' \in Seq(TxMsg)
    BY QueueNext DEF TypeInv, QueueOK
  <2>1. ASSUME NEW k, NEW a, Say(k, a) PROVE k = "PAP"
    <3> DEFINE m == Msg(k, a)
               T == TxMsg \union {m}
    <3>1. tx \in Seq(T) /\ m \in T /\ m.k = k /\ tx' = Append(tx, m)
      BY <2>0, <2>1 DEF Msg, Say
    <3> HIDE DEF m, T
    <3>2. tx'[Len(tx')] = m
      BY <3>1
    <3> QED
      BY <3>1, <3>2
  <2>2. PapSend
    <3>1. CASE RunStep
      BY <2>1, <3>1 DEF RunStep, Boot, LcpWait, Grace, AfterGrace, AskIpcp, AuthOver,
         AuthReleased, IpcpWait, StartTun, RunLoopEnds
    <3>2. CASE Engine
      BY <2>1, <3>2, EngineLearns
    <3>3. CASE FwdStep
      BY <2>1, <3>3 DEF FwdStep, FwdRead, FwdEnd, FwdSend
    <3>4. ASSUME NEW t \in Thread, DiscEsc(t) PROVE FALSE
      <4> DEFINE r == <<Msg("ESC", {}), Msg("ATH", {})>>
      <4>1. tx' = tx \/ Say("ESC", {}) \/ tx' = tx \o r
        BY <3>4 DEF DiscEsc, Escape
      <4>2. r \in Seq(TxMsg) /\ Len(r) = 2 /\ r # <<>> /\ r[2].k = "ATH"
        BY DEF TxMsg, HostKind, Msg
      <4> HIDE DEF r
      <4>3. tx' = tx \o r => tx'[Len(tx')] = r[2]
        BY <2>0, <4>2, ConcatLast
      <4> QED
        BY <2>1, <4>1, <4>2, <4>3
    <3>5. ASSUME NEW t \in Thread, DiscStep(t) PROVE FALSE
      BY <2>1, <3>4, <3>5 DEF DiscStep, DiscTun, DiscJoin, DiscFeed, DiscTerm, DiscCarrier,
         DiscOk, Terminate
    <3>6. CASE Dial \/ DialFails \/ CallStop \/ LinkDown \/ StopStep \/ Reader
      BY <3>6 DEF Dial, DialFails, CallStop, LinkDown, Stop, StopStep, StopFlag, StopEnd, Reader
    <3>7. CASE PeerDue \/ PeerData \/ PeerLeaves \/ UNCHANGED vars
      BY <3>7 DEF PeerDue, PeerData, PeerLeaves, vars
    <3>8. CASE ModemStep \/ Lose
      <4>1. tx # <<>> /\ tx' = Tail(tx)
        BY <3>8 DEF ModemStep, Lose
      <4> QED
        BY <2>0, <4>1
    <3>9. CASE LinkReset
      BY <3>9 DEF LinkReset
    <3> QED
      BY <3>1, <3>2, <3>3, <3>5, <3>6, <3>7, <3>8, <3>9 DEF Next, PeerStep
  <2> QED
    BY <2>2 DEF PapSend, AuthOpen, DialInv, LearnInv
<1>2. TypeInv /\ DialInv /\ [Next]_vars => [A]_vars
  BY <1>1
<1> QED
  BY <1>2, DialInvariant, PTL DEF Spec, CredentialsOnRequest
=============================================================================
