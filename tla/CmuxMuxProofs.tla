---------------------------- MODULE CmuxMuxProofs ----------------------------
(***************************************************************************)
(* Theorems about the multiplexer's sessions: the types, and that the host *)
(* goes through the steps of MuxSession, whatever the modem and the line   *)
(* do, for every number of channels, sessions and faults; and what the     *)
(* answers are worth that the host counts on, as long as no more than two  *)
(* things go wrong: the invariant says which commands and answers may      *)
(* still wait in the queues, in which order, after how many faults.        *)
(***************************************************************************)
EXTENDS CmuxMux, WellFoundedInduction, TLAPS

-----------------------------------------------------------------------------
(* Numbers and queues                                                       *)

LEMMA LeastNat ==
    ASSUME NEW T \in SUBSET Nat, T # {}
    PROVE  \E x \in T : \A y \in T : x <= y
<1> DEFINE R == {ss \in Nat \X Nat : ss[1] < ss[2]}
<1>1. IsWellFoundedOn(R, Nat)
  BY NatLessThanWellFounded DEF OpToRel
<1>2. PICK x \in T : \A y \in T : ~(<<y, x>> \in R)
  <2> HIDE DEF R
  <2> QED
    BY <1>1, WFMin
<1>3. ASSUME NEW y \in T PROVE x <= y
  <2>1. <<y, x>> \in Nat \X Nat /\ ~(y < x)
    BY <1>2
  <2> QED
    BY <2>1
<1> QED
  BY <1>3

LEMMA MinOf ==
    ASSUME NEW T \in SUBSET Nat, T # {}
    PROVE  Min(T) \in T
<1>1. PICK x \in T : \A y \in T : x <= y
  BY LeastNat
<1> QED
  BY <1>1 DEF Min

(* A property of 0 that each number hands on holds up to n.                 *)
LEMMA UpTo ==
    ASSUME NEW n \in Nat, NEW P \in SUBSET Nat, 0 \in P,
           \A i \in 1 .. n : i - 1 \in P => i \in P
    PROVE  0 .. n \subseteq P
<1> DEFINE T == (0 .. n) \ P
<1> SUFFICES ASSUME T # {} PROVE FALSE
  OBVIOUS
<1>0. T \in SUBSET Nat
  OBVIOUS
<1>1. PICK x \in T : \A y \in T : x <= y
  <2> HIDE DEF T
  <2> QED
    BY <1>0, LeastNat
<1>2. x \in 1 .. n /\ x - 1 \in 0 .. n /\ x - 1 \notin T
  BY <1>1
<1> QED
  BY <1>1, <1>2

Answers == [k : TextKind \union FrameKind, d : Dlci]
FrameMsg == [k : FrameKind, d : Dlci]

(* Frames() as a function of the length of the prefix it has looked at.     *)
LEMMA FramesFunction ==
    ASSUME NEW q \in Seq(Answers)
    PROVE  \E F : /\ Frames(q) = F[Len(q)]
                  /\ F[0] = <<>>
                  /\ \A i \in 1 .. Len(q) :
                        F[i] = IF q[i].k \in FrameKind THEN Append(F[i - 1], q[i]) ELSE F[i - 1]
<1> DEFINE Next1(f, i) == IF i = 0 THEN <<>>
                          ELSE IF q[i].k \in FrameKind THEN Append(f[i - 1], q[i]) ELSE f[i - 1]
           Is(f, n) == f = [i \in 0 .. n |-> Next1(f, i)]
           N == Len(q)
<1>0. N \in Nat /\ \A i \in 1 .. N : q[i] \in Answers
  OBVIOUS
<1>1. \E f : Is(f, N)
  <2> DEFINE P == {n \in Nat : n <= N => \E f : Is(f, n)}
  <2>1. 0 \in P
    <3>1. Is([i \in 0 .. 0 |-> <<>>], 0)
      OBVIOUS
    <3> QED
      BY <3>1
  <2>2. ASSUME NEW i \in 1 .. N, i - 1 \in P PROVE i \in P
    <3>0. i \in Nat /\ i - 1 \in Nat /\ i - 1 <= N /\ i # 0
      BY <1>0
    <3>1. PICK f : Is(f, i - 1)
      <4> HIDE DEF Is
      <4> QED
        BY <2>2, <3>0
    <3> DEFINE v == Next1(f, i)
               g == [j \in 0 .. i |-> IF j = i THEN v ELSE f[j]]
    <3>2. g[i] = Next1(g, i)
      <4>1. g[i] = v /\ g[i - 1] = f[i - 1]
        BY <3>0
      <4> HIDE DEF g
      <4> QED
        BY <3>0, <4>1
    <3>3. ASSUME NEW j \in 0 .. i - 1 PROVE g[j] = Next1(g, j)
      <4>1. f[j] = Next1(f, j)
        BY <3>1
      <4>2. g[j] = f[j] /\ (j # 0 => g[j - 1] = f[j - 1])
        <5> HIDE DEF v
        <5> QED
          BY <3>0
      <4> HIDE DEF g, v
      <4> QED
        BY <4>1, <4>2
    <3>4. Is(g, i)
      <4>1. \A j \in 0 .. i : g[j] = Next1(g, j)
        <5> HIDE DEF g, Next1
        <5> QED
          BY <3>0, <3>2, <3>3
      <4>2. g = [j \in 0 .. i |-> g[j]]
        OBVIOUS
      <4> HIDE DEF g, Next1
      <4> QED
        BY <4>1, <4>2
    <3> HIDE DEF g, Is
    <3> QED
      BY <3>0, <3>4
  <2>3. 0 .. N \subseteq P
    <3>1. P \in SUBSET Nat
      OBVIOUS
    <3> HIDE DEF P
    <3> QED
      BY <1>0, <2>1, <2>2, <3>1, UpTo
  <2> HIDE DEF Is
  <2> QED
    BY <1>0, <2>3
<1> DEFINE F == CHOOSE f : Is(f, N)
<1>2. Is(F, N)
  <2> HIDE DEF Is
  <2> QED
    BY <1>1
<1>3. Frames(q) = F[N]
  BY DEF Frames
<1> HIDE DEF F
<1>4. ASSUME NEW j \in 0 .. N PROVE F[j] = Next1(F, j)
  <2> DEFINE G == [i \in 0 .. N |-> Next1(F, i)]
  <2>1. G[j] = Next1(F, j)
    OBVIOUS
  <2>2. F = G
    BY <1>2
  <2> HIDE DEF G, Next1
  <2> QED
    BY <2>1, <2>2
<1>5. F[0] = <<>>
  <2>1. F[0] = Next1(F, 0) /\ Next1(F, 0) = <<>>
    BY <1>0, <1>4
  <2> HIDE DEF Next1
  <2> QED
    BY <2>1
<1>6. ASSUME NEW i \in 1 .. N
      PROVE  F[i] = IF q[i].k \in FrameKind THEN Append(F[i - 1], q[i]) ELSE F[i - 1]
  <2>1. F[i] = Next1(F, i) /\ i # 0
    BY <1>0, <1>4
  <2> QED
    BY <2>1
<1> QED
  BY <1>3, <1>5, <1>6

(* Frames() picks frames.                                                   *)
LEMMA FramesType ==
    ASSUME NEW q \in Seq(Answers)
    PROVE  Frames(q) \in Seq(FrameMsg)
<1> DEFINE N == Len(q)
<1>0. N \in Nat /\ \A i \in 1 .. N : q[i] \in Answers
  OBVIOUS
<1>1. PICK F : /\ Frames(q) = F[N]
               /\ F[0] = <<>>
               /\ \A i \in 1 .. N :
                     F[i] = IF q[i].k \in FrameKind THEN Append(F[i - 1], q[i]) ELSE F[i - 1]
  BY FramesFunction
<1> DEFINE P == {n \in Nat : n <= N => F[n] \in Seq(FrameMsg)}
<1>2. 0 \in P
  <2>1. <<>> \in Seq(FrameMsg)
    OBVIOUS
  <2> QED
    BY <1>1, <2>1
<1>3. ASSUME NEW i \in 1 .. N, i - 1 \in P PROVE i \in P
  <2>1. F[i - 1] \in Seq(FrameMsg)
    BY <1>0, <1>3
  <2>2. q[i].k \in FrameKind => q[i] \in FrameMsg
    BY <1>0 DEF Answers, FrameMsg
  <2>3. F[i] = IF q[i].k \in FrameKind THEN Append(F[i - 1], q[i]) ELSE F[i - 1]
    BY <1>1
  <2>4. F[i] \in Seq(FrameMsg)
    BY <2>1, <2>2, <2>3
  <2>5. i \in Nat
    BY <1>0
  <2> QED
    BY <2>4, <2>5
<1>4. P \in SUBSET Nat
  OBVIOUS
<1> HIDE DEF P
<1>5. 0 .. N \subseteq P
  BY <1>0, <1>2, <1>3, <1>4, UpTo
<1> QED
  BY <1>0, <1>1, <1>5 DEF P

(* What is left of a queue behind a frame of a channel.                     *)
LEMMA FromType ==
    ASSUME NEW q \in Seq(FrameMsg), NEW d, NEW kinds, FramesOf(q, d, kinds) # {}
    PROVE  /\ Min(FramesOf(q, d, kinds)) \in DOMAIN q
           /\ From(q, Min(FramesOf(q, d, kinds))) \in Seq(FrameMsg)
<1> DEFINE T == FramesOf(q, d, kinds)
<1>1. T \in SUBSET (1 .. Len(q)) /\ Len(q) \in Nat
  BY DEF FramesOf
<1>2. Min(T) \in T
  <2>1. T \in SUBSET Nat /\ T # {}
    BY <1>1
  <2> HIDE DEF T
  <2> QED
    BY <2>1, MinOf
<1>3. Min(T) \in 1 .. Len(q)
  BY <1>1, <1>2
<1>4. From(q, Min(T)) \in Seq(FrameMsg)
  <2> HIDE DEF T
  <2> QED
    BY <1>1, <1>3 DEF From
<1> QED
  BY <1>3, <1>4

-----------------------------------------------------------------------------
(* Types                                                                    *)

Speeds == {Entry, setup.speed}
Hosts == [pc : HostPc, baud : Speeds, established : BOOLEAN,
          dlc : [Dlci -> BOOLEAN], frames : Seq(FrameMsg),
          cmd : Form \union {"SABM"}, pending : BOOLEAN, recovering : BOOLEAN,
          ch : Dlci, n : 0 .. Rounds, stage : 1 .. 3]
Commands == [k : Command, d : Dlci, baud : Speeds]
Modems == [mode : {"at", "mux"}, baud : Speeds, open : SUBSET Dlci]
Histories == [report : {"none", "at", "stuck", "killed"}, mark : 0 .. MaxFaults,
              wasUp : BOOLEAN, cut : BOOLEAN, text : SUBSET {"UIH_OK", "UIH_ERROR"}]

USE DEF Rounds

LEMMA Channel0 ==
    /\ 0 \in Dlci /\ Channels \in Dlci /\ Data \subseteq Dlci
    /\ \A d \in Dlci : d < Channels => d + 1 \in Dlci
BY MuxAssumption DEF Dlci, Data

LEMMA SetupType ==
    ASSUME setup \in Setups
    PROVE  /\ setup \in Setup
           /\ setup.form \in Form /\ setup.grants \in SUBSET Data
           /\ setup.speed \in Speeds /\ Entry \in Speeds
BY MuxAssumption DEF Setup, Speeds

(* One field at a time.                                                     *)
LEMMA HostUpdates ==
    ASSUME NEW h \in Hosts
    PROVE  /\ \A x \in HostPc : [h EXCEPT !.pc = x] \in Hosts
           /\ \A x \in Speeds : [h EXCEPT !.baud = x] \in Hosts
           /\ \A x \in BOOLEAN : [h EXCEPT !.established = x] \in Hosts
           /\ \A x \in [Dlci -> BOOLEAN] : [h EXCEPT !.dlc = x] \in Hosts
           /\ \A x \in Seq(FrameMsg) : [h EXCEPT !.frames = x] \in Hosts
           /\ \A x \in Form \union {"SABM"} : [h EXCEPT !.cmd = x] \in Hosts
           /\ \A x \in BOOLEAN : [h EXCEPT !.pending = x] \in Hosts
           /\ \A x \in BOOLEAN : [h EXCEPT !.recovering = x] \in Hosts
           /\ \A x \in Dlci : [h EXCEPT !.ch = x] \in Hosts
           /\ \A x \in 0 .. Rounds : [h EXCEPT !.n = x] \in Hosts
           /\ \A x \in 1 .. 3 : [h EXCEPT !.stage = x] \in Hosts
BY DEF Hosts

LEMMA FreshType ==
    ASSUME setup \in Setups
    PROVE  Fresh \in Hosts
<1>1. [d \in Dlci |-> FALSE] \in [Dlci -> BOOLEAN] /\ <<>> \in Seq(FrameMsg)
  OBVIOUS
<1>2. "off" \in HostPc /\ "bare" \in Form /\ Entry \in Speeds /\ 0 \in Dlci
  BY Channel0 DEF HostPc, Form, Speeds
<1> QED
  BY <1>1, <1>2 DEF Fresh, Hosts

LEMMA WarmupHost ==
    ASSUME NEW h \in Hosts, NEW c \in Form \union {"SABM"}, NEW b \in BOOLEAN
    PROVE  [h EXCEPT !.pc = "resp", !.cmd = c, !.pending = b] \in Hosts
BY DEF Hosts, HostPc

LEMMA ProbeHost ==
    ASSUME NEW h \in Hosts, NEW x \in 0 .. Rounds, NEW y \in 1 .. 3
    PROVE  /\ [h EXCEPT !.pc = "probe", !.n = x, !.stage = y] \in Hosts
           /\ [h EXCEPT !.stage = y, !.n = x] \in Hosts
BY DEF Hosts, HostPc

LEMMA FailedHost ==
    ASSUME NEW h \in Hosts
    PROVE  Failed(h) \in Hosts
BY DEF Hosts, HostPc, Failed

LEMMA SendType ==
    ASSUME NEW h \in Hosts, NEW k \in Command, NEW d \in Dlci,
           tx \in Seq(Commands), Send(h, k, d)
    PROVE  tx' \in Seq(Commands)
<1>1. [k |-> k, d |-> d, baud |-> h.baud] \in Commands
  BY DEF Hosts, Commands
<1> QED
  BY <1>1 DEF Send

LEMMA AnswerType ==
    ASSUME NEW q \in Seq(Answers), NEW k \in TextKind \union FrameKind, NEW d \in Dlci
    PROVE  Answer(q, k, d) \in Seq(Answers)
<1>1. [k |-> k, d |-> d] \in Answers
  BY DEF Answers
<1> QED
  BY <1>1 DEF Answer

LEMMA DlcDoneType ==
    ASSUME NEW h \in Hosts, NEW granted \in BOOLEAN, tx \in Seq(Commands),
           DlcDone(h, granted)
    PROVE  host' \in Hosts /\ tx' \in Seq(Commands)
<1>0. /\ Failed(h) \in Hosts /\ 0 \in Dlci /\ h.ch \in Dlci /\ h.dlc \in [Dlci -> BOOLEAN]
      /\ "SABM" \in Command
  BY FailedHost, Channel0 DEF Hosts, Command
<1> DEFINE g == [h EXCEPT !.dlc[h.ch] = @ \/ granted, !.established = TRUE]
<1>1. g \in Hosts
  <2>1. [h.dlc EXCEPT ![h.ch] = @ \/ granted] \in [Dlci -> BOOLEAN]
    BY <1>0
  <2>2. g = [h EXCEPT !.dlc = [h.dlc EXCEPT ![h.ch] = @ \/ granted], !.established = TRUE]
    OBVIOUS
  <2> QED
    BY <2>1, <2>2 DEF Hosts
<1>2. g.ch = h.ch
  BY DEF Hosts
<1>3. CASE h.ch = 0 /\ ~granted
  <2>1. CASE h.n = 1
    <3>1. host' = [h EXCEPT !.n = 2] /\ Send(h, "SABM", 0)
      BY <1>3, <2>1 DEF DlcDone
    <3>2. [h EXCEPT !.n = 2] \in Hosts
      <4>1. 2 \in 0 .. Rounds
        OBVIOUS
      <4> QED
        BY <4>1, HostUpdates
    <3> QED
      BY <1>0, <3>1, <3>2, SendType
  <2>2. CASE h.n # 1
    BY <1>0, <1>3, <2>2 DEF DlcDone
  <2> QED
    BY <2>1, <2>2
<1>4. CASE ~(h.ch = 0 /\ ~granted)
  <2>1. CASE h.ch < Channels
    <3>1. host' = [g EXCEPT !.ch = @ + 1, !.n = 1] /\ Send(g, "SABM", h.ch + 1)
      BY <1>4, <2>1 DEF DlcDone
    <3>2. h.ch + 1 \in Dlci
      BY <1>0, <2>1, Channel0
    <3> HIDE DEF g
    <3>3. [g EXCEPT !.ch = @ + 1, !.n = 1] \in Hosts
      <4> DEFINE c == h.ch + 1
                 a == [g EXCEPT !.ch = c]
      <4>1. a \in Hosts /\ 1 \in 0 .. Rounds
        <5>1. c \in Dlci
          BY <3>2
        <5> HIDE DEF c
        <5>2. a \in Hosts
          BY <1>1, <5>1 DEF Hosts
        <5>3. 1 \in 0 .. Rounds
          OBVIOUS
        <5> HIDE DEF a
        <5> QED
          BY <5>2, <5>3
      <4>2. [a EXCEPT !.n = 1] \in Hosts
        <5> HIDE DEF a
        <5> QED
          BY <4>1, HostUpdates
      <4> QED
        BY <1>1, <1>2, <4>2 DEF Hosts
    <3> QED
      BY <1>0, <1>1, <3>1, <3>2, <3>3, SendType
  <2>2. CASE ~(h.ch < Channels)
    <3>1. host' = [g EXCEPT !.pc = "up", !.recovering = FALSE] /\ UNCHANGED tx
      BY <1>4, <2>2 DEF DlcDone
    <3> HIDE DEF g
    <3>2. [g EXCEPT !.pc = "up", !.recovering = FALSE] \in Hosts
      BY <1>1 DEF Hosts, HostPc
    <3> QED
      BY <3>1, <3>2
  <2> QED
    BY <2>1, <2>2
<1> QED
  BY <1>3, <1>4

LEMMA NextDiscType ==
    ASSUME NEW h \in Hosts, tx \in Seq(Commands), NextDisc(h)
    PROVE  host' \in Hosts /\ tx' \in Seq(Commands)
<1> DEFINE open == {d \in Data : d > h.ch /\ h.dlc[d]}
<1>0. "DISC" \in Command /\ "CLD" \in Command /\ 0 \in Dlci
  BY Channel0 DEF Command
<1>1. CASE open # {}
  <2>1. host' = [h EXCEPT !.pc = "disc", !.ch = Min(open)] /\ Send(h, "DISC", Min(open))
    BY <1>1 DEF NextDisc
  <2>2. open \in SUBSET Nat /\ open \subseteq Dlci
    BY MuxAssumption DEF Data, Dlci
  <2> HIDE DEF open
  <2>3. Min(open) \in Dlci
    BY <1>1, <2>2, MinOf
  <2>4. [h EXCEPT !.pc = "disc", !.ch = Min(open)] \in Hosts
    BY <2>3 DEF Hosts, HostPc
  <2> QED
    BY <1>0, <2>1, <2>3, <2>4, SendType
<1>2. CASE open = {}
  <2>1. host' = [h EXCEPT !.pc = "probe", !.n = 0, !.stage = 1] /\ Send(h, "CLD", 0)
    BY <1>2 DEF NextDisc
  <2>2. [h EXCEPT !.pc = "probe", !.n = 0, !.stage = 1] \in Hosts
    <3>1. "probe" \in HostPc /\ 0 \in 0 .. Rounds /\ 1 \in 1 .. 3
      BY DEF HostPc
    <3> QED
      BY <3>1, ProbeHost
  <2> QED
    BY <1>0, <2>1, <2>2, SendType
<1> QED
  BY <1>1, <1>2

Types ==
    /\ setup \in Setups /\ host \in Hosts
    /\ rx \in Seq(Answers) /\ tx \in Seq(Commands)
    /\ modem \in Modems
    /\ sessions \in 0 .. MaxSessions /\ faults \in 0 .. MaxFaults
    /\ hist \in Histories

(* What a step has to keep; the setup stays, and so do the speeds.          *)
Kept ==
    /\ setup' = setup /\ host' \in Hosts
    /\ rx' \in Seq(Answers) /\ tx' \in Seq(Commands)
    /\ modem' \in Modems
    /\ sessions' \in 0 .. MaxSessions /\ faults' \in 0 .. MaxFaults
    /\ hist' \in Histories

LEMMA FaultsType ==
    ASSUME faults \in 0 .. MaxFaults, Fault \/ NoFault \/ Deadline
    PROVE  faults' \in 0 .. MaxFaults
<1>1. CASE NoFault
  BY <1>1 DEF NoFault
<1>2. CASE Fault
  BY <1>2, MuxAssumption DEF Fault
<1> QED
  BY <1>1, <1>2 DEF Deadline

LEMMA StartType == ASSUME Types, Start PROVE Kept
<1>1. Fresh \in Hosts /\ "warmup" \in HostPc /\ "AT" \in Command /\ 0 \in Dlci
  BY FreshType, Channel0 DEF Types, HostPc, Command
<1>2. [Fresh EXCEPT !.pc = "warmup"] \in Hosts
  BY <1>1, HostUpdates
<1>3. tx' \in Seq(Commands)
  BY <1>1, SendType DEF Types, Start
<1>4. faults' \in 0 .. MaxFaults
  BY FaultsType DEF Types, Start
<1>5. sessions' \in 0 .. MaxSessions
  BY MuxAssumption DEF Types, Start
<1>6. hist' \in Histories
  BY MuxAssumption DEF Start, History, Histories
<1>7. rx' \in Seq(Answers)
  BY DEF Start
<1> QED
  BY <1>2, <1>3, <1>4, <1>5, <1>6, <1>7 DEF Types, Start, Kept

LEMMA WarmupType == ASSUME Types, Warmup PROVE Kept
<1> DEFINE cmd == IF HasOk(rx) THEN setup.form ELSE "SABM"
           b == HasOk(rx) /\ setup.speed # host.baud
<1>1. /\ host' = [host EXCEPT !.pc = "resp", !.cmd = cmd, !.pending = b]
      /\ Send(host, cmd, 0) /\ rx' = <<>>
  BY DEF Warmup
<1>2. cmd \in Form \union {"SABM"} /\ cmd \in Command /\ b \in BOOLEAN /\ 0 \in Dlci
  BY SetupType, Channel0 DEF Types, Command
<1>3. faults' \in 0 .. MaxFaults
  BY FaultsType DEF Types, Warmup
<1> HIDE DEF cmd, b
<1>4. host' \in Hosts
  BY <1>1, <1>2, WarmupHost DEF Types
<1>5. tx' \in Seq(Commands)
  BY <1>1, <1>2, SendType DEF Types
<1>6. rx' \in Seq(Answers)
  BY <1>1
<1> QED
  BY <1>3, <1>4, <1>5, <1>6 DEF Types, Warmup, Kept

LEMMA RetryBareType == ASSUME Types, RetryBare PROVE Kept
<1>1. "bare" \in Form \union {"SABM"} /\ "bare" \in Command /\ 0 \in Dlci
  BY Channel0 DEF Form, Command
<1>2. host' \in Hosts
  BY <1>1 DEF Types, RetryBare, Hosts
<1>3. tx' \in Seq(Commands)
  BY <1>1, SendType DEF Types, RetryBare
<1>4. faults' \in 0 .. MaxFaults
  BY FaultsType DEF Types, RetryBare
<1>5. rx' \in Seq(Answers)
  BY DEF RetryBare
<1> QED
  BY <1>2, <1>3, <1>4, <1>5 DEF Types, RetryBare, Kept

LEMMA ResponseType == ASSUME Types, Response PROVE Kept
<1> DEFINE h == [host EXCEPT !.frames = @ \o Frames(rx)]
           sp == IF host.pending /\ HasOk(rx) THEN setup.speed ELSE host.baud
           g == [h EXCEPT !.pc = "dlc", !.ch = 0, !.n = 1, !.baud = sp]
<1>1. h \in Hosts
  <2>1. host.frames \o Frames(rx) \in Seq(FrameMsg)
    BY FramesType DEF Types, Hosts
  <2> QED
    BY <2>1, HostUpdates DEF Types
<1>2. sp \in Speeds /\ 0 \in Dlci /\ "SABM" \in Command
  BY Channel0, SetupType DEF Types, Hosts, Command
<1>3. IF HasError(rx) THEN host' = Failed(h) /\ UNCHANGED tx
                      ELSE host' = g /\ Send(g, "SABM", 0)
  BY DEF Response
<1>4. faults' \in 0 .. MaxFaults
  BY FaultsType DEF Types, Response
<1>5. rx' \in Seq(Answers)
  BY DEF Response
<1>6. Failed(h) \in Hosts /\ g \in Hosts
  <2> HIDE DEF h, sp
  <2>1. g \in Hosts
    BY <1>1, <1>2 DEF Hosts, HostPc
  <2> QED
    BY <1>1, <2>1, FailedHost
<1>7. host' \in Hosts /\ tx' \in Seq(Commands)
  <2> HIDE DEF h, g
  <2> QED
    BY <1>2, <1>3, <1>6, SendType DEF Types
<1> QED
  BY <1>4, <1>5, <1>7 DEF Types, Response, Kept

LEMMA EstablishType == ASSUME Types, Establish PROVE Kept
<1> DEFINE q == host.frames \o Frames(rx)
           own == FramesOf(q, host.ch, FrameKind)
           a == [host EXCEPT !.frames = From(q, Min(own))]
           b == [host EXCEPT !.frames = <<>>]
<1>1. q \in Seq(FrameMsg)
  BY FramesType DEF Types, Hosts
<1>2. \/ own # {} /\ NoFault /\ DlcDone(a, q[Min(own)].k = "UA")
      \/ own = {} /\ Deadline /\ DlcDone(b, FALSE)
  BY DEF Establish
<1>3. own # {} => a \in Hosts
  <2> HIDE DEF q
  <2>1. own # {} => From(q, Min(own)) \in Seq(FrameMsg)
    BY <1>1, FromType
  <2> QED
    BY <2>1, HostUpdates DEF Types
<1>4. b \in Hosts
  <2>1. <<>> \in Seq(FrameMsg)
    OBVIOUS
  <2> QED
    BY <2>1, HostUpdates DEF Types
<1>5. faults' \in 0 .. MaxFaults
  BY FaultsType DEF Types, Establish
<1>6. host' \in Hosts /\ tx' \in Seq(Commands)
  <2>1. (q[Min(own)].k = "UA") \in BOOLEAN
    OBVIOUS
  <2> DEFINE yes == q[Min(own)].k = "UA"
  <2> HIDE DEF a, b, yes, own
  <2>2. yes \in BOOLEAN
    BY <2>1 DEF yes
  <2>3. CASE own # {} /\ DlcDone(a, yes)
    BY <1>3, <2>2, <2>3, DlcDoneType DEF Types
  <2>4. CASE DlcDone(b, FALSE)
    BY <1>4, <2>4, DlcDoneType DEF Types
  <2> QED
    BY <1>2, <2>3, <2>4 DEF yes
<1>7. rx' \in Seq(Answers)
  BY DEF Establish
<1> QED
  BY <1>5, <1>6, <1>7 DEF Types, Establish, Kept

(* The steps of the link in use and of its end.                             *)
LEMMA LinkType ==
    ASSUME Types, Read \/ LinkDown \/ Reinit \/ Quit
    PROVE  Kept
<1>0. <<>> \in Seq(FrameMsg) /\ <<>> \in Seq(Answers) /\ 0 \in Dlci
  BY Channel0
<1>1. CASE Read
  <2>1. host' \in Hosts
    BY <1>0, <1>1, HostUpdates DEF Types, Read
  <2> QED
    BY <1>0, <1>1, <2>1, FaultsType DEF Types, Read, Kept
<1>2. CASE LinkDown
  <2>1. host' = [host EXCEPT !.pc = "cld", !.recovering = TRUE, !.frames = <<>>,
                             !.dlc = [d \in Dlci |-> FALSE]]
        /\ Send(host, "CLD", 0)
    BY <1>2 DEF LinkDown
  <2>2. [d \in Dlci |-> FALSE] \in [Dlci -> BOOLEAN]
    OBVIOUS
  <2>3. host' \in Hosts
    <3> DEFINE none == [d \in Dlci |-> FALSE]
    <3> HIDE DEF none
    <3>1. none \in [Dlci -> BOOLEAN]
      BY <2>2 DEF none
    <3>2. [host EXCEPT !.pc = "cld", !.recovering = TRUE, !.frames = <<>>, !.dlc = none] \in Hosts
      BY <1>0, <3>1 DEF Types, Hosts, HostPc
    <3> QED
      BY <2>1, <3>2 DEF none
  <2>4. tx' \in Seq(Commands)
    BY <1>0, <2>1, SendType DEF Types, Command
  <2>5. faults' \in 0 .. MaxFaults
    BY <1>2, FaultsType DEF Types, LinkDown
  <2>6. hist' \in Histories
    BY <1>2 DEF Types, LinkDown, Histories
  <2> QED
    BY <1>2, <2>3, <2>4, <2>5, <2>6 DEF Types, LinkDown, Kept
<1>3. CASE Reinit
  <2>1. host' \in Hosts
    BY <1>3, HostUpdates DEF Types, Reinit, HostPc
  <2>2. tx' \in Seq(Commands)
    BY <1>0, <1>3, SendType DEF Types, Reinit, Command
  <2>3. faults' \in 0 .. MaxFaults
    BY <1>3, FaultsType DEF Types, Reinit
  <2> QED
    BY <1>0, <1>3, <2>1, <2>2, <2>3 DEF Types, Reinit, Kept
<1>4. CASE Quit
  <2>1. host' \in Hosts
    BY <1>4, HostUpdates DEF Types, Quit, HostPc
  <2>2. hist' \in Histories
    <3>1. host.dlc[0] \in BOOLEAN
      BY <1>0 DEF Types, Hosts
    <3> QED
      BY <1>4, <3>1 DEF Types, Quit, Histories
  <2> QED
    BY <1>4, <2>1, <2>2, FaultsType DEF Types, Quit, Kept
<1> QED
  BY <1>1, <1>2, <1>3, <1>4

LEMMA CloseType == ASSUME Types, Close PROVE Kept
<1>1. CASE NeedsClose
  <2>1. [host EXCEPT !.ch = 0] \in Hosts
    BY HostUpdates, Channel0 DEF Types
  <2>2. NextDisc([host EXCEPT !.ch = 0]) /\ rx' = <<>>
    BY <1>1 DEF Close
  <2>3. host' \in Hosts /\ tx' \in Seq(Commands)
    BY <2>1, <2>2, NextDiscType DEF Types
  <2>4. rx' \in Seq(Answers)
    BY <2>2
  <2> QED
    BY <2>3, <2>4, FaultsType DEF Types, Close, Kept
<1>2. CASE ~NeedsClose
  <2>1. host' = [host EXCEPT !.pc = "port"] /\ UNCHANGED <<rx, tx>>
    BY <1>2 DEF Close
  <2>2. host' \in Hosts
    BY <2>1, HostUpdates DEF Types, HostPc
  <2> QED
    BY <2>1, <2>2, FaultsType DEF Types, Close, Kept
<1> QED
  BY <1>1, <1>2

LEMMA DiscType == ASSUME Types, Disc PROVE Kept
<1> DEFINE q == host.frames \o Frames(rx)
           own == FramesOf(q, host.ch, {"UA", "DM"})
           a == [host EXCEPT !.frames = From(q, Min(own)), !.dlc[host.ch] = FALSE]
           b == [host EXCEPT !.frames = <<>>]
<1>1. q \in Seq(FrameMsg)
  BY FramesType DEF Types, Hosts
<1>2. \/ own # {} /\ NextDisc(a)
      \/ NextDisc(b)
  BY DEF Disc
<1>3. own # {} => a \in Hosts
  <2> DEFINE rest == From(q, Min(own))
             less == [host.dlc EXCEPT ![host.ch] = FALSE]
  <2>1. own # {} => rest \in Seq(FrameMsg)
    <3> HIDE DEF q
    <3> QED
      BY <1>1, FromType
  <2>2. less \in [Dlci -> BOOLEAN]
    BY DEF Types, Hosts
  <2>3. a = [host EXCEPT !.frames = rest, !.dlc = less]
    OBVIOUS
  <2> HIDE DEF a, own, q, rest, less
  <2> QED
    BY <2>1, <2>2, <2>3 DEF Types, Hosts
<1>4. b \in Hosts
  <2>1. <<>> \in Seq(FrameMsg)
    OBVIOUS
  <2> QED
    BY <2>1, HostUpdates DEF Types
<1>5. host' \in Hosts /\ tx' \in Seq(Commands)
  <2> HIDE DEF a, b, own
  <2>1. CASE own # {} /\ NextDisc(a)
    BY <1>3, <2>1, NextDiscType DEF Types
  <2>2. CASE NextDisc(b)
    BY <1>4, <2>2, NextDiscType DEF Types
  <2> QED
    BY <1>2, <2>1, <2>2
<1>6. faults' \in 0 .. MaxFaults
  BY FaultsType DEF Types, Disc
<1>7. rx' \in Seq(Answers)
  BY DEF Disc
<1> QED
  BY <1>5, <1>6, <1>7 DEF Types, Disc, Kept

LEMMA ProbeType ==
    ASSUME Types, ProbeAgain \/ ProbeAnswered \/ ProbeFailed \/ ClosePort
    PROVE  Kept
<1>0. <<>> \in Seq(Answers) /\ 0 \in Dlci /\ "CLD" \in Command /\ "AT" \in Command
  BY Channel0 DEF Command
<1>1. CASE ProbeAgain
  <2>1. host' \in Hosts
    <3> DEFINE m == host.n + 1
    <3>1. m \in 0 .. Rounds /\ host' = [host EXCEPT !.n = m]
      BY <1>1 DEF Types, ProbeAgain, Hosts
    <3> HIDE DEF m
    <3> QED
      BY <3>1, HostUpdates DEF Types
  <2>2. tx' \in Seq(Commands)
    BY <1>0, <1>1, SendType DEF Types, ProbeAgain
  <2>3. faults' \in 0 .. MaxFaults
    BY <1>1, FaultsType DEF Types, ProbeAgain
  <2> QED
    BY <1>0, <1>1, <2>1, <2>2, <2>3 DEF Types, ProbeAgain, Kept
<1>2. CASE ProbeAnswered
  <2>1. host' \in Hosts
    BY <1>2 DEF Types, ProbeAnswered, Hosts, HostPc
  <2>2. hist' \in Histories
    BY <1>2 DEF Types, ProbeAnswered, Histories
  <2> QED
    BY <1>2, <2>1, <2>2, FaultsType DEF Types, ProbeAnswered, Kept
<1>3. CASE ProbeFailed
  <2>1. faults' \in 0 .. MaxFaults
    BY <1>3, FaultsType DEF Types, ProbeFailed
  <2>2. CASE /\ host' = [host EXCEPT !.stage = 2, !.n = 0]
             /\ Send(host, "CLD", 0)
             /\ UNCHANGED <<rx, hist>>
    <3>1. host' \in Hosts
      <4>1. 0 \in 0 .. Rounds /\ 2 \in 1 .. 3
        OBVIOUS
      <4> QED
        BY <2>2, <4>1, ProbeHost DEF Types
    <3>2. tx' \in Seq(Commands)
      BY <1>0, <2>2, SendType DEF Types
    <3> QED
      BY <1>3, <2>1, <2>2, <3>1, <3>2 DEF Types, ProbeFailed, Kept
  <2>3. CASE /\ host' = [host EXCEPT !.stage = 3, !.n = 0, !.baud = Entry]
             /\ rx' = <<>>
             /\ UNCHANGED <<tx, hist>>
    <3>1. host' \in Hosts
      <4> DEFINE a == [host EXCEPT !.stage = 3, !.n = 0]
      <4>1. 0 \in 0 .. Rounds /\ 3 \in 1 .. 3
        OBVIOUS
      <4>2. a \in Hosts
        BY <4>1, ProbeHost DEF Types
      <4>3. host' = [a EXCEPT !.baud = Entry]
        BY <2>3
      <4> HIDE DEF a
      <4> QED
        BY <4>2, <4>3, HostUpdates DEF Speeds
    <3> QED
      BY <1>0, <1>3, <2>1, <2>3, <3>1 DEF Types, ProbeFailed, Kept
  <2>4. CASE /\ host' = [host EXCEPT !.pc = "port"]
             /\ hist' = [hist EXCEPT !.report = "stuck"]
             /\ UNCHANGED <<rx, tx>>
    <3>1. host' \in Hosts
      BY <2>4, HostUpdates DEF Types, HostPc
    <3>2. hist' \in Histories
      BY <2>4 DEF Types, Histories
    <3> QED
      BY <1>3, <2>1, <2>4, <3>1, <3>2 DEF Types, ProbeFailed, Kept
  <2> QED
    BY <1>3, <2>2, <2>3, <2>4 DEF ProbeFailed
<1>4. CASE ClosePort
  BY <1>0, <1>4, FreshType, FaultsType DEF Types, ClosePort, Kept
<1> QED
  BY <1>1, <1>2, <1>3, <1>4

(* The modem: what it answers, and the mode it is in.                       *)
LEMMA ModemType == ASSUME Types, ModemStep PROVE Kept
<1> DEFINE c == Head(tx)
<1>1. tx' \in Seq(Commands) /\ c \in Commands
  BY DEF Types, ModemStep
<1>2. \/ UNCHANGED <<rx, modem>>
      \/ InAtMode(c)
      \/ InMuxMode(c)
  BY DEF ModemStep
<1>3. c.k \in Command /\ c.d \in Dlci /\ 0 \in Dlci
  BY <1>1, Channel0 DEF Commands
<1>4. "ERROR" \in TextKind /\ "OK" \in TextKind /\ "UA" \in FrameKind /\ "DM" \in FrameKind
  BY DEF TextKind, FrameKind
<1> HIDE DEF c
<1>5. rx' \in Seq(Answers) /\ modem' \in Modems
  <2>1. CASE InAtMode(c)
    <3>1. CASE rx' = Answer(rx, "OK", 0) /\ UNCHANGED modem
      BY <1>3, <1>4, <3>1, AnswerType DEF Types
    <3>2. CASE c.k \in Form /\ Enter(c.k)
      <4>1. rx' = Answer(rx, "ERROR", 0) \/ rx' = Answer(rx, "OK", 0)
        BY <3>2 DEF Enter
      <4>2. modem' \in Modems
        BY <3>2, SetupType DEF Types, Enter, Modems
      <4> QED
        BY <1>3, <1>4, <4>1, <4>2, AnswerType DEF Types
    <3> QED
      BY <2>1, <3>1, <3>2 DEF InAtMode, Types
  <2>2. CASE InMuxMode(c)
    <3>1. CASE c.k = "SABM" /\ InMuxMode(c)
      <4>1. rx' = Answer(rx, "UA", c.d) \/ rx' = Answer(rx, "DM", c.d)
        BY <3>1 DEF InMuxMode, Form
      <4>2. modem' \in Modems
        <5>1. \/ modem' = [modem EXCEPT !.open = @ \union {c.d}]
              \/ modem' = [modem EXCEPT !.open = @]
          BY <3>1 DEF InMuxMode, Form
        <5> QED
          BY <1>3, <5>1 DEF Types, Modems
      <4> QED
        BY <1>3, <1>4, <4>1, <4>2, AnswerType DEF Types
    <3>2. CASE c.k = "DISC" /\ InMuxMode(c)
      <4>1. rx' = Answer(rx, "UA", c.d) \/ rx' = Answer(rx, "DM", c.d)
        BY <3>2 DEF InMuxMode, Form
      <4>2. modem' \in Modems
        BY <1>3, <3>2 DEF InMuxMode, Form, Types, Modems
      <4> QED
        BY <1>3, <1>4, <4>1, <4>2, AnswerType DEF Types
    <3>3. CASE c.k = "CLD" /\ InMuxMode(c)
      <4>1. modem' \in Modems /\ UNCHANGED rx
        BY <3>3, SetupType DEF InMuxMode, Form, Types, Modems
      <4> QED
        BY <4>1 DEF Types
    <3> QED
      BY <2>2, <3>1, <3>2, <3>3 DEF InMuxMode, Types
  <2> QED
    BY <1>2, <2>1, <2>2 DEF Types
<1> QED
  BY <1>1, <1>5, FaultsType DEF Types, ModemStep, Kept

LEMMA TailType ==
    ASSUME NEW X, NEW t \in Seq(X), t # <<>>
    PROVE  Tail(t) \in Seq(X)
OBVIOUS

LEMMA EnvironmentType == ASSUME Types, Environment PROVE Kept
<1>1. CASE Lose
  <2>0. /\ rx \in Seq(Answers) /\ tx \in Seq(Commands)
        /\ rx' = rx \/ (rx # <<>> /\ rx' = Tail(rx))
        /\ tx' = tx \/ (tx # <<>> /\ tx' = Tail(tx))
    BY <1>1 DEF Types, Lose
  <2>1. rx' \in Seq(Answers)
    BY <2>0, TailType
  <2>2. tx' \in Seq(Commands)
    BY <2>0, TailType
  <2> QED
    BY <1>1, <2>1, <2>2, FaultsType DEF Types, Lose, Kept
<1>2. CASE Talk
  <2>1. PICK d \in modem.open, k \in {"UIH", "UIH_OK", "UIH_ERROR"} :
          /\ rx' = Answer(rx, k, d)
          /\ hist' = [hist EXCEPT !.text = @ \union ({k} \ {"UIH"})]
    BY <1>2 DEF Talk
  <2>2. d \in Dlci /\ k \in TextKind \union FrameKind
    BY DEF Types, Modems, FrameKind
  <2>3. hist' \in Histories
    BY <2>1 DEF Types, Histories
  <2>4. rx' \in Seq(Answers)
    BY <2>1, <2>2, AnswerType DEF Types
  <2> QED
    BY <1>2, <2>3, <2>4, FaultsType DEF Types, Talk, Kept
<1>3. CASE Restart
  <2>1. modem' \in Modems
    BY <1>3 DEF Restart, Modems, Speeds
  <2>2. hist' \in Histories
    BY <1>3 DEF Types, Restart, Histories
  <2> QED
    BY <1>3, <2>1, <2>2, FaultsType DEF Types, Restart, Kept
<1>4. CASE Kill
  <2>1. hist' \in Histories
    BY <1>4 DEF Types, Kill, Histories
  <2> QED
    BY <1>4, <2>1, FreshType, FaultsType DEF Types, Kill, Kept
<1> QED
  BY <1>1, <1>2, <1>3, <1>4 DEF Environment

LEMMA TypesInit == ASSUME Init PROVE Types
<1>1. setup \in Setups /\ host = Fresh
  BY DEF Init
<1>2. modem \in Modems
  BY <1>1, SetupType, Channel0 DEF Init, Modems, Speeds
<1>3. hist \in Histories
  BY MuxAssumption DEF Init, History, Histories
<1> QED
  BY <1>1, <1>2, <1>3, FreshType, MuxAssumption DEF Init, Types

LEMMA TypesStep == ASSUME Types, [Next]_vars PROVE Types'
<1>1. Kept
  <2>1. CASE UNCHANGED vars
    BY <2>1 DEF vars, Types, Kept
  <2>2. CASE Next
    BY <2>2, StartType, WarmupType, RetryBareType, ResponseType, EstablishType, LinkType,
       CloseType, DiscType, ProbeType, ModemType, EnvironmentType
    DEF Next, HostStep, InitStep, CloseStep
  <2> QED
    BY <2>1, <2>2
<1> QED
  BY <1>1 DEF Kept, Types, Hosts, Commands, Modems, Histories, Speeds

LEMMA TypesAlways == Spec => []Types
<1> QED
  BY TypesInit, TypesStep, PTL DEF Spec

(* Every command, answer and record of the session is of its type, for any *)
(* number of channels, sessions and faults: init_cmux(), close() and the   *)
(* recovery take no channel outside 0..Channels, no queue entry that is    *)
(* not there, no speed but the two.                                        *)
THEOREM TypeCorrect == Spec => []TypeOK
<1>1. Types => TypeOK
  BY DEF Types, TypeOK, Hosts, Commands, Modems, Histories, Speeds, Answers, FrameMsg
<1> QED
  BY <1>1, TypesAlways, PTL

-----------------------------------------------------------------------------
(* The refinement                                                           *)

PhaseOf(h) ==
    CASE h.pc = "off" -> "off"
      [] h.pc \in {"warmup", "resp", "dlc", "cld"} -> "opening"
      [] h.pc = "up" -> IF h.dlc[0] THEN "up" ELSE "lost"
      [] OTHER -> "closing"
UsableOf(h) == {d \in Dlci : h.dlc[d]}

(* What the program counter says of the channels: none is marked before    *)
(* the first SABM; while they are asked for, only those before the one at  *)
(* hand, DLCI 0 among them; the one being disconnected is a data channel.  *)
View(h) ==
    /\ h.pc \in {"off", "warmup", "resp", "cld"} => \A d \in Dlci : ~h.dlc[d]
    /\ h.pc = "dlc" => /\ \A d \in Dlci : h.dlc[d] => d < h.ch
                       /\ h.ch # 0 => h.dlc[0]
    /\ h.pc = "disc" => h.ch \in Data /\ h.dlc[h.ch]

(* A step of MuxSession, or none, between two states of the host.           *)
Moves(h, g) ==
    \/ PhaseOf(g) = PhaseOf(h) /\ UsableOf(g) = UsableOf(h)
    \/ /\ PhaseOf(h) = "off" /\ PhaseOf(g) = "opening"
       /\ UsableOf(g) = UsableOf(h)
    \/ \E d \in Dlci :
          /\ PhaseOf(h) = "opening"
          /\ d # 0 => 0 \in UsableOf(h)
          /\ \A e \in UsableOf(h) : e < d
          /\ UsableOf(g) = UsableOf(h) \union {d}
          /\ \/ PhaseOf(g) = PhaseOf(h)
             \/ d = Channels /\ PhaseOf(g) = "up"
    \/ /\ PhaseOf(h) = "opening" /\ 0 \in UsableOf(h)
       /\ PhaseOf(g) = "up" /\ UsableOf(g) = UsableOf(h)
    \/ /\ PhaseOf(h) = "opening" /\ UsableOf(h) = {}
       /\ PhaseOf(g) \in {"lost", "closing"} /\ UsableOf(g) = UsableOf(h)
    \/ /\ PhaseOf(h) \in {"up", "lost"} /\ PhaseOf(g) = "opening"
       /\ UsableOf(g) = {}
    \/ /\ PhaseOf(h) \in {"up", "lost"} /\ PhaseOf(g) = "closing"
       /\ UsableOf(g) = UsableOf(h)
    \/ \E d \in Dlci :
          /\ PhaseOf(h) = "closing"
          /\ d \in UsableOf(h) \ {0}
          /\ UsableOf(g) = UsableOf(h) \ {d} /\ PhaseOf(g) = PhaseOf(h)
    \/ /\ PhaseOf(h) # "off" /\ PhaseOf(g) = "off"
       /\ UsableOf(g) = {}

LEMMA SameView ==
    ASSUME NEW h \in Hosts, NEW g \in Hosts,
           g.pc = h.pc, g.dlc = h.dlc, g.ch = h.ch
    PROVE  /\ View(g) <=> View(h)
           /\ PhaseOf(g) = PhaseOf(h) /\ UsableOf(g) = UsableOf(h)
           /\ \A f : Moves(g, f) => Moves(h, f)
<1>1. PhaseOf(g) = PhaseOf(h) /\ UsableOf(g) = UsableOf(h)
  BY DEF PhaseOf, UsableOf
<1>2. View(g) <=> View(h)
  BY DEF View
<1>3. \A f : Moves(g, f) => Moves(h, f)
  BY <1>1 DEF Moves
<1> QED
  BY <1>1, <1>2, <1>3

LEMMA NoneUsable ==
    ASSUME NEW h, \A d \in Dlci : ~h.dlc[d]
    PROVE  UsableOf(h) = {}
BY DEF UsableOf

LEMMA FailedView ==
    ASSUME NEW h \in Hosts, h.pc \in {"resp", "dlc"}, \A d \in Dlci : ~h.dlc[d]
    PROVE  View(Failed(h)) /\ Moves(h, Failed(h))
<1> DEFINE g == Failed(h)
<1>1. g.dlc = h.dlc /\ g.pc \in {"up", "close"}
  BY DEF Failed, Hosts
<1>2. PhaseOf(h) = "opening"
  BY DEF PhaseOf
<1>3. PhaseOf(g) \in {"lost", "closing"}
  <2> HIDE DEF g
  <2> QED
    BY <1>1, Channel0 DEF PhaseOf
<1>4. UsableOf(h) = {} /\ UsableOf(g) = UsableOf(h)
  <2> HIDE DEF g
  <2> QED
    BY <1>1, NoneUsable DEF UsableOf
<1>5. View(g)
  <2> HIDE DEF g
  <2> QED
    BY <1>1 DEF View
<1> HIDE DEF g
<1> QED
  BY <1>2, <1>3, <1>4, <1>5 DEF Moves, g

LEMMA DlcDoneView ==
    ASSUME NEW h \in Hosts, NEW granted \in BOOLEAN, h.pc = "dlc", View(h),
           DlcDone(h, granted)
    PROVE  View(host') /\ Moves(h, host')
<1> DEFINE g == [h EXCEPT !.dlc[h.ch] = @ \/ granted, !.established = TRUE]
<1>0. /\ h.ch \in Dlci /\ h.dlc \in [Dlci -> BOOLEAN] /\ 0 \in Dlci
      /\ Channels \in Nat /\ Dlci = 0 .. Channels
  BY Channel0, MuxAssumption DEF Hosts, Dlci
<1>1. /\ \A d \in Dlci : h.dlc[d] => d < h.ch
      /\ h.ch # 0 => h.dlc[0]
      /\ PhaseOf(h) = "opening"
  BY DEF View, PhaseOf
<1>2. CASE h.ch = 0 /\ ~granted
  <2>1. \A d \in Dlci : ~h.dlc[d]
    BY <1>0, <1>1, <1>2
  <2>2. CASE h.n = 1
    <3>1. host' = [h EXCEPT !.n = 2]
      BY <1>2, <2>2 DEF DlcDone
    <3>2. host'.pc = h.pc /\ host'.dlc = h.dlc /\ host'.ch = h.ch
      BY <3>1 DEF Hosts
    <3> QED
      BY <3>2 DEF View, Moves, PhaseOf, UsableOf
  <2>3. CASE h.n # 1
    <3>1. host' = Failed(h)
      BY <1>2, <2>3 DEF DlcDone
    <3> QED
      BY <2>1, <3>1, FailedView
  <2> QED
    BY <2>2, <2>3
<1>3. CASE ~(h.ch = 0 /\ ~granted)
  <2> DEFINE dl == [h.dlc EXCEPT ![h.ch] = h.dlc[h.ch] \/ granted]
  <2>1. g.dlc = dl /\ g.ch = h.ch /\ g.pc = h.pc
    BY DEF Hosts
  <2>2. /\ \A d \in Dlci : d # h.ch => dl[d] = h.dlc[d]
        /\ dl[h.ch] = granted
    BY <1>0, <1>1
  <2>3. dl[0]
    BY <1>0, <1>1, <1>3, <2>2
  <2>4. {d \in Dlci : dl[d]} = IF granted THEN UsableOf(h) \union {h.ch} ELSE UsableOf(h)
    <3> HIDE DEF dl
    <3> QED
      BY <1>0, <1>1, <2>2 DEF UsableOf
  <2>5. host'.dlc = dl
        /\ \/ host'.pc = "dlc" /\ host'.ch = h.ch + 1
           \/ host'.pc = "up" /\ h.ch = Channels
    <3>1. CASE h.ch < Channels
      <4>1. host' = [g EXCEPT !.ch = @ + 1, !.n = 1]
        BY <1>3, <3>1 DEF DlcDone
      <4>2. host'.dlc = g.dlc /\ host'.ch = g.ch + 1 /\ host'.pc = g.pc
        <5> QED
          BY <4>1 DEF Hosts
      <4> HIDE DEF g, dl
      <4> QED
        BY <2>1, <4>2
    <3>2. CASE ~(h.ch < Channels)
      <4>1. host' = [g EXCEPT !.pc = "up", !.recovering = FALSE]
        BY <1>3, <3>2 DEF DlcDone
      <4>2. host'.dlc = g.dlc /\ host'.pc = "up"
        BY <4>1 DEF Hosts
      <4>3. h.ch = Channels
        BY <1>0, <3>2
      <4> HIDE DEF g, dl
      <4> QED
        BY <2>1, <4>2, <4>3
    <3> QED
      BY <3>1, <3>2
  <2> HIDE DEF dl, g
  <2>6. UsableOf(host') = IF granted THEN UsableOf(h) \union {h.ch} ELSE UsableOf(h)
    BY <2>4, <2>5 DEF UsableOf
  <2>7. \/ PhaseOf(host') = "opening"
        \/ PhaseOf(host') = "up" /\ h.ch = Channels
    BY <2>3, <2>5 DEF PhaseOf
  <2>8. View(host')
    <3>1. \A d \in Dlci : dl[d] => d < h.ch + 1
      BY <1>0, <1>1, <2>2
    <3> QED
      BY <2>3, <2>5, <3>1 DEF View
  <2>9. Moves(h, host')
    <3>1. CASE granted
      <4>1. h.ch # 0 => 0 \in UsableOf(h)
        BY <1>0, <1>1 DEF UsableOf
      <4>2. \A e \in UsableOf(h) : e < h.ch
        BY <1>1 DEF UsableOf
      <4>3. UsableOf(host') = UsableOf(h) \union {h.ch}
        BY <2>6, <3>1
      <4> QED
        BY <1>0, <1>1, <2>7, <4>1, <4>2, <4>3 DEF Moves
    <3>2. CASE ~granted
      <4>1. 0 \in UsableOf(h)
        BY <1>0, <1>1, <1>3, <3>2 DEF UsableOf
      <4>2. UsableOf(host') = UsableOf(h)
        BY <2>6, <3>2
      <4> QED
        BY <1>1, <2>7, <4>1, <4>2 DEF Moves
    <3> QED
      BY <3>1, <3>2
  <2> QED
    BY <2>8, <2>9
<1> QED
  BY <1>2, <1>3

LEMMA NextDiscView ==
    ASSUME NEW h \in Hosts, NextDisc(h), h.pc \in {"close", "disc"}
    PROVE  /\ host'.dlc = h.dlc /\ PhaseOf(host') = "closing"
           /\ View(host')
<1> DEFINE open == {d \in Data : d > h.ch /\ h.dlc[d]}
<1>1. CASE open # {}
  <2>1. host' = [h EXCEPT !.pc = "disc", !.ch = Min(open)]
    BY <1>1 DEF NextDisc
  <2>2. Min(open) \in open
    <3>1. open \in SUBSET Nat
      BY MuxAssumption DEF Data
    <3> HIDE DEF open
    <3> QED
      BY <1>1, <3>1, MinOf
  <2>3. Min(open) \in Data /\ h.dlc[Min(open)]
    BY <2>2
  <2> HIDE DEF open
  <2>4. host'.dlc = h.dlc /\ host'.pc = "disc" /\ host'.ch = Min(open)
    BY <2>1 DEF Hosts
  <2> QED
    BY <2>3, <2>4 DEF View, PhaseOf
<1>2. CASE open = {}
  <2>1. host' = [h EXCEPT !.pc = "probe", !.n = 0, !.stage = 1]
    BY <1>2 DEF NextDisc
  <2>2. host'.dlc = h.dlc /\ host'.pc = "probe"
    BY <2>1 DEF Hosts
  <2> QED
    BY <2>2 DEF View, PhaseOf
<1> QED
  BY <1>1, <1>2

LEMMA StillView ==
    ASSUME NEW h \in Hosts, NEW g \in Hosts, View(h),
           g.pc = h.pc, g.dlc = h.dlc, g.ch = h.ch
    PROVE  View(g) /\ Moves(h, g)
BY SameView DEF Moves

LEMMA OpeningView ==
    ASSUME Types, View(host), Start \/ Warmup \/ RetryBare \/ Response \/ Reinit
    PROVE  View(host') /\ Moves(host, host')
<1>1. CASE Start
  <2>1. host'.pc = "warmup" /\ host'.dlc = [d \in Dlci |-> FALSE] /\ host.pc = "off"
    BY <1>1 DEF Start, Fresh
  <2>2. \A d \in Dlci : ~host.dlc[d] /\ ~host'.dlc[d]
    BY <2>1 DEF View
  <2>3. UsableOf(host) = {} /\ UsableOf(host') = {}
    BY <2>2, NoneUsable
  <2> QED
    BY <2>1, <2>2, <2>3 DEF View, Moves, PhaseOf
<1>2. CASE Warmup
  <2>1. host'.pc = "resp" /\ host'.dlc = host.dlc /\ host.pc = "warmup"
    BY <1>2 DEF Types, Warmup, Hosts
  <2> QED
    BY <2>1 DEF View, Moves, PhaseOf, UsableOf
<1>3. CASE RetryBare
  <2>1. host'.pc = "resp" /\ host'.dlc = host.dlc /\ host.pc = "resp"
    BY <1>3 DEF Types, RetryBare, Hosts
  <2> QED
    BY <2>1 DEF View, Moves, PhaseOf, UsableOf
<1>4. CASE Response
  <2> DEFINE h == [host EXCEPT !.frames = @ \o Frames(rx)]
             sp == IF host.pending /\ HasOk(rx) THEN setup.speed ELSE host.baud
             g == [h EXCEPT !.pc = "dlc", !.ch = 0, !.n = 1, !.baud = sp]
  <2>1. host' = Failed(h) \/ host' = g
    BY <1>4 DEF Response
  <2>2. host.pc = "resp" /\ \A d \in Dlci : ~host.dlc[d]
    BY <1>4 DEF Response, View
  <2>3. h \in Hosts
    <3>1. host.frames \o Frames(rx) \in Seq(FrameMsg)
      BY FramesType DEF Types, Hosts
    <3> QED
      BY <3>1, HostUpdates DEF Types
  <2>4. h.pc = host.pc /\ h.dlc = host.dlc /\ h.ch = host.ch
    BY DEF Types, Hosts
  <2> HIDE DEF h, sp
  <2>5. CASE host' = Failed(h)
    BY <2>2, <2>3, <2>4, <2>5, FailedView, SameView DEF Types
  <2>6. CASE host' = g
    <3>1. host'.pc = "dlc" /\ host'.ch = 0 /\ host'.dlc = host.dlc
      BY <2>3, <2>4, <2>6 DEF Hosts
    <3>2. 0 \in Dlci
      BY Channel0
    <3> HIDE DEF g
    <3> QED
      BY <2>2, <3>1, <3>2 DEF View, Moves, PhaseOf, UsableOf
  <2> QED
    BY <2>1, <2>5, <2>6
<1>5. CASE Reinit
  <2>1. host'.pc = "warmup" /\ host'.dlc = host.dlc /\ host.pc = "cld"
    BY <1>5 DEF Types, Reinit, Hosts
  <2> QED
    BY <2>1 DEF View, Moves, PhaseOf, UsableOf
<1> QED
  BY <1>1, <1>2, <1>3, <1>4, <1>5

LEMMA EstablishView ==
    ASSUME Types, View(host), Establish
    PROVE  View(host') /\ Moves(host, host')
<1> DEFINE q == host.frames \o Frames(rx)
           own == FramesOf(q, host.ch, FrameKind)
           yes == q[Min(own)].k = "UA"
           a == [host EXCEPT !.frames = From(q, Min(own))]
           b == [host EXCEPT !.frames = <<>>]
<1>1. host.pc = "dlc" /\ ((own # {} /\ DlcDone(a, yes)) \/ DlcDone(b, FALSE))
  BY DEF Establish
<1>2. own # {} => a \in Hosts
  <2>1. q \in Seq(FrameMsg)
    BY FramesType DEF Types, Hosts
  <2>2. own # {} => From(q, Min(own)) \in Seq(FrameMsg)
    <3> HIDE DEF q
    <3> QED
      BY <2>1, FromType
  <2> QED
    BY <2>2, HostUpdates DEF Types
<1>3. b \in Hosts
  <2>1. <<>> \in Seq(FrameMsg)
    OBVIOUS
  <2> QED
    BY <2>1, HostUpdates DEF Types
<1>4. /\ a.pc = host.pc /\ a.dlc = host.dlc /\ a.ch = host.ch
      /\ b.pc = host.pc /\ b.dlc = host.dlc /\ b.ch = host.ch
  BY DEF Types, Hosts
<1>5. yes \in BOOLEAN
  OBVIOUS
<1> HIDE DEF own, yes, a, b
<1>6. CASE own # {} /\ DlcDone(a, yes)
  <2>1. View(a) /\ a \in Hosts
    BY <1>2, <1>4, <1>6, SameView DEF Types
  <2>2. View(host') /\ Moves(a, host')
    BY <1>1, <1>4, <1>5, <1>6, <2>1, DlcDoneView
  <2> QED
    BY <1>4, <2>1, <2>2, SameView DEF Types
<1>7. CASE DlcDone(b, FALSE)
  <2>1. View(b)
    BY <1>3, <1>4, SameView DEF Types
  <2>2. View(host') /\ Moves(b, host')
    BY <1>1, <1>3, <1>4, <1>7, <2>1, DlcDoneView
  <2> QED
    BY <1>3, <1>4, <2>2, SameView DEF Types
<1> QED
  BY <1>1, <1>6, <1>7

LEMMA LinkView ==
    ASSUME Types, View(host), Read \/ LinkDown \/ Quit \/ ClosePort \/ Kill
    PROVE  View(host') /\ Moves(host, host')
<1>1. CASE Read
  <2>1. host'.pc = host.pc /\ host'.dlc = host.dlc /\ host.pc = "up"
    BY <1>1 DEF Types, Read, Hosts
  <2> QED
    BY <2>1 DEF View, Moves, PhaseOf, UsableOf
<1>2. CASE LinkDown
  <2>1. host.pc = "up" /\ host'.pc = "cld" /\ host'.dlc = [d \in Dlci |-> FALSE]
    BY <1>2 DEF Types, LinkDown, Hosts
  <2>2. \A d \in Dlci : ~host'.dlc[d]
    BY <2>1
  <2>3. UsableOf(host') = {}
    BY <2>2, NoneUsable
  <2> QED
    BY <2>1, <2>2, <2>3 DEF View, Moves, PhaseOf
<1>3. CASE Quit
  <2>1. host.pc = "up" /\ host'.pc = "close" /\ host'.dlc = host.dlc
    BY <1>3 DEF Types, Quit, Hosts
  <2> QED
    BY <2>1 DEF View, Moves, PhaseOf, UsableOf
<1>4. CASE ClosePort \/ Kill
  <2>1. host.pc # "off" /\ host'.pc = "off" /\ host'.dlc = [d \in Dlci |-> FALSE]
    <3>1. host.pc # "off" /\ host' = Fresh
      BY <1>4 DEF ClosePort, Kill
    <3> QED
      BY <3>1 DEF Fresh
  <2>2. \A d \in Dlci : ~host'.dlc[d]
    BY <2>1
  <2>3. UsableOf(host') = {}
    BY <2>2, NoneUsable
  <2>4. PhaseOf(host) # "off" /\ PhaseOf(host') = "off"
    BY <2>1 DEF PhaseOf
  <2> QED
    BY <2>1, <2>2, <2>3, <2>4 DEF View, Moves
<1> QED
  BY <1>1, <1>2, <1>3, <1>4

LEMMA ClosingView ==
    ASSUME Types, View(host), Close \/ ProbeAgain \/ ProbeAnswered \/ ProbeFailed
    PROVE  View(host') /\ Moves(host, host')
<1>1. PhaseOf(host) = "closing"
  BY DEF Close, ProbeAgain, ProbeAnswered, ProbeFailed, PhaseOf
<1>2. host'.dlc = host.dlc /\ PhaseOf(host') = "closing" /\ View(host')
  <2>1. CASE Close
    <3>1. CASE NeedsClose
      <4> DEFINE h == [host EXCEPT !.ch = 0]
      <4>1. h \in Hosts
        BY HostUpdates, Channel0 DEF Types
      <4>2. NextDisc(h) /\ host.pc = "close"
        BY <2>1, <3>1 DEF Close
      <4>3. h.pc = host.pc /\ h.dlc = host.dlc
        BY DEF Types, Hosts
      <4> HIDE DEF h
      <4> QED
        BY <4>1, <4>2, <4>3, NextDiscView
    <3>2. CASE ~NeedsClose
      <4>1. host'.pc = "port" /\ host'.dlc = host.dlc
        BY <2>1, <3>2 DEF Close, Types, Hosts
      <4> QED
        BY <4>1 DEF View, PhaseOf
    <3> QED
      BY <3>1, <3>2
  <2>2. CASE ProbeAgain \/ ProbeAnswered
    <3>1. host'.pc \in {"probe", "port"} /\ host'.dlc = host.dlc
      BY <2>2 DEF ProbeAgain, ProbeAnswered, Types, Hosts
    <3> QED
      BY <3>1 DEF View, PhaseOf
  <2>3. CASE ProbeFailed
    <3>1. host'.pc \in {"probe", "port"} /\ host'.dlc = host.dlc
      BY <2>3 DEF ProbeFailed, Types, Hosts
    <3> QED
      BY <3>1 DEF View, PhaseOf
  <2> QED
    BY <2>1, <2>2, <2>3
<1> QED
  BY <1>1, <1>2 DEF Moves, UsableOf

LEMMA DiscView ==
    ASSUME Types, View(host), Disc
    PROVE  View(host') /\ Moves(host, host')
<1> DEFINE q == host.frames \o Frames(rx)
           own == FramesOf(q, host.ch, {"UA", "DM"})
           rest == From(q, Min(own))
           a == [host EXCEPT !.frames = rest, !.dlc[host.ch] = FALSE]
           b == [host EXCEPT !.frames = <<>>]
<1>0. /\ host.pc = "disc" /\ host.ch \in Data /\ host.dlc[host.ch]
      /\ host.ch \in Dlci /\ host.ch # 0 /\ PhaseOf(host) = "closing"
  BY Channel0 DEF Disc, View, PhaseOf, Data
<1>1. (own # {} /\ NextDisc(a)) \/ NextDisc(b)
  BY DEF Disc
<1>2. own # {} => rest \in Seq(FrameMsg)
  <2>1. q \in Seq(FrameMsg)
    BY FramesType DEF Types, Hosts
  <2> HIDE DEF q
  <2> QED
    BY <2>1, FromType
<1>3. CASE own # {} /\ NextDisc(a)
  <2> DEFINE less == [host.dlc EXCEPT ![host.ch] = FALSE]
  <2>1. less \in [Dlci -> BOOLEAN]
    BY DEF Types, Hosts
  <2>2. a = [host EXCEPT !.frames = rest, !.dlc = less]
    OBVIOUS
  <2> HIDE DEF own, rest, a
  <2>3. a \in Hosts /\ a.pc = host.pc /\ a.dlc = less
    <3> HIDE DEF less
    <3> QED
      BY <1>2, <1>3, <2>1, <2>2 DEF Types, Hosts
  <2>4. host'.dlc = less /\ PhaseOf(host') = "closing" /\ View(host')
    BY <1>0, <1>3, <2>3, NextDiscView
  <2>5. UsableOf(host') = UsableOf(host) \ {host.ch} /\ host.ch \in UsableOf(host)
    BY <1>0, <2>4 DEF UsableOf, Types, Hosts
  <2> QED
    BY <1>0, <2>4, <2>5 DEF Moves
<1>4. CASE NextDisc(b)
  <2>1. b \in Hosts /\ b.pc = host.pc /\ b.dlc = host.dlc
    <3>1. <<>> \in Seq(FrameMsg)
      OBVIOUS
    <3> QED
      BY <3>1 DEF Types, Hosts
  <2> HIDE DEF b
  <2>2. host'.dlc = host.dlc /\ PhaseOf(host') = "closing" /\ View(host')
    BY <1>0, <1>4, <2>1, NextDiscView
  <2> QED
    BY <1>0, <2>2 DEF Moves, UsableOf
<1> QED
  BY <1>1, <1>3, <1>4

LEMMA ViewStep ==
    ASSUME Types, View(host), [Next]_vars
    PROVE  View(host') /\ Moves(host, host')
<1>1. CASE host' = host
  <2> QED
    BY <1>1 DEF Moves
<1>2. CASE ModemStep \/ Lose \/ Talk \/ Restart \/ UNCHANGED vars
  <2>1. host' = host
    BY <1>2 DEF ModemStep, Lose, Talk, Restart, vars
  <2> QED
    BY <1>1, <2>1
<1> QED
  BY <1>2, OpeningView, EstablishView, LinkView, ClosingView, DiscView
  DEF Next, HostStep, InitStep, CloseStep, Environment

LEMMA MovesKept ==
    ASSUME Types, Types', Moves(host, host')
    PROVE  [Session!Next]_(Session!vars)
<1>1. /\ Phase = PhaseOf(host) /\ Phase' = PhaseOf(host')
      /\ {d \in Dlci : host.dlc[d]} = UsableOf(host)
      /\ {d \in Dlci : host.dlc[d]}' = UsableOf(host')
  BY DEF Phase, PhaseOf, UsableOf
<1> QED
  BY <1>1 DEF Moves, Session!Next, Session!vars, Session!Start, Session!Grant, Session!Ready,
     Session!Fail, Session!LinkLost, Session!Quit, Session!GiveBack, Session!End, Session!Dlci, Dlci

(* The detailed model implements the abstract one, whatever the modem and  *)
(* the line do and however often: channels become usable one after the     *)
(* other behind DLCI 0, all of them go when the link is given up, and      *)
(* close() gives back data channels the session has before it ends.        *)
THEOREM Implements == Spec => SessionKept
<1>1. Init => View(host) /\ Session!Init
  <2> SUFFICES ASSUME Init PROVE View(host) /\ Session!Init
    OBVIOUS
  <2>1. host.pc = "off" /\ host.dlc = [d \in Dlci |-> FALSE]
    BY DEF Init, Fresh
  <2>2. \A d \in Dlci : ~host.dlc[d]
    BY <2>1
  <2> QED
    BY <2>1, <2>2 DEF View, Session!Init, Phase
<1>2. Types /\ Types' /\ View(host) /\ [Next]_vars => View(host)' /\ [Session!Next]_(Session!vars)
  BY ViewStep, MovesKept
<1> QED
  BY <1>1, <1>2, TypesAlways, PTL DEF Spec, SessionKept, Session!Spec

-----------------------------------------------------------------------------
(* What a queue holds, and in which order                                   *)

Has(K, t) == \E i \in DOMAIN t : t[i] \in K
Before(K, L, t) == \E i, j \in DOMAIN t : i < j /\ t[i] \in K /\ t[j] \in L

LEMMA Nothing ==
    \A K, L : ~Has(K, <<>>) /\ ~Before(K, L, <<>>)
BY DEF Has, Before

LEMMA Holds ==
    ASSUME NEW X, NEW t \in Seq(X), NEW K, NEW L
    PROVE  /\ Before(K, L, t) => Has(K, t) /\ Has(L, t) /\ Before(X, X, t)
           /\ Before(K, L, t) => Before(K, X, t) /\ Before(X, L, t)
           /\ Has(K, t) => t # <<>>
BY DEF Has, Before

LEMMA Appended ==
    ASSUME NEW X, NEW t \in Seq(X), NEW x \in X
    PROVE  /\ Append(t, x) \in Seq(X) /\ Append(t, x) # <<>>
           /\ \A K : Has(K, Append(t, x)) <=> Has(K, t) \/ x \in K
           /\ \A K, L : Before(K, L, Append(t, x)) <=>
                            Before(K, L, t) \/ (Has(K, t) /\ x \in L)
<1> DEFINE u == Append(t, x)
           n == Len(t)
<1>1. /\ n \in Nat /\ u \in Seq(X) /\ u # <<>>
      /\ DOMAIN t = 1 .. n /\ DOMAIN u = 1 .. n + 1
      /\ u[n + 1] = x /\ \A i \in 1 .. n : u[i] = t[i]
  OBVIOUS
<1> HIDE DEF u, n
<1>2. ASSUME NEW K PROVE Has(K, u) <=> Has(K, t) \/ x \in K
  <2>1. ASSUME Has(K, u) PROVE Has(K, t) \/ x \in K
    BY <1>1, <2>1 DEF Has
  <2>2. ASSUME Has(K, t) PROVE Has(K, u)
    BY <1>1, <2>2 DEF Has
  <2>3. ASSUME x \in K PROVE Has(K, u)
    BY <1>1, <2>3 DEF Has
  <2> QED
    BY <2>1, <2>2, <2>3
<1>3. ASSUME NEW K, NEW L
      PROVE  Before(K, L, u) <=> Before(K, L, t) \/ (Has(K, t) /\ x \in L)
  <2>1. ASSUME Before(K, L, u) PROVE Before(K, L, t) \/ (Has(K, t) /\ x \in L)
    <3>1. PICK i, j \in 1 .. n + 1 : i < j /\ u[i] \in K /\ u[j] \in L
      BY <1>1, <2>1 DEF Before
    <3>2. i \in 1 .. n
      BY <1>1, <3>1
    <3> QED
      BY <1>1, <3>1, <3>2 DEF Before, Has
  <2>2. ASSUME Before(K, L, t) PROVE Before(K, L, u)
    BY <1>1, <2>2 DEF Before
  <2>3. ASSUME Has(K, t), x \in L PROVE Before(K, L, u)
    <3>1. PICK i \in 1 .. n : t[i] \in K
      BY <1>1, <2>3 DEF Has
    <3>2. i < n + 1 /\ u[i] \in K /\ u[n + 1] \in L /\ i \in DOMAIN u /\ n + 1 \in DOMAIN u
      BY <1>1, <2>3, <3>1
    <3> QED
      BY <3>2 DEF Before
  <2> QED
    BY <2>1, <2>2, <2>3
<1> QED
  BY <1>1, <1>2, <1>3 DEF u

LEMMA Taken ==
    ASSUME NEW X, NEW t \in Seq(X), t # <<>>
    PROVE  /\ Tail(t) \in Seq(X) /\ Head(t) \in X
           /\ \A K : Has(K, t) <=> Has(K, Tail(t)) \/ Head(t) \in K
           /\ \A K, L : Before(K, L, t) <=>
                            Before(K, L, Tail(t)) \/ (Head(t) \in K /\ Has(L, Tail(t)))
<1> DEFINE u == Tail(t)
           n == Len(u)
<1>1. /\ n \in Nat /\ u \in Seq(X) /\ Head(t) \in X /\ Head(t) = t[1]
      /\ DOMAIN u = 1 .. n /\ DOMAIN t = 1 .. n + 1
      /\ \A i \in 1 .. n : u[i] = t[i + 1]
  OBVIOUS
<1> HIDE DEF u, n
<1>0. \A i \in 2 .. n + 1 : i - 1 \in 1 .. n /\ t[i] = u[i - 1]
  BY <1>1
<1>2. ASSUME NEW K PROVE Has(K, t) <=> Has(K, u) \/ Head(t) \in K
  <2>1. ASSUME Has(K, t) PROVE Has(K, u) \/ Head(t) \in K
    <3>1. PICK i \in 1 .. n + 1 : t[i] \in K
      BY <1>1, <2>1 DEF Has
    <3>2. CASE i = 1
      BY <1>1, <3>1, <3>2
    <3>3. CASE i # 1
      <4>1. i \in 2 .. n + 1
        BY <1>1, <3>3
      <4>2. i - 1 \in DOMAIN u /\ u[i - 1] \in K
        BY <1>0, <1>1, <3>1, <4>1
      <4> QED
        BY <4>2 DEF Has
    <3> QED
      BY <3>2, <3>3
  <2>2. ASSUME Has(K, u) PROVE Has(K, t)
    <3>1. PICK i \in 1 .. n : u[i] \in K
      BY <1>1, <2>2 DEF Has
    <3>2. i + 1 \in DOMAIN t /\ t[i + 1] \in K
      BY <1>1, <3>1
    <3> QED
      BY <3>2 DEF Has
  <2>3. ASSUME Head(t) \in K PROVE Has(K, t)
    <3>1. 1 \in DOMAIN t
      BY <1>1
    <3> QED
      BY <1>1, <2>3, <3>1 DEF Has
  <2> QED
    BY <2>1, <2>2, <2>3
<1>3. ASSUME NEW K, NEW L
      PROVE  Before(K, L, t) <=> Before(K, L, u) \/ (Head(t) \in K /\ Has(L, u))
  <2>1. ASSUME Before(K, L, t) PROVE Before(K, L, u) \/ (Head(t) \in K /\ Has(L, u))
    <3>1. PICK i, j \in 1 .. n + 1 : i < j /\ t[i] \in K /\ t[j] \in L
      BY <1>1, <2>1 DEF Before
    <3>2. j \in 2 .. n + 1
      BY <1>1, <3>1
    <3>3. j - 1 \in 1 .. n /\ u[j - 1] \in L
      BY <1>0, <3>1, <3>2
    <3>4. CASE i = 1
      BY <1>1, <3>1, <3>3, <3>4 DEF Has
    <3>5. CASE i # 1
      <4>1. i \in 2 .. n + 1 /\ i - 1 < j - 1
        BY <1>1, <3>1, <3>5
      <4>2. i - 1 \in 1 .. n /\ u[i - 1] \in K
        BY <1>0, <3>1, <4>1
      <4> QED
        BY <1>1, <3>3, <4>1, <4>2 DEF Before
    <3> QED
      BY <3>4, <3>5
  <2>2. ASSUME Before(K, L, u) PROVE Before(K, L, t)
    <3>1. PICK i, j \in 1 .. n : i < j /\ u[i] \in K /\ u[j] \in L
      BY <1>1, <2>2 DEF Before
    <3>2. /\ i + 1 \in DOMAIN t /\ t[i + 1] \in K /\ i + 1 < j + 1
          /\ j + 1 \in DOMAIN t /\ t[j + 1] \in L
      BY <1>1, <3>1
    <3> QED
      BY <3>2 DEF Before
  <2>3. ASSUME Head(t) \in K, Has(L, u) PROVE Before(K, L, t)
    <3>1. PICK j \in 1 .. n : u[j] \in L
      BY <1>1, <2>3 DEF Has
    <3>2. /\ 1 \in DOMAIN t /\ t[1] \in K /\ 1 < j + 1
          /\ j + 1 \in DOMAIN t /\ t[j + 1] \in L
      BY <1>1, <2>3, <3>1
    <3> QED
      BY <3>2 DEF Before
  <2> QED
    BY <2>1, <2>2, <2>3
<1> QED
  BY <1>1, <1>2, <1>3 DEF u

LEMMA Joined ==
    ASSUME NEW X, NEW f \in Seq(X), NEW r \in Seq(X)
    PROVE  /\ f \o r \in Seq(X)
           /\ \A K : Has(K, f \o r) <=> Has(K, f) \/ Has(K, r)
           /\ \A K, L : Before(K, L, f \o r) <=>
                            \/ Before(K, L, f) \/ Before(K, L, r)
                            \/ Has(K, f) /\ Has(L, r)
<1> DEFINE u == f \o r
           m == Len(f)
           n == Len(r)
<1>1. /\ m \in Nat /\ n \in Nat /\ u \in Seq(X)
      /\ DOMAIN f = 1 .. m /\ DOMAIN r = 1 .. n /\ DOMAIN u = 1 .. m + n
      /\ \A i \in 1 .. m : u[i] = f[i]
      /\ \A i \in 1 .. n : u[m + i] = r[i]
  OBVIOUS
<1> HIDE DEF u, m, n
<1>2. \A i \in 1 .. m : i \in DOMAIN f /\ i \in DOMAIN u /\ u[i] = f[i]
  BY <1>1
<1>3. \A i \in 1 .. n : i \in DOMAIN r /\ m + i \in DOMAIN u /\ u[m + i] = r[i]
  BY <1>1
<1>4. ASSUME NEW i \in DOMAIN u, i \notin 1 .. m
      PROVE  i - m \in 1 .. n /\ u[i] = r[i - m]
  <2>1. i - m \in 1 .. n /\ m + (i - m) = i
    BY <1>1, <1>4
  <2> QED
    BY <1>3, <2>1
<1>5. ASSUME NEW K PROVE Has(K, u) <=> Has(K, f) \/ Has(K, r)
  <2>1. ASSUME Has(K, u) PROVE Has(K, f) \/ Has(K, r)
    <3>1. PICK i \in DOMAIN u : u[i] \in K
      BY <2>1 DEF Has
    <3>2. CASE i \in 1 .. m
      BY <1>2, <3>1, <3>2 DEF Has
    <3>3. CASE i \notin 1 .. m
      <4>1. i - m \in DOMAIN r /\ r[i - m] \in K
        BY <1>1, <1>4, <3>1, <3>3
      <4> QED
        BY <4>1 DEF Has
    <3> QED
      BY <3>2, <3>3
  <2>2. ASSUME Has(K, f) PROVE Has(K, u)
    BY <1>1, <1>2, <2>2 DEF Has
  <2>3. ASSUME Has(K, r) PROVE Has(K, u)
    <3>1. PICK i \in 1 .. n : r[i] \in K
      BY <1>1, <2>3 DEF Has
    <3>2. m + i \in DOMAIN u /\ u[m + i] \in K
      BY <1>3, <3>1
    <3> QED
      BY <3>2 DEF Has
  <2> QED
    BY <2>1, <2>2, <2>3
<1>6. ASSUME NEW K, NEW L
      PROVE  Before(K, L, u) <=> Before(K, L, f) \/ Before(K, L, r) \/ (Has(K, f) /\ Has(L, r))
  <2>1. ASSUME Before(K, L, u)
        PROVE  Before(K, L, f) \/ Before(K, L, r) \/ (Has(K, f) /\ Has(L, r))
    <3>1. PICK i \in DOMAIN u, j \in DOMAIN u : i < j /\ u[i] \in K /\ u[j] \in L
      BY <2>1 DEF Before
    <3>2. CASE j \in 1 .. m
      <4>1. i \in 1 .. m
        BY <1>1, <3>1, <3>2
      <4> QED
        BY <1>2, <3>1, <3>2, <4>1 DEF Before
    <3>3. CASE i \in 1 .. m /\ j \notin 1 .. m
      <4>1. j - m \in DOMAIN r /\ r[j - m] \in L
        BY <1>1, <1>4, <3>1, <3>3
      <4>2. i \in DOMAIN f /\ f[i] \in K
        BY <1>2, <3>1, <3>3
      <4> QED
        BY <4>1, <4>2 DEF Has
    <3>4. CASE i \notin 1 .. m /\ j \notin 1 .. m
      <4>1. i - m \in DOMAIN r /\ r[i - m] \in K
        BY <1>1, <1>4, <3>1, <3>4
      <4>2. j - m \in DOMAIN r /\ r[j - m] \in L
        BY <1>1, <1>4, <3>1, <3>4
      <4>3. i - m < j - m
        BY <1>1, <3>1
      <4> QED
        BY <4>1, <4>2, <4>3 DEF Before
    <3>5. i \notin 1 .. m \/ j \in 1 .. m \/ (i \in 1 .. m /\ j \notin 1 .. m)
      OBVIOUS
    <3> QED
      BY <3>2, <3>3, <3>4
  <2>2. ASSUME Before(K, L, f) PROVE Before(K, L, u)
    BY <1>1, <1>2, <2>2 DEF Before
  <2>3. ASSUME Before(K, L, r) PROVE Before(K, L, u)
    <3>1. PICK i \in 1 .. n, j \in 1 .. n : i < j /\ r[i] \in K /\ r[j] \in L
      BY <1>1, <2>3 DEF Before
    <3>2. /\ m + i \in DOMAIN u /\ u[m + i] \in K
          /\ m + j \in DOMAIN u /\ u[m + j] \in L
      BY <1>3, <3>1
    <3>3. m + i < m + j
      BY <1>1, <3>1
    <3> QED
      BY <3>2, <3>3 DEF Before
  <2>4. ASSUME Has(K, f), Has(L, r) PROVE Before(K, L, u)
    <3>1. PICK i \in 1 .. m : f[i] \in K
      BY <1>1, <2>4 DEF Has
    <3>2. PICK j \in 1 .. n : r[j] \in L
      BY <1>1, <2>4 DEF Has
    <3>3. /\ i \in DOMAIN u /\ u[i] \in K
          /\ m + j \in DOMAIN u /\ u[m + j] \in L
      BY <1>2, <1>3, <3>1, <3>2
    <3>4. i < m + j
      BY <1>1
    <3> QED
      BY <3>3, <3>4 DEF Before
  <2> QED
    BY <2>1, <2>2, <2>3, <2>4
<1> QED
  BY <1>1, <1>5, <1>6 DEF u

(* t holds nothing but elements of u, in the order of u.                    *)
Within(t, u) ==
    /\ \A K : Has(K, t) => Has(K, u)
    /\ \A K, L : Before(K, L, t) => Before(K, L, u)

LEMMA JoinWithin ==
    ASSUME NEW X, NEW f \in Seq(X), NEW r \in Seq(X), NEW s \in Seq(X), Within(s, r)
    PROVE  Within(f \o s, f \o r)
<1>1. ASSUME NEW K PROVE Has(K, f \o s) => Has(K, f \o r)
  BY Joined DEF Within
<1>2. ASSUME NEW K, NEW L PROVE Before(K, L, f \o s) => Before(K, L, f \o r)
  BY Joined DEF Within
<1> QED
  BY <1>1, <1>2 DEF Within

LEMMA FramesWithin ==
    ASSUME NEW q \in Seq(Answers)
    PROVE  Within(Frames(q), q)
<1> DEFINE N == Len(q)
<1>1. PICK F : /\ Frames(q) = F[N]
               /\ F[0] = <<>>
               /\ \A i \in 1 .. N :
                     F[i] = IF q[i].k \in FrameKind THEN Append(F[i - 1], q[i]) ELSE F[i - 1]
  BY FramesFunction
<1>2. N \in Nat /\ q \in [1 .. N -> Answers]
  OBVIOUS
(* Each frame and each pair of frames comes from the first i answers.       *)
<1> DEFINE One(i) == \A a \in DOMAIN F[i] : \E b \in 1 .. i : q[b] = F[i][a]
           Two(i) == \A a, c \in DOMAIN F[i] : a < c =>
                        \E b, e \in 1 .. i : b < e /\ q[b] = F[i][a] /\ q[e] = F[i][c]
           P == {i \in Nat : i <= N => F[i] \in Seq(Answers) /\ One(i) /\ Two(i)}
<1>3. 0 \in P
  <2>1. DOMAIN F[0] = {} /\ F[0] \in Seq(Answers)
    BY <1>1
  <2> QED
    BY <2>1
<1>4. ASSUME NEW i \in 1 .. N, i - 1 \in P PROVE i \in P
  <2>1. i \in Nat /\ i - 1 \in Nat /\ i - 1 <= N /\ \A b \in 1 .. i - 1 : b \in 1 .. i /\ b < i
    BY <1>2
  <2>2. F[i - 1] \in Seq(Answers) /\ One(i - 1) /\ Two(i - 1)
    <3> HIDE DEF One, Two
    <3> QED
      BY <1>4, <2>1
  <2>3. F[i] = IF q[i].k \in FrameKind THEN Append(F[i - 1], q[i]) ELSE F[i - 1]
    BY <1>1
  <2>4. F[i] \in Seq(Answers) /\ One(i) /\ Two(i)
    <3>1. CASE q[i].k \notin FrameKind
      <4>1. F[i] = F[i - 1]
        BY <2>3, <3>1
      <4> QED
        BY <2>1, <2>2, <4>1
    <3>2. CASE q[i].k \in FrameKind
      <4> DEFINE t == F[i - 1]
                 n == Len(t)
      <4>1. F[i] = Append(t, q[i]) /\ q[i] \in Answers
        BY <1>2, <2>3, <3>2
      <4>2. /\ n \in Nat /\ DOMAIN t = 1 .. n /\ DOMAIN F[i] = 1 .. n + 1
            /\ F[i] \in Seq(Answers) /\ F[i][n + 1] = q[i]
            /\ \A a \in 1 .. n : F[i][a] = t[a]
        BY <2>2, <4>1
      <4> HIDE DEF t, n
      <4>3. One(i)
        <5> SUFFICES ASSUME NEW a \in 1 .. n + 1
                     PROVE  \E b \in 1 .. i : q[b] = F[i][a]
          BY <4>2
        <5>1. CASE a \in 1 .. n
          <6>1. a \in DOMAIN t /\ F[i][a] = t[a]
            BY <4>2, <5>1
          <6>2. PICK b \in 1 .. i - 1 : q[b] = t[a]
            BY <2>2, <6>1 DEF t
          <6> QED
            BY <2>1, <6>1, <6>2
        <5>2. CASE a = n + 1
          BY <2>1, <4>2, <5>2
        <5> QED
          BY <4>2, <5>1, <5>2
      <4>4. Two(i)
        <5> SUFFICES ASSUME NEW a \in DOMAIN F[i], NEW c \in DOMAIN F[i], a < c
                     PROVE  \E b, e \in 1 .. i : b < e /\ q[b] = F[i][a] /\ q[e] = F[i][c]
          OBVIOUS
        <5>0. a \in 1 .. n /\ a \in DOMAIN t /\ t[a] = F[i][a]
          <6>1. a \in 1 .. n + 1 /\ c \in 1 .. n + 1
            BY <4>2
          <6>2. a \in 1 .. n
            BY <4>2, <6>1
          <6> QED
            BY <4>2, <6>2
        <5>1. CASE c \in 1 .. n
          <6>1. c \in DOMAIN t /\ t[c] = F[i][c]
            BY <4>2, <5>1
          <6>2. PICK b \in 1 .. i - 1, e \in 1 .. i - 1 : b < e /\ q[b] = t[a] /\ q[e] = t[c]
            BY <2>2, <5>0, <6>1 DEF t
          <6>3. b \in 1 .. i /\ e \in 1 .. i /\ q[b] = F[i][a] /\ q[e] = F[i][c]
            BY <2>1, <5>0, <6>1, <6>2
          <6> QED
            BY <6>2, <6>3
        <5>2. CASE c = n + 1
          <6>1. PICK b \in 1 .. i - 1 : q[b] = t[a]
            BY <2>2, <5>0 DEF t
          <6>2. b \in 1 .. i /\ b < i /\ i \in 1 .. i /\ q[i] = F[i][c]
            BY <2>1, <4>2, <5>2
          <6> QED
            BY <5>0, <6>1, <6>2
        <5> QED
          BY <4>2, <5>1, <5>2
      <4> QED
        BY <4>2, <4>3, <4>4
    <3> QED
      BY <3>1, <3>2
  <2> HIDE DEF One, Two
  <2> QED
    BY <2>1, <2>4
<1>5. P \in SUBSET Nat
  OBVIOUS
<1> HIDE DEF P
<1>6. 0 .. N \subseteq P
  BY <1>2, <1>3, <1>4, <1>5, UpTo
<1>7. One(N) /\ Two(N)
  <2>1. N \in P
    BY <1>2, <1>6
  <2> HIDE DEF One, Two
  <2> QED
    BY <1>2, <2>1 DEF P
<1>8. ASSUME NEW K, Has(K, F[N]) PROVE Has(K, q)
  <2>1. PICK a \in DOMAIN F[N] : F[N][a] \in K
    BY <1>8 DEF Has
  <2>2. PICK b \in 1 .. N : q[b] = F[N][a]
    BY <1>7
  <2> QED
    BY <1>2, <2>1, <2>2 DEF Has
<1>9. ASSUME NEW K, NEW L, Before(K, L, F[N]) PROVE Before(K, L, q)
  <2>1. PICK a \in DOMAIN F[N], c \in DOMAIN F[N] : a < c /\ F[N][a] \in K /\ F[N][c] \in L
    BY <1>9 DEF Before
  <2>2. PICK b \in 1 .. N, e \in 1 .. N : b < e /\ q[b] = F[N][a] /\ q[e] = F[N][c]
    BY <1>7, <2>1
  <2> QED
    BY <1>2, <2>1, <2>2 DEF Before
<1> QED
  BY <1>1, <1>8, <1>9 DEF Within

LEMMA RestWithin ==
    ASSUME NEW X, NEW q \in Seq(X), NEW m \in DOMAIN q
    PROVE  /\ From(q, m) \in Seq(X)
           /\ Within(From(q, m), q)
           /\ \A K, L : q[m] \in K /\ Has(L, From(q, m)) => Before(K, L, q)
<1> DEFINE u == From(q, m)
           n == Len(u)
<1>1. /\ u \in Seq(X) /\ m \in Nat /\ n \in Nat /\ DOMAIN u = 1 .. n
      /\ \A i \in 1 .. n : u[i] = q[m + i] /\ m + i \in DOMAIN q /\ m < m + i
  <2> DEFINE N == Len(q)
  <2>1. N \in Nat /\ DOMAIN q = 1 .. N /\ m \in 1 .. N
    OBVIOUS
  <2>2. u \in Seq(X) /\ n \in Nat /\ n = N - m /\ DOMAIN u = 1 .. n
    BY <2>1 DEF From
  <2>3. \A i \in 1 .. N - m : u[i] = q[m + i]
    BY <2>1 DEF From
  <2> HIDE DEF u, n, N
  <2>4. \A i \in 1 .. n : m + i \in 1 .. N /\ m < m + i
    BY <2>1, <2>2
  <2> QED
    BY <2>1, <2>2, <2>3, <2>4
<1> HIDE DEF u, n
<1>2. ASSUME NEW i \in 1 .. n, NEW j \in 1 .. n, i < j PROVE m + i < m + j
  BY <1>1, <1>2
<1>3. Within(u, q)
  BY <1>1, <1>2 DEF Within, Has, Before
<1>4. ASSUME NEW K, NEW L, q[m] \in K, Has(L, u) PROVE Before(K, L, q)
  BY <1>1, <1>4 DEF Has, Before
<1> QED
  BY <1>1, <1>3, <1>4 DEF u

-----------------------------------------------------------------------------
(* Which answers a command gets, and when                                   *)

Letters == [k : Command, d : Dlci, baud : {Entry, Target}]
Control == {c \in Letters : c.k = "SABM" /\ c.d = 0}
Others == {c \in Letters : c.k \in {"SABM", "DISC"} /\ c.d # 0}
Texts == {c \in Letters : c.k \in Form \union {"AT"}}
Forms == {c \in Letters : c.k \in Form}
Ends == {c \in Letters : c.k \in {"DISC", "CLD"}}
NotAt == {c \in Letters : c.k # "AT"}
DiscZero == {c \in Letters : c.k = "DISC" /\ c.d = 0}

Ua(d) == {m \in Answers : m.k = "UA" /\ m.d = d}
DmZero == {m \in Answers : m.k = "DM" /\ m.d = 0}
Talked == {m \in Answers : m.k \in {"UIH", "UIH_OK", "UIH_ERROR"}}
UihOk == {m \in Answers : m.k = "UIH_OK"}
Ok == {m \in Answers : m.k = "OK"}
Oks == {m \in Answers : m.k \in {"OK", "UIH_OK"}}
Errors == {m \in Answers : m.k \in {"ERROR", "UIH_ERROR"}}
Elsewhere == {m \in Answers : m.k \in FrameKind /\ m.d # 0}

(* The answers the host has not used yet.                                   *)
Queue == host.frames \o rx

None == [d \in Dlci |-> FALSE]
InMux == modem.mode = "mux"
Tried == IF host.recovering THEN 2 ELSE 1

(* The closing of a session that had the multiplexer, and of one that did   *)
(* not get it.                                                              *)
Ending == host.pc \in {"disc", "probe"} \/ (host.pc = "close" /\ host.established)
Idle == host.pc \in {"off", "port"} \/ (host.pc = "close" /\ ~host.established)

(* Where the parts of the host stand to each other, whatever goes wrong.    *)
Shape ==
    /\ ~Has(DiscZero, tx) /\ ~Has(DmZero, Queue)
    /\ host.pc \in {"off", "warmup", "resp", "cld"} => host.frames = <<>> /\ host.dlc = None
    /\ host.pc = "dlc" => IF host.ch = 0 THEN host.dlc = None /\ host.n \in {1, 2}
                                         ELSE host.dlc[0]
    /\ host.pc # "port" /\ host.dlc[0] => host.established
    /\ host.recovering \/ host.pc \in {"up", "disc", "probe"} => host.established
    /\ host.pc \in {"warmup", "resp"} \/ (host.pc = "dlc" /\ host.ch = 0) =>
          (host.established => host.recovering)
    /\ host.recovering => host.pc \in {"cld", "warmup", "resp", "dlc"}
    /\ host.pc = "cld" => host.recovering
    /\ host.pc = "off" => rx = <<>>
    /\ host.pc = "resp" /\ tx # <<>> => tx[Len(tx)].k = host.cmd

(* What has to have gone wrong for ...                                      *)

(* ... a channel to talk, a link to be recovered, a modem to restart.       *)
Noise ==
    /\ Has(Talked, Queue) => faults >= 1
    /\ Before(Talked, Talked, Queue) => faults >= 2
    /\ hist.cut => faults >= 1
    /\ host.recovering \/ (host.pc = "up" /\ ~host.dlc[0]) => faults >= 1
    /\ Has(UihOk, rx) => "UIH_OK" \in hist.text

(* ... commands to outlive their session.                                   *)
LateIdle ==
    Idle =>
        /\ tx # <<>> => faults >= 1
        /\ Before(Texts, Control, tx) => faults >= 2
        /\ Before(Control, Ends, tx) => faults >= 2
        /\ Before(Control, Forms, tx) => faults >= 2

(* ... to be still there at the AT handshake of the next one.               *)
LateWarmup ==
    host.pc = "warmup" =>
        /\ Has(NotAt, tx) \/ Before(Letters, Letters, tx) => faults >= 1
        /\ Before(Texts, Control, tx) => faults >= 2
        /\ Before(Control, Ends, tx) => faults >= 2
        /\ Before(Control, Forms, tx) => faults >= 2
        /\ Has(Oks, rx) /\ Has(Control, tx) => faults >= 2
        /\ Has(Oks, rx) /\ tx # <<>> => faults >= 1
        /\ Has(Oks, rx) /\ InMux => faults >= Tried
        /\ host.recovering /\ Has(Forms, tx) => faults >= 3

(* ... while the response to AT+CMUX is awaited.                            *)
LateResp ==
    host.pc = "resp" =>
        /\ Before(Control, Ends, tx) => faults >= 3
        /\ Before(Letters, Letters, tx) => faults >= 1
        /\ rx # <<>> /\ tx # <<>> => faults >= 1
        /\ Before(Control, Texts, tx) => faults >= 2
        /\ Has(Ua(0), rx) /\ Has(Texts, tx) => faults >= 2
        /\ Has(Errors, rx) /\ Before(Texts, Control, tx) => faults >= 2
        /\ Has(Control, tx) /\ Has(Forms, tx) => faults >= 2
        /\ Has(Control, tx) /\ host.cmd \in Form => faults >= 3
        /\ host.pending /\ (Has(Control, tx) \/ Has(Ua(0), rx)) => faults >= 3
        /\ Has(Others, tx) \/ Has(Elsewhere, rx) => faults >= 1

LateForm ==
    host.pc = "resp" =>
        /\ Before(Control, Forms, tx) => faults >= 3
        /\ Before(Letters, Forms, tx) => faults >= 2
        /\ Has(Ua(0), rx) /\ Has(Forms, tx) => faults >= 3
        /\ rx # <<>> /\ Has(Forms, tx) => faults >= 2
        /\ InMux /\ Has(Forms, tx) => faults >= Tried
        /\ InMux /\ Has(Errors, rx) /\ host.cmd \in Form => faults >= Tried
        /\ host.recovering =>
              /\ Before(Forms, Forms, tx) => faults >= 3
              /\ Has(Errors, rx) /\ Has(Forms, tx) => faults >= 3
              /\ Has(Talked, rx) /\ Has(Forms, tx) => faults >= 3

(* ... and while the channels are asked for.                                *)
LateDlc ==
    host.pc = "dlc" =>
        /\ Before(Control, Ends, tx) => faults >= 3
        /\ Has(Texts, tx) => faults >= 1
        /\ Before(Control, Texts, tx) => faults >= 2
        /\ Has(Texts, tx) /\ (Has(Ua(0), Queue) \/ host.ch # 0) => faults >= 2
        /\ Has(Texts, tx) /\ Has(Talked, Queue) /\ host.n = 2 => faults >= 2
        /\ host.ch = 0 /\ (Has(Others, tx) \/ Has(Elsewhere, Queue)) => faults >= 1
        /\ Before(Others, Control, tx) => faults >= 1
        /\ Has(Elsewhere, Queue) /\ Has(Control, tx) => faults >= 1
        /\ host.ch > 1 /\ Has(Control, tx) => faults >= 1
        /\ Before(Control, Forms, tx) => faults >= 3
        /\ Has(Forms, tx) /\ (Has(Ua(0), Queue) \/ host.ch # 0) => faults >= 3
        /\ host.recovering /\ Has(Forms, tx) => faults >= 2
        /\ host.recovering /\ Has(Forms, tx) /\ Has(Talked, Queue) => faults >= 3

(* ... to be there when the link is in use, is lost or is closed.           *)
LateUp ==
    host.pc \in {"up", "cld"} \/ Ending =>
        /\ Has(Control, tx) => faults >= 1
        /\ Before(Texts, Control, tx) => faults >= 2
        /\ Before(Control, Ends, tx) => faults >= 1
        /\ Has(Texts, tx) /\ ~(host.pc = "probe" /\ host.n > 0) => faults >= 1
        /\ Has(Forms, tx) => faults >= 3

LateProbe ==
    host.pc = "probe" /\ host.n > 0 =>
        /\ Before(Texts, Letters, tx) => faults >= 1
        /\ Has(Oks, rx) /\ tx # <<>> => faults >= 1
        /\ Has(Oks, rx) /\ Before(Control, Ends, tx) => faults >= 2

Late == LateIdle /\ LateWarmup /\ LateResp /\ LateForm /\ LateDlc /\ LateUp /\ LateProbe

(* After two faults at most, the UA of the control channel is that of a     *)
(* multiplexer that no command in flight closes.                            *)
Live ==
    /\ InMux /\ modem.baud = host.baud /\ 0 \in modem.open
    /\ ~Has(Ends, tx)

Granted ==
    faults <= 2 /\ ~hist.cut =>
        /\ host.pc \in {"resp", "dlc"} =>
              /\ Has(Ua(0), Queue) => Live
              /\ \A d \in Data : Before(Ua(0), Ua(d), Queue) => d \in modem.open
        /\ host.pc \in {"dlc", "up"} =>
              \A d \in Dlci : host.dlc[d] => Live /\ d \in modem.open
        /\ host.pc = "dlc" /\ host.dlc[0] =>
              \A d \in Data : Has(Ua(d), Queue) => d \in modem.open

(* And the "OK" of a probe that of a modem in AT mode.                      *)
Probed ==
    faults <= 2 /\ host.pc = "probe" /\ host.n > 0 /\ Has(Ok, rx) =>
        modem.mode = "at" /\ (modem.baud = host.baud \/ hist.cut)

InOrder == Shape /\ Noise /\ Late /\ Granted /\ Probed

-----------------------------------------------------------------------------
(* The steps of the host                                                    *)

LEMMA Written ==
    ASSUME Types
    PROVE  tx \in Seq(Letters) /\ host.baud \in {Entry, Target}
<1>1. Speeds \subseteq {Entry, Target}
  BY SetupType DEF Types, Speeds, Setup
<1>2. Commands \subseteq Letters
  BY <1>1 DEF Commands, Letters
<1> QED
  BY <1>1, <1>2 DEF Types, Hosts

LEMMA Kinds ==
    ASSUME NEW k \in Command, NEW d \in Dlci, NEW b \in {Entry, Target}
    PROVE  LET c == [k |-> k, d |-> d, baud |-> b] IN
           /\ c \in Letters
           /\ c \in Control <=> k = "SABM" /\ d = 0
           /\ c \in Others <=> k \in {"SABM", "DISC"} /\ d # 0
           /\ c \in Texts <=> k \in {"AT", "speed", "n1", "bare"}
           /\ c \in Forms <=> k \in {"speed", "n1", "bare"}
           /\ c \in Ends <=> k \in {"DISC", "CLD"}
           /\ c \in NotAt <=> k # "AT"
           /\ c \in DiscZero <=> k = "DISC" /\ d = 0
BY DEF Letters, Control, Others, Texts, Forms, Ends, NotAt, DiscZero, Form

(* What a command does to the order in which commands wait.                 *)
LEMMA Sent ==
    ASSUME Types, NEW k \in Command, NEW d \in Dlci, NEW b \in {Entry, Target},
           tx' = Append(tx, [k |-> k, d |-> d, baud |-> b])
    PROVE  LET c == [k |-> k, d |-> d, baud |-> b] IN
           /\ \A K : Has(K, tx') <=> Has(K, tx) \/ c \in K
           /\ \A K, L : Before(K, L, tx') <=> Before(K, L, tx) \/ (Has(K, tx) /\ c \in L)
           /\ tx' # <<>> /\ tx'[Len(tx')].k = k
<1> DEFINE c == [k |-> k, d |-> d, baud |-> b]
<1>1. c \in Letters /\ tx \in Seq(Letters) /\ tx' = Append(tx, c)
  BY Kinds, Written
<1>2. c.k = k
  OBVIOUS
<1> HIDE DEF c
<1>3. tx'[Len(tx')] = c
  BY <1>1
<1>4. /\ Append(tx, c) # <<>>
      /\ \A K : Has(K, Append(tx, c)) <=> Has(K, tx) \/ c \in K
      /\ \A K, L : Before(K, L, Append(tx, c)) <=> Before(K, L, tx) \/ (Has(K, tx) /\ c \in L)
  BY <1>1, Appended
<1> QED
  BY <1>1, <1>2, <1>3, <1>4 DEF c

LEMMA Delays ==
    ASSUME Types, Deadline \/ NoFault
    PROVE  /\ faults \in Nat /\ faults' \in Nat /\ faults' >= faults
           /\ Deadline /\ tx # <<>> => faults' = faults + 1
BY MuxAssumption DEF Types, Deadline, NoFault, Fault

LEMMA StartOrder ==
    ASSUME Types, Types', InOrder, Start
    PROVE  InOrder'
<1> DEFINE c == [k |-> "AT", d |-> 0, baud |-> Entry]
<1>1. /\ host.pc = "off" /\ host' = [Fresh EXCEPT !.pc = "warmup"]
      /\ rx' = <<>> /\ faults' = faults /\ hist' = History
      /\ tx' = Append(tx, c)
  BY DEF Start, NoFault, Send, Fresh
<1>2. /\ host'.pc = "warmup" /\ host'.frames = <<>> /\ host'.dlc = None
      /\ ~host'.recovering /\ ~host'.established
  BY <1>1 DEF Fresh, None
<1>3. faults \in Nat
  BY MuxAssumption DEF Types
<1>4. "AT" \in Command /\ 0 \in Dlci /\ Entry \in {Entry, Target}
  BY Channel0 DEF Command
<1>5. /\ c \notin Control /\ c \notin Ends /\ c \notin Forms /\ c \notin NotAt
      /\ c \notin DiscZero
  BY <1>4, Kinds
<1>6. /\ \A K : Has(K, tx') <=> Has(K, tx) \/ c \in K
      /\ \A K, L : Before(K, L, tx') <=> Before(K, L, tx) \/ (Has(K, tx) /\ c \in L)
      /\ \A K : Has(K, tx) => tx # <<>>
  BY <1>1, <1>4, Sent, Written, Holds
<1>7. Queue' = <<>>
  BY <1>1, <1>2 DEF Queue
<1> HIDE DEF c
<1>8. Idle /\ LateIdle
  BY <1>1 DEF Idle, InOrder, Late
<1>9. Shape'
  <2>1. ~Has(DiscZero, tx)
    BY DEF InOrder, Shape
  <2>2. ~None[0]
    BY Channel0 DEF None
  <2> QED
    BY <1>2, <1>5, <1>6, <1>7, <2>1, <2>2, Nothing DEF Shape
<1>10. Noise'
  BY <1>1, <1>2, <1>7, Nothing DEF Noise, History
<1>11. Late'
  <2>1. LateWarmup'
    BY <1>1, <1>2, <1>3, <1>5, <1>6, <1>8, Nothing DEF LateWarmup, LateIdle
  <2>2. ~Idle'
    BY <1>2 DEF Idle
  <2> QED
    BY <1>2, <2>1, <2>2 DEF Late, LateIdle, LateResp, LateForm, LateDlc, LateUp, LateProbe, Ending
<1>12. Granted' /\ Probed'
  BY <1>2 DEF Granted, Probed
<1> QED
  BY <1>9, <1>10, <1>11, <1>12 DEF InOrder

LEMMA Texting ==
    ASSUME Types
    PROVE  (HasOk(rx) <=> Has(Oks, rx)) /\ (HasError(rx) <=> Has(Errors, rx))
<1>1. \A i \in DOMAIN rx : rx[i] \in Answers
  BY DEF Types
<1> QED
  BY <1>1 DEF HasOk, HasError, Has, Oks, Errors

LEMMA WarmupOrder ==
    ASSUME Types, Types', InOrder, Warmup
    PROVE  InOrder'
<1> DEFINE k == IF HasOk(rx) THEN setup.form ELSE "SABM"
           c == [k |-> k, d |-> 0, baud |-> host.baud]
           p == HasOk(rx) /\ setup.speed # host.baud
<1>1. /\ host.pc = "warmup" /\ host' = [host EXCEPT !.pc = "resp", !.cmd = k, !.pending = p]
      /\ rx' = <<>> /\ Deadline /\ hist' = hist /\ modem' = modem
      /\ tx' = Append(tx, c)
  BY DEF Warmup, Send
<1>2. /\ host'.pc = "resp" /\ host'.frames = host.frames /\ host'.dlc = host.dlc
      /\ host'.cmd = k /\ host'.pending = p
      /\ host'.recovering = host.recovering /\ host'.established = host.established
  BY <1>1 DEF Types, Hosts
<1>3. /\ faults \in Nat /\ faults' \in Nat /\ faults' >= faults
      /\ tx # <<>> => faults' = faults + 1
  BY <1>1, Delays
<1>4. k \in Command /\ 0 \in Dlci /\ host.baud \in {Entry, Target}
  BY Channel0, SetupType, Written DEF Types, Command
<1>5. /\ IF HasOk(rx) THEN k \in {"speed", "n1", "bare"} ELSE k = "SABM"
      /\ p => HasOk(rx)
  BY SetupType DEF Types, Form
<1>6. HasOk(rx) <=> Has(Oks, rx)
  BY Texting
<1>7. /\ \A K : Has(K, tx') <=> Has(K, tx) \/ c \in K
      /\ \A K, L : Before(K, L, tx') <=> Before(K, L, tx) \/ (Has(K, tx) /\ c \in L)
      /\ tx'[Len(tx')].k = k
  <2> HIDE DEF k
  <2> QED
    BY <1>1, <1>4, Sent
<1>8. /\ \A K : Has(K, tx) => tx # <<>>
      /\ \A K, L : Before(K, L, tx) => Has(K, tx) /\ Has(L, tx) /\ tx # <<>>
  BY Written, Holds
<1>9. /\ c \in Control <=> k = "SABM"
      /\ c \in Forms <=> k # "SABM"
      /\ c \in Texts <=> k # "SABM"
      /\ c \notin Ends /\ c \notin Others /\ c \notin DiscZero
  <2> HIDE DEF k
  <2> QED
    BY <1>4, <1>5, Kinds
<1>10. Has(Forms, tx) \/ Has(Others, tx) \/ Has(Control, tx) => Has(NotAt, tx)
  BY DEF Has, Forms, Others, Control, NotAt, Form
<1>11. Shape /\ Noise /\ LateWarmup
  BY DEF InOrder, Late
<1>12. host'.frames = <<>> /\ Queue' = <<>>
  BY <1>1, <1>2, <1>11 DEF Queue, Shape
<1> HIDE DEF c, p, k
<1>13. Shape'
  <2>1. host'.dlc = None /\ ~None[0]
    BY <1>1, <1>2, <1>11, Channel0 DEF Shape, None
  <2>2. ~Has(DiscZero, tx')
    BY <1>7, <1>9, <1>11 DEF Shape
  <2>3. ~Has(DmZero, Queue')
    BY <1>12, Nothing
  <2> QED
    BY <1>1, <1>2, <1>7, <1>11, <1>12, <2>1, <2>2, <2>3 DEF Shape
<1>14. Noise'
  <2>1. ~Has(UihOk, rx') /\ ~Has(Talked, Queue') /\ ~Before(Talked, Talked, Queue')
    BY <1>1, <1>12, Nothing
  <2> QED
    BY <1>1, <1>2, <1>3, <1>11, <2>1 DEF Noise
<1>15. LateResp' /\ LateForm'
  <2>1. ~Has(Ua(0), rx') /\ ~Has(Errors, rx') /\ ~Has(Elsewhere, rx') /\ ~Has(Talked, rx')
    BY <1>1, Nothing
  <2>2. CASE tx = <<>>
    <3>1. /\ \A K : Has(K, tx') <=> c \in K
          /\ \A K, L : ~Before(K, L, tx')
      BY <1>7, <2>2, Nothing
    <3>2. LateResp'
      BY <1>1, <1>2, <1>5, <1>9, <2>1, <3>1 DEF LateResp, Form
    <3>3. Has(Forms, tx') /\ InMux => faults >= Tried
      BY <1>1, <1>5, <1>6, <1>9, <1>11, <3>1 DEF LateWarmup
    <3>4. LateForm'
      BY <1>1, <1>2, <1>3, <2>1, <3>1, <3>3 DEF LateForm, InMux, Tried
    <3> QED
      BY <3>2, <3>4
  <2>3. CASE tx # <<>>
    <3>1. faults' = faults + 1
      BY <1>3, <2>3
    <3>2. /\ Has(NotAt, tx) => faults >= 1
          /\ Before(Texts, Control, tx) => faults >= 2
          /\ Before(Control, Ends, tx) => faults >= 2
          /\ Before(Control, Forms, tx) => faults >= 2
          /\ HasOk(rx) /\ Has(Control, tx) => faults >= 2
          /\ HasOk(rx) => faults >= 1
          /\ HasOk(rx) /\ InMux => faults >= Tried
          /\ host.recovering /\ Has(Forms, tx) => faults >= 3
      BY <1>1, <1>6, <1>11, <2>3 DEF LateWarmup
    <3>3. /\ Before(Control, Ends, tx') => Before(Control, Ends, tx)
          /\ Before(Control, Texts, tx') => Has(Control, tx)
          /\ Has(Control, tx') => Has(Control, tx) \/ k = "SABM"
          /\ Has(Forms, tx') => Has(Forms, tx) \/ HasOk(rx)
          /\ Has(Others, tx') => Has(Others, tx)
          /\ Before(Control, Forms, tx') => Before(Control, Forms, tx) \/ (Has(Control, tx) /\ HasOk(rx))
          /\ Before(Forms, Forms, tx') => Has(Forms, tx)
          /\ Before(Letters, Forms, tx') => Has(Forms, tx) \/ HasOk(rx)
      BY <1>5, <1>7, <1>8, <1>9
    <3>4. LateResp'
      <4>1. /\ Before(Control, Ends, tx') => faults' >= 3
            /\ faults' >= 1
            /\ Before(Control, Texts, tx') => faults' >= 2
            /\ Has(Control, tx') /\ Has(Forms, tx') => faults' >= 2
        BY <1>3, <1>10, <3>1, <3>2, <3>3
      <4>2. Has(Control, tx') /\ (host'.cmd \in Form \/ host'.pending) => faults' >= 3
        BY <1>2, <1>3, <1>5, <3>1, <3>2, <3>3 DEF Form
      <4> QED
        BY <1>2, <2>1, <4>1, <4>2 DEF LateResp
    <3>5. LateForm'
      <4>1. /\ Before(Control, Forms, tx') => faults' >= 3
            /\ Before(Letters, Forms, tx') => faults' >= 2
            /\ Before(Forms, Forms, tx') /\ host.recovering => faults' >= 3
        BY <1>3, <1>10, <3>1, <3>2, <3>3
      <4>2. InMux /\ Has(Forms, tx') => faults' >= Tried
        BY <1>3, <1>10, <3>1, <3>2, <3>3 DEF Tried
      <4> QED
        BY <1>1, <1>2, <2>1, <4>1, <4>2 DEF LateForm, InMux, Tried
    <3> QED
      BY <3>4, <3>5
  <2> QED
    BY <2>2, <2>3
<1>16. Late'
  BY <1>2, <1>15 DEF Late, LateIdle, LateWarmup, LateDlc, LateUp, LateProbe, Ending, Idle
<1>17. Granted' /\ Probed'
  <2>1. ~Has(Ua(0), Queue') /\ \A d \in Data : ~Before(Ua(0), Ua(d), Queue')
    BY <1>12, Nothing
  <2> QED
    BY <1>2, <2>1 DEF Granted, Probed
<1> QED
  BY <1>13, <1>14, <1>16, <1>17 DEF InOrder

LEMMA RetryOrder ==
    ASSUME Types, Types', InOrder, RetryBare
    PROVE  InOrder'
<1> DEFINE c == [k |-> "bare", d |-> 0, baud |-> host.baud]
<1>1. /\ host.pc = "resp" /\ host' = [host EXCEPT !.cmd = "bare", !.pending = FALSE]
      /\ HasError(rx) /\ host.cmd \in {"speed", "n1"}
      /\ rx' = <<>> /\ faults' = faults /\ hist' = hist /\ modem' = modem
      /\ tx' = Append(tx, c)
  BY DEF RetryBare, Rejected, Send, NoFault
<1>2. /\ host'.pc = "resp" /\ host'.frames = host.frames /\ host'.dlc = host.dlc
      /\ host'.cmd = "bare" /\ ~host'.pending
      /\ host'.recovering = host.recovering /\ host'.established = host.established
  BY <1>1 DEF Types, Hosts
<1>3. faults \in Nat
  BY MuxAssumption DEF Types
<1>4. "bare" \in Command /\ 0 \in Dlci /\ host.baud \in {Entry, Target}
  BY Channel0, Written DEF Command, Form
<1>5. Has(Errors, rx) /\ rx # <<>>
  BY <1>1, Texting, Nothing
<1>6. /\ \A K : Has(K, tx') <=> Has(K, tx) \/ c \in K
      /\ \A K, L : Before(K, L, tx') <=> Before(K, L, tx) \/ (Has(K, tx) /\ c \in L)
      /\ tx'[Len(tx')].k = "bare"
  BY <1>1, <1>4, Sent
<1>7. /\ \A K : Has(K, tx) => tx # <<>>
      /\ \A K, L : Before(K, L, tx) => Has(K, tx) /\ Has(L, tx)
  BY Written, Holds
<1>8. /\ c \in Forms /\ c \in Texts /\ c \in Letters
      /\ c \notin Control /\ c \notin Ends /\ c \notin Others /\ c \notin DiscZero
  BY <1>4, Kinds
<1>9. Shape /\ Noise /\ LateResp /\ LateForm
  BY DEF InOrder, Late
<1>10. host'.frames = <<>> /\ Queue' = <<>>
  BY <1>1, <1>2, <1>9 DEF Queue, Shape
(* The command that was rejected is the last one still under way, if any.   *)
<1>11. tx # <<>> => Has(Forms, tx)
  <2> SUFFICES ASSUME tx # <<>> PROVE Has(Forms, tx)
    OBVIOUS
  <2>1. tx \in Seq(Letters) /\ tx[Len(tx)].k \in Form
    BY <1>1, <1>9, Written DEF Shape, Form
  <2>2. Len(tx) \in DOMAIN tx /\ tx[Len(tx)] \in Letters
    BY <2>1
  <2> QED
    BY <2>1, <2>2 DEF Has, Forms
<1> HIDE DEF c
<1>12. Shape'
  <2>1. host'.dlc = None /\ ~None[0]
    BY <1>1, <1>2, <1>9, Channel0 DEF Shape, None
  <2>2. ~Has(DiscZero, tx') /\ ~Has(DmZero, Queue')
    BY <1>6, <1>8, <1>9, <1>10, Nothing DEF Shape
  <2> QED
    BY <1>1, <1>2, <1>6, <1>9, <1>10, <2>1, <2>2 DEF Shape
<1>13. Noise'
  BY <1>1, <1>2, <1>3, <1>9, <1>10, Nothing DEF Noise
<1>14. /\ ~Has(Ua(0), rx') /\ ~Has(Errors, rx') /\ ~Has(Elsewhere, rx') /\ ~Has(Talked, rx')
       /\ rx' = <<>>
  BY <1>1, Nothing
<1>15. /\ Before(Control, Ends, tx') => Before(Control, Ends, tx)
       /\ Before(Control, Texts, tx') => Has(Control, tx)
       /\ Has(Control, tx') => Has(Control, tx)
       /\ Has(Others, tx') => Has(Others, tx)
       /\ Before(Letters, Letters, tx') => tx # <<>>
       /\ Before(Control, Forms, tx') => Has(Control, tx)
       /\ Before(Letters, Forms, tx') => tx # <<>>
       /\ Before(Forms, Forms, tx') => Has(Forms, tx)
  BY <1>6, <1>7, <1>8
<1>16. /\ Has(Control, tx) => faults >= 3
       /\ tx # <<>> => faults >= 2
       /\ Before(Control, Ends, tx) => faults >= 3
       /\ Has(Others, tx) => faults >= 1
       /\ InMux => faults >= Tried
       /\ host.recovering /\ Has(Forms, tx) => faults >= 3
  BY <1>1, <1>5, <1>9, <1>11 DEF LateResp, LateForm, Form
<1>17. LateResp'
  BY <1>2, <1>3, <1>1, <1>7, <1>14, <1>15, <1>16 DEF LateResp
<1>18. LateForm'
  BY <1>1, <1>2, <1>3, <1>7, <1>14, <1>15, <1>16 DEF LateForm, InMux, Tried
<1>19. Late'
  BY <1>2, <1>17, <1>18 DEF Late, LateIdle, LateWarmup, LateDlc, LateUp, LateProbe, Ending, Idle
<1>20. Granted' /\ Probed'
  <2>1. ~Has(Ua(0), Queue') /\ \A d \in Data : ~Before(Ua(0), Ua(d), Queue')
    BY <1>10, Nothing
  <2> QED
    BY <1>2, <2>1 DEF Granted, Probed
<1> QED
  BY <1>12, <1>13, <1>19, <1>20 DEF InOrder

(* An attempt that fails leaves the link lost, or a session without one.    *)
LEMMA FailedOrder ==
    ASSUME Types, Types', InOrder, NEW h \in Hosts, host' = Failed(h),
           h.recovering = host.recovering, h.established = host.established,
           h.dlc = host.dlc, host.dlc = None, host.pc = "resp" \/ (host.pc = "dlc" /\ host.ch = 0),
           rx' = <<>>, tx' = tx, hist' = hist,
           faults' >= faults,
           Within(h.frames, Queue),
           tx # <<>> => faults' >= 1,
           Before(Texts, Control, tx) => faults' >= 2,
           host.recovering /\ Has(Forms, tx) => faults' >= 3
    PROVE  InOrder'
<1>1. /\ host'.pc = IF host.recovering THEN "up" ELSE "close"
      /\ ~host'.recovering /\ host'.frames = h.frames /\ host'.dlc = None
      /\ host'.established = host.established
  BY DEF Failed, Hosts
<1>2. faults \in Nat /\ faults' \in Nat
  BY MuxAssumption DEF Types
<1>3. Within(Queue', Queue)
  <2>1. host'.frames \in Seq(FrameMsg)
    BY DEF Types, Hosts
  <2>2. Queue' = h.frames
    BY <1>1, <2>1 DEF Queue
  <2> QED
    BY <2>2
<1>4. /\ \A K : Has(K, tx) => tx # <<>>
      /\ \A K, L : Before(K, L, tx) => Has(K, tx) /\ Has(L, tx)
  BY Written, Holds
<1>5. Shape /\ Noise /\ Late
  BY DEF InOrder
<1>6. Before(Control, Ends, tx) \/ Before(Control, Forms, tx) => faults >= 3
  BY <1>5 DEF Late, LateResp, LateForm, LateDlc
<1>7. Shape'
  <2>1. ~None[0]
    BY Channel0 DEF None
  <2>2. ~Has(DiscZero, tx') /\ ~Has(DmZero, Queue')
    BY <1>3, <1>5 DEF Shape, Within
  <2> QED
    BY <1>1, <1>5, <2>1, <2>2 DEF Shape
<1>8. Noise'
  BY <1>1, <1>2, <1>3, <1>5, Nothing DEF Noise, Within
<1>9. LateIdle'
  BY <1>1, <1>2, <1>4, <1>6 DEF LateIdle, Idle
<1>10. LateUp'
  BY <1>1, <1>2, <1>4, <1>5, <1>6 DEF LateUp, Ending, Shape
<1>11. Late'
  BY <1>1, <1>9, <1>10 DEF Late, LateWarmup, LateResp, LateForm, LateDlc, LateProbe
<1>12. Granted' /\ Probed'
  BY <1>1, Channel0 DEF Granted, Probed, None
<1> QED
  BY <1>7, <1>8, <1>11, <1>12 DEF InOrder

LEMMA FramesAnswer == Seq(FrameMsg) \subseteq Seq(Answers)
<1>1. FrameMsg \subseteq Answers
  BY DEF FrameMsg, Answers
<1>2. ASSUME NEW s \in Seq(FrameMsg) PROVE s \in Seq(Answers)
  BY <1>1
<1> QED
  BY <1>2

LEMMA ResponseOrder ==
    ASSUME Types, Types', InOrder, Response
    PROVE  InOrder'
<1> DEFINE q == host.frames \o Frames(rx)
           h == [host EXCEPT !.frames = q]
           b == IF host.pending /\ HasOk(rx) THEN setup.speed ELSE host.baud
           g == [h EXCEPT !.pc = "dlc", !.ch = 0, !.n = 1, !.baud = b]
           c == [k |-> "SABM", d |-> 0, baud |-> b]
<1>1. /\ host.pc = "resp" /\ rx' = <<>> /\ hist' = hist /\ modem' = modem
      /\ rx # <<>> => NoFault
      /\ rx = <<>> => Deadline
      /\ HasError(rx) => host' = Failed(h) /\ tx' = tx
      /\ ~HasError(rx) => host' = g /\ Send(g, "SABM", 0)
  BY DEF Response
<1>2. /\ faults \in Nat /\ faults' \in Nat /\ faults' >= faults
      /\ rx = <<>> /\ tx # <<>> => faults' = faults + 1
  BY <1>1, Delays
<1>3. q \in Seq(FrameMsg) /\ q \in Seq(Answers) /\ Queue \in Seq(Answers) /\ Within(q, Queue)
  <2>1. /\ host.frames \in Seq(FrameMsg) /\ Frames(rx) \in Seq(FrameMsg) /\ rx \in Seq(Answers)
        /\ Seq(FrameMsg) \subseteq Seq(Answers)
    BY FramesType, FramesAnswer DEF Types, Hosts
  <2>2. Within(Frames(rx), rx)
    BY <2>1, FramesWithin
  <2> QED
    BY <2>1, <2>2, JoinWithin, Joined DEF Queue
<1> HIDE DEF q
<1>4. /\ h \in Hosts /\ h.recovering = host.recovering /\ h.established = host.established
      /\ h.dlc = host.dlc /\ h.frames = q
  BY <1>3 DEF Types, Hosts
<1>5. Shape /\ Noise /\ LateResp /\ LateForm /\ Granted
  BY DEF InOrder, Late
<1>6. host.dlc = None /\ Queue = rx
  <2>1. host.frames = <<>> /\ host.dlc = None
    BY <1>1, <1>5 DEF Shape
  <2> QED
    BY <2>1 DEF Queue, Types
<1>7. /\ \A K : Has(K, tx) => tx # <<>>
      /\ \A K, L : Before(K, L, tx) => Has(K, tx) /\ Has(L, tx)
  BY Written, Holds
<1>8. CASE HasError(rx)
  <2>1. Has(Errors, rx) /\ rx # <<>>
    BY <1>8, Texting, Nothing
  <2>2. faults' = faults
    BY <1>1, <2>1 DEF NoFault
  <2>3. /\ tx # <<>> => faults' >= 1
        /\ Before(Texts, Control, tx) => faults' >= 2
        /\ host.recovering /\ Has(Forms, tx) => faults' >= 3
    BY <1>1, <1>5, <2>1, <2>2 DEF LateResp, LateForm
  <2> HIDE DEF h
  <2> QED
    BY <1>1, <1>2, <1>3, <1>4, <1>6, <1>8, <2>3, FailedOrder
<1>9. CASE ~HasError(rx)
  <2>1. host' = g /\ tx' = Append(tx, c)
    BY <1>1, <1>4, <1>9 DEF Send, Hosts
  <2>2. b \in {Entry, Target} /\ "SABM" \in Command /\ 0 \in Dlci
    BY SetupType, Written, Channel0 DEF Types, Setup, Command
  <2> HIDE DEF b, h
  <2>3. /\ host'.pc = "dlc" /\ host'.ch = 0 /\ host'.n = 1 /\ host'.baud = b
        /\ host'.frames = q /\ host'.dlc = None
        /\ host'.recovering = host.recovering /\ host'.established = host.established
    BY <1>4, <1>6, <2>1 DEF Hosts
  <2>4. /\ \A K : Has(K, tx') <=> Has(K, tx) \/ c \in K
        /\ \A K, L : Before(K, L, tx') <=> Before(K, L, tx) \/ (Has(K, tx) /\ c \in L)
    BY <2>1, <2>2, Sent
  <2>5. /\ c \in Control
        /\ c \notin Texts /\ c \notin Forms /\ c \notin Ends /\ c \notin Others /\ c \notin DiscZero
    BY <2>2, Kinds
  <2> HIDE DEF c, g
  <2>6. /\ Queue' = q
        /\ \A K : Has(K, Queue') => Has(K, rx)
        /\ \A K, L : Before(K, L, Queue') => Before(K, L, rx)
    <3>1. Queue' = q
      BY <1>1, <1>3, <2>3 DEF Queue
    <3> QED
      BY <1>3, <1>6, <3>1 DEF Within
  <2>7. Shape'
    <3>1. ~None[0]
      BY Channel0 DEF None
    <3>2. ~Has(DiscZero, tx') /\ ~Has(DmZero, Queue')
      BY <1>5, <1>6, <2>4, <2>5, <2>6 DEF Shape
    <3> QED
      BY <1>1, <1>5, <2>3, <3>1, <3>2 DEF Shape
  <2>8. Noise'
    BY <1>1, <1>2, <1>5, <1>6, <2>3, <2>6, Nothing DEF Noise
  <2>9. LateDlc'
    <3>1. /\ Before(Control, Ends, tx') => Before(Control, Ends, tx)
          /\ Has(Texts, tx') => Has(Texts, tx)
          /\ Has(Forms, tx') => Has(Forms, tx)
          /\ Has(Others, tx') => Has(Others, tx)
          /\ Before(Control, Texts, tx') => Before(Control, Texts, tx)
          /\ Before(Control, Forms, tx') => Before(Control, Forms, tx)
          /\ Before(Others, Control, tx') => Has(Others, tx)
      BY <1>7, <2>4, <2>5
    <3>2. tx # <<>> => faults' >= 1
      BY <1>1, <1>2, <1>5 DEF LateResp
    <3>3. host.recovering /\ Has(Forms, tx) => faults' >= 2
      BY <1>1, <1>2, <1>5, <1>7 DEF LateForm, Noise
    <3>4. /\ Before(Control, Ends, tx) => faults' >= 3
          /\ Before(Control, Texts, tx) => faults' >= 2
          /\ Has(Ua(0), rx) /\ Has(Texts, tx) => faults' >= 2
          /\ Has(Others, tx) \/ Has(Elsewhere, rx) => faults' >= 1
      BY <1>1, <1>2, <1>5 DEF LateResp
    <3>5. /\ Before(Control, Forms, tx) => faults' >= 3
          /\ Has(Ua(0), rx) /\ Has(Forms, tx) => faults' >= 3
          /\ host.recovering /\ Has(Talked, rx) /\ Has(Forms, tx) => faults' >= 3
      BY <1>1, <1>2, <1>5 DEF LateForm
    <3> QED
      BY <1>7, <2>3, <2>6, <3>1, <3>2, <3>3, <3>4, <3>5 DEF LateDlc
  <2>10. Late'
    BY <2>3, <2>9 DEF Late, LateIdle, LateWarmup, LateResp, LateForm, LateUp, LateProbe, Ending, Idle
  <2>11. Granted'
    <3> SUFFICES ASSUME faults' <= 2, ~hist.cut PROVE Granted'
      BY <1>1 DEF Granted
    <3>1. faults <= 2
      BY <1>2
    <3>2. Has(Ua(0), rx) => Live /\ b = host.baud
      <4>1. Has(Ua(0), rx) => ~host.pending
        BY <1>1, <1>2, <1>5, <3>1 DEF LateResp
      <4> QED
        BY <1>1, <1>5, <1>6, <3>1, <4>1 DEF Granted, b
    <3>3. Has(Ua(0), Queue') => Live'
      BY <1>1, <2>3, <2>4, <2>5, <2>6, <3>2 DEF Live, InMux
    <3>4. \A d \in Data : Before(Ua(0), Ua(d), Queue') => d \in modem'.open
      BY <1>1, <1>5, <1>6, <2>6, <3>1 DEF Granted
    <3> QED
      BY <2>3, <3>3, <3>4, Channel0 DEF Granted, None
  <2>12. Probed'
    BY <2>3 DEF Probed
  <2> QED
    BY <2>7, <2>8, <2>10, <2>11, <2>12 DEF InOrder
<1> QED
  BY <1>8, <1>9

(* The next channel is asked for, or this one again, or init_cmux() ends.   *)
LEMMA DlcOrder ==
    ASSUME Channels # 0, Types, Types', InOrder, host.pc = "dlc",
           NEW f \in Seq(FrameMsg), NEW yes \in BOOLEAN,
           DlcDone([host EXCEPT !.frames = f], yes),
           rx' = <<>>, hist' = hist, modem' = modem,
           faults' >= faults,
           Within(f, Queue),
           host.ch = 0 /\ yes =>
              /\ Has(Ua(0), Queue)
              /\ \A d \in Data : Has(Ua(d), f) => Before(Ua(0), Ua(d), Queue),
           host.ch # 0 /\ yes => Has(Ua(host.ch), Queue),
           host.ch = 0 /\ ~yes =>
              /\ tx # <<>> => faults' >= 1
              /\ Has(Texts, tx) /\ (host.n = 2 \/ Has(Talked, f)) => faults' >= 2
              /\ host.recovering /\ Has(Forms, tx) => faults' >= 3,
           host.ch # 0 /\ Has(Control, tx) => faults' >= 1
    PROVE  InOrder'
<1> DEFINE h == [host EXCEPT !.frames = f]
           g == [h EXCEPT !.dlc[h.ch] = @ \/ yes, !.established = TRUE]
<1>1. faults \in Nat /\ faults' \in Nat
  BY MuxAssumption DEF Types
<1>2. /\ h \in Hosts /\ h.frames = f /\ h.ch = host.ch /\ h.n = host.n /\ h.baud = host.baud
      /\ h.dlc = host.dlc /\ h.established = host.established /\ h.pc = "dlc"
      /\ h.recovering = host.recovering /\ host.ch \in Dlci /\ host.dlc \in [Dlci -> BOOLEAN]
  BY DEF Types, Hosts
<1>3. Shape /\ Noise /\ LateDlc /\ Granted
  BY DEF InOrder, Late
<1>4. /\ \A K : Has(K, tx) => tx # <<>>
      /\ \A K, L : Before(K, L, tx) => Has(K, tx) /\ Has(L, tx)
  BY Written, Holds
<1>5. host.baud \in {Entry, Target} /\ "SABM" \in Command /\ 0 \in Dlci
  BY Written, Channel0 DEF Command
<1>6. ~None[0]
  BY Channel0 DEF None
<1>7. ASSUME host'.frames = f
      PROVE  /\ \A K : Has(K, Queue') => Has(K, Queue)
             /\ \A K, L : Before(K, L, Queue') => Before(K, L, Queue)
             /\ \A K : Has(K, Queue') => Has(K, f)
  BY <1>7 DEF Queue, Within
<1>8. CASE host.ch = 0 /\ ~yes /\ host.n = 1
  <2> DEFINE c == [k |-> "SABM", d |-> 0, baud |-> host.baud]
  <2>1. host' = [h EXCEPT !.n = 2] /\ tx' = Append(tx, c)
    BY <1>2, <1>8 DEF DlcDone, Send
  <2>2. /\ \A K : Has(K, tx') <=> Has(K, tx) \/ c \in K
        /\ \A K, L : Before(K, L, tx') <=> Before(K, L, tx) \/ (Has(K, tx) /\ c \in L)
    BY <1>5, <2>1, Sent
  <2>3. /\ c \in Control
        /\ c \notin Texts /\ c \notin Forms /\ c \notin Ends /\ c \notin Others /\ c \notin DiscZero
    BY <1>5, Kinds
  <2> HIDE DEF c, h
  <2>4. /\ host'.pc = "dlc" /\ host'.ch = 0 /\ host'.n = 2 /\ host'.baud = host.baud
        /\ host'.frames = f /\ host'.dlc = host.dlc
        /\ host'.recovering = host.recovering /\ host'.established = host.established
    BY <1>2, <1>8, <2>1 DEF Hosts
  <2>5. Shape'
    <3>1. ~Has(DiscZero, tx') /\ ~Has(DmZero, Queue')
      BY <1>3, <1>7, <2>2, <2>3, <2>4 DEF Shape
    <3> QED
      BY <1>3, <1>8, <2>4, <3>1 DEF Shape
  <2>6. Noise'
    BY <1>1, <1>3, <1>7, <2>4, Nothing DEF Noise
  <2>7. LateDlc'
    <3>1. /\ Before(Control, Ends, tx') => Before(Control, Ends, tx)
          /\ Has(Texts, tx') => Has(Texts, tx)
          /\ Has(Forms, tx') => Has(Forms, tx)
          /\ Has(Others, tx') => Has(Others, tx)
          /\ Before(Control, Texts, tx') => Before(Control, Texts, tx)
          /\ Before(Control, Forms, tx') => Before(Control, Forms, tx)
          /\ Before(Others, Control, tx') => Has(Others, tx)
      BY <1>4, <2>2, <2>3
    <3>2. Has(Texts, tx') /\ Has(Talked, Queue') => faults' >= 2
      BY <1>7, <1>8, <2>4, <3>1
    <3> QED
      BY <1>1, <1>3, <1>7, <1>8, <2>4, <3>1, <3>2 DEF LateDlc
  <2>8. Late'
    BY <2>4, <2>7 DEF Late, LateIdle, LateWarmup, LateResp, LateForm, LateUp, LateProbe, Ending, Idle
  <2>9. Granted'
    <3> SUFFICES ASSUME faults' <= 2, ~hist.cut PROVE Granted'
      BY DEF Granted
    <3>1. faults <= 2 /\ host.dlc = None
      BY <1>1, <1>3, <1>8 DEF Shape
    <3>2. Live => Live'
      BY <2>2, <2>3, <2>4 DEF Live, InMux
    <3>3. \A d \in Dlci : ~host'.dlc[d]
      BY <2>4, <3>1 DEF None
    <3> QED
      BY <1>3, <1>7, <2>4, <3>1, <3>2, <3>3, <1>5 DEF Granted
  <2>10. Probed'
    BY <2>4 DEF Probed
  <2> QED
    BY <2>5, <2>6, <2>8, <2>9, <2>10 DEF InOrder
<1>9. CASE host.ch = 0 /\ ~yes /\ host.n # 1
  <2>1. host' = Failed(h) /\ tx' = tx
    BY <1>2, <1>9 DEF DlcDone
  <2>2. host.dlc = None /\ host.n = 2
    BY <1>3, <1>9 DEF Shape
  <2>3. Before(Texts, Control, tx) => faults' >= 2
    BY <1>4, <1>9, <2>2
  <2> HIDE DEF h
  <2> QED
    BY <1>2, <1>9, <2>1, <2>2, <2>3, FailedOrder
<1>10. CASE host.ch # 0 \/ yes
  <2>1. /\ g \in Hosts /\ g.frames = f /\ g.ch = host.ch /\ g.baud = host.baud /\ g.established
        /\ g.recovering = host.recovering
        /\ \A d \in Dlci : g.dlc[d] = (host.dlc[d] \/ (d = host.ch /\ yes))
    <3>1. g = [h EXCEPT !.dlc = [host.dlc EXCEPT ![host.ch] = @ \/ yes], !.established = TRUE]
      BY <1>2
    <3>2. [host.dlc EXCEPT ![host.ch] = @ \/ yes] \in [Dlci -> BOOLEAN]
      BY <1>2
    <3>3. \A d \in Dlci : [host.dlc EXCEPT ![host.ch] = @ \/ yes][d] = (host.dlc[d] \/ (d = host.ch /\ yes))
      BY <1>2
    <3> HIDE DEF h, g
    <3> QED
      BY <1>2, <3>1, <3>2, <3>3 DEF Hosts
  <2>2. g.dlc[0]
    BY <1>3, <1>5, <1>10, <2>1 DEF Shape
  <2>3. Has(Texts, tx) => faults' >= 2
    BY <1>1, <1>3, <1>10 DEF LateDlc
  <2>4. Has(Forms, tx) => faults' >= 3
    BY <1>1, <1>3, <1>10 DEF LateDlc
  <2>5. faults' <= 2 /\ ~hist.cut =>
            /\ Live
            /\ \A d \in Dlci : g.dlc[d] => d \in modem.open
            /\ \A d \in Data : Has(Ua(d), f) => d \in modem.open
    <3> SUFFICES ASSUME faults' <= 2, ~hist.cut
                 PROVE  /\ Live
                        /\ \A d \in Dlci : g.dlc[d] => d \in modem.open
                        /\ \A d \in Data : Has(Ua(d), f) => d \in modem.open
      OBVIOUS
    <3>1. faults <= 2
      BY <1>1
    <3>2. CASE host.ch = 0
      <4>1. yes /\ Has(Ua(0), Queue)
        BY <1>10, <3>2
      <4>2. Live /\ \A d \in Data : Has(Ua(d), f) => d \in modem.open
        BY <1>3, <3>1, <3>2, <4>1 DEF Granted
      <4>3. \A d \in Dlci : ~host.dlc[d]
        BY <1>3, <3>2 DEF Shape, None
      <4> HIDE DEF g
      <4> QED
        BY <2>1, <3>2, <4>2, <4>3 DEF Live
    <3>3. CASE host.ch # 0
      <4>1. host.dlc[0] /\ host.ch \in Data
        BY <1>2, <1>3, <3>3 DEF Shape, Dlci, Data
      <4>2. Live /\ \A d \in Data : Has(Ua(d), Queue) => d \in modem.open
        BY <1>3, <1>5, <3>1, <4>1 DEF Granted
      <4>3. \A d \in Dlci : host.dlc[d] => d \in modem.open
        BY <1>3, <3>1 DEF Granted
      <4> HIDE DEF g
      <4> QED
        BY <2>1, <3>3, <4>1, <4>2, <4>3 DEF Within
    <3> QED
      BY <3>2, <3>3
  <2>6. CASE host.ch < Channels
    <3> DEFINE n == host.ch + 1
               c == [k |-> "SABM", d |-> n, baud |-> host.baud]
    <3>1. host' = [g EXCEPT !.ch = @ + 1, !.n = 1] /\ Send(g, "SABM", h.ch + 1)
      <4>1. ~(h.ch = 0 /\ ~yes) /\ h.ch < Channels
        BY <1>2, <1>10, <2>6
      <4> QED
        BY <4>1 DEF DlcDone
    <3>2. n \in Dlci /\ n \in Nat /\ n # 0 /\ (n > 1 => host.ch # 0)
      BY <1>2, <2>6, Channel0 DEF Dlci
    <3> HIDE DEF g, h
    <3>3. tx' = Append(tx, c)
      BY <1>2, <2>1, <3>1 DEF Send
    <3>4. host'.ch = n /\ host'.pc = "dlc" /\ host'.n = 1 /\ host'.frames = f /\ host'.dlc = g.dlc
          /\ host'.baud = host.baud /\ host'.established /\ host'.recovering = host.recovering
      <4>1. g.pc = "dlc"
        BY <1>2 DEF g, Hosts
      <4> QED
        BY <2>1, <3>1, <4>1 DEF Hosts
    <3> HIDE DEF n
    <3>5. /\ \A K : Has(K, tx') <=> Has(K, tx) \/ c \in K
          /\ \A K, L : Before(K, L, tx') <=> Before(K, L, tx) \/ (Has(K, tx) /\ c \in L)
      BY <1>5, <3>2, <3>3, Sent
    <3>6. /\ c \notin Control
          /\ c \notin Texts /\ c \notin Forms /\ c \notin Ends /\ c \notin DiscZero
      BY <1>5, <3>2, Kinds
    <3> HIDE DEF c
    <3>7. Shape'
      <4>1. ~Has(DiscZero, tx') /\ ~Has(DmZero, Queue')
        BY <1>3, <1>7, <3>4, <3>5, <3>6 DEF Shape
      <4> QED
        BY <2>2, <3>2, <3>4, <4>1 DEF Shape
    <3>8. Noise'
      BY <1>1, <1>3, <1>7, <3>4, Nothing DEF Noise
    <3>9. LateDlc'
      <4>1. /\ Before(Control, Ends, tx') => Before(Control, Ends, tx)
            /\ Has(Texts, tx') => Has(Texts, tx)
            /\ Has(Forms, tx') => Has(Forms, tx)
            /\ Has(Control, tx') => Has(Control, tx)
            /\ Before(Control, Texts, tx') => Before(Control, Texts, tx)
            /\ Before(Control, Forms, tx') => Before(Control, Forms, tx)
            /\ Before(Others, Control, tx') => Before(Others, Control, tx)
        BY <3>5, <3>6
      <4>2. /\ Has(Texts, tx') => faults' >= 2
            /\ Has(Forms, tx') => faults' >= 3
            /\ Before(Control, Ends, tx') => faults' >= 3
            /\ Before(Control, Texts, tx') => faults' >= 2
            /\ Before(Control, Forms, tx') => faults' >= 3
            /\ Before(Others, Control, tx') => faults' >= 1
            /\ host.ch # 0 /\ Has(Control, tx') => faults' >= 1
        BY <1>1, <1>3, <2>3, <2>4, <4>1 DEF LateDlc
      <4>3. Has(Elsewhere, Queue') /\ Has(Control, tx') => faults' >= 1
        BY <1>1, <1>3, <1>7, <3>4, <4>1 DEF LateDlc
      <4> QED
        BY <1>1, <3>2, <3>4, <4>2, <4>3 DEF LateDlc
    <3>10. Late'
      BY <3>4, <3>9 DEF Late, LateIdle, LateWarmup, LateResp, LateForm, LateUp, LateProbe, Ending, Idle
    <3>11. Granted'
      <4> SUFFICES ASSUME faults' <= 2, ~hist.cut PROVE Granted'
        BY DEF Granted
      <4>1. Live'
        BY <2>5, <3>4, <3>5, <3>6 DEF Live, InMux
      <4>2. /\ \A d \in Dlci : host'.dlc[d] => d \in modem'.open
            /\ \A d \in Data : Has(Ua(d), Queue') => d \in modem'.open
        BY <1>7, <2>5, <3>4
      <4>3. \A d \in Data : Before(Ua(0), Ua(d), Queue') => d \in modem'.open
        <5>1. faults <= 2
          BY <1>1
        <5> QED
          BY <1>3, <1>7, <3>4, <5>1 DEF Granted
      <4> QED
        BY <3>4, <4>1, <4>2, <4>3 DEF Granted
    <3>12. Probed'
      BY <3>4 DEF Probed
    <3> QED
      BY <3>7, <3>8, <3>10, <3>11, <3>12 DEF InOrder
  <2>7. CASE ~(host.ch < Channels)
    <3>1. host' = [g EXCEPT !.pc = "up", !.recovering = FALSE] /\ tx' = tx
      <4>1. ~(h.ch = 0 /\ ~yes) /\ ~(h.ch < Channels)
        BY <1>2, <1>10, <2>7
      <4> QED
        BY <4>1 DEF DlcDone
    <3>2. host.ch # 0
      BY <2>7, MuxAssumption
    <3> HIDE DEF g, h
    <3>3. host'.pc = "up" /\ host'.frames = f /\ host'.dlc = g.dlc
          /\ host'.baud = host.baud /\ host'.established /\ ~host'.recovering
      BY <2>1, <3>1 DEF Hosts
    <3>4. Shape'
      <4>1. ~Has(DiscZero, tx') /\ ~Has(DmZero, Queue')
        BY <1>3, <1>7, <3>1, <3>3 DEF Shape
      <4> QED
        BY <3>3, <4>1 DEF Shape
    <3>5. Noise'
      BY <1>1, <1>3, <1>7, <2>2, <3>3, Nothing DEF Noise
    <3>6. LateUp'
      BY <1>1, <1>3, <1>4, <2>3, <2>4, <3>1, <3>2 DEF LateUp, LateDlc
    <3>7. Late'
      BY <3>3, <3>6 DEF Late, LateIdle, LateWarmup, LateResp, LateForm, LateDlc, LateProbe, Idle
    <3>8. Granted'
      BY <2>5, <3>1, <3>3 DEF Granted, Live, InMux
    <3>9. Probed'
      BY <3>3 DEF Probed
    <3> QED
      BY <3>4, <3>5, <3>7, <3>8, <3>9 DEF InOrder
  <2> QED
    BY <2>6, <2>7
<1> QED
  BY <1>8, <1>9, <1>10

LEMMA EstablishOrder ==
    ASSUME Channels # 0, Types, Types', InOrder, Establish
    PROVE  InOrder'
<1> DEFINE q == host.frames \o Frames(rx)
           own == FramesOf(q, host.ch, FrameKind)
           m == Min(own)
           f == From(q, m)
<1>1. /\ host.pc = "dlc" /\ rx' = <<>> /\ hist' = hist /\ modem' = modem
      /\ \/ own # {} /\ NoFault /\ DlcDone([host EXCEPT !.frames = f], q[m].k = "UA")
         \/ own = {} /\ Deadline /\ DlcDone([host EXCEPT !.frames = <<>>], FALSE)
  BY DEF Establish
<1>2. /\ faults \in Nat
      /\ Deadline \/ NoFault => faults' \in Nat /\ faults' >= faults
      /\ Deadline /\ tx # <<>> => faults' = faults + 1
  BY Delays DEF Types
<1>3. q \in Seq(FrameMsg) /\ Within(q, Queue)
  <2>1. /\ host.frames \in Seq(FrameMsg) /\ Frames(rx) \in Seq(FrameMsg) /\ rx \in Seq(Answers)
        /\ Seq(FrameMsg) \subseteq Seq(Answers)
    BY FramesType, FramesAnswer DEF Types, Hosts
  <2>2. Within(Frames(rx), rx)
    BY <2>1, FramesWithin
  <2> QED
    BY <2>1, <2>2, JoinWithin, Joined DEF Queue
<1> HIDE DEF q
<1>4. Shape /\ Noise /\ LateDlc
  BY DEF InOrder, Late
<1>5. \A K : Has(K, tx) => tx # <<>>
  BY Written, Holds
<1>6. host.ch \in Dlci
  BY DEF Types, Hosts
<1>7. CASE own # {} /\ NoFault /\ DlcDone([host EXCEPT !.frames = f], q[m].k = "UA")
  <2>1. /\ m \in DOMAIN q /\ f \in Seq(FrameMsg)
        /\ m \in own
    <3>1. own \in SUBSET Nat
      BY <1>3 DEF FramesOf
    <3>2. own # {} /\ m \in DOMAIN q /\ f \in Seq(FrameMsg)
      BY <1>3, <1>7, FromType
    <3> HIDE DEF own
    <3> QED
      BY <3>1, <3>2, MinOf
  <2>2. q[m] \in Answers /\ q[m].d = host.ch /\ q[m].k \in FrameKind
    <3>1. q[m] \in FrameMsg
      BY <1>3, <2>1
    <3> QED
      BY <2>1, <3>1 DEF FramesOf, FrameMsg, Answers
  <2> HIDE DEF own, m, f
  <2>3. /\ Within(f, q)
        /\ \A K, L : q[m] \in K /\ Has(L, f) => Before(K, L, q)
        /\ \A K : q[m] \in K => Has(K, q)
    BY <1>3, <2>1, RestWithin DEF f, Has
  <2>4. /\ Within(f, Queue)
        /\ \A K, L : q[m] \in K /\ Has(L, f) => Before(K, L, Queue)
        /\ \A K : q[m] \in K => Has(K, Queue)
    BY <1>3, <2>3 DEF Within
  <2>5. faults' = faults
    BY <1>7 DEF NoFault
  <2>6. q[m].k = "UA" => q[m] \in Ua(host.ch)
    BY <2>2 DEF Ua
  <2>7. host.ch = 0 /\ q[m].k # "UA" => q[m] \in Talked
    <3>1. host.ch = 0 => q[m].k # "DM"
      <4>1. ~Has(DmZero, Queue)
        BY <1>4 DEF Shape
      <4>2. q[m] \notin DmZero
        BY <2>4, <4>1
      <4> QED
        BY <2>2, <4>2 DEF DmZero
    <3> QED
      BY <2>2, <3>1 DEF Talked, FrameKind
  <2>8. host.ch # 0 => q[m] \in Elsewhere
    BY <2>2 DEF Elsewhere
  <2> DEFINE yes == q[m].k = "UA"
  <2>9. yes \in BOOLEAN /\ DlcDone([host EXCEPT !.frames = f], yes)
    BY <1>7
  <2>10. host.ch = 0 /\ ~yes =>
            /\ tx # <<>> => faults' >= 1
            /\ Has(Texts, tx) /\ (host.n = 2 \/ Has(Talked, f)) => faults' >= 2
            /\ host.recovering /\ Has(Forms, tx) => faults' >= 3
    <3> SUFFICES ASSUME host.ch = 0, ~yes
                 PROVE  /\ tx # <<>> => faults' >= 1
                        /\ Has(Texts, tx) /\ (host.n = 2 \/ Has(Talked, f)) => faults' >= 2
                        /\ host.recovering /\ Has(Forms, tx) => faults' >= 3
      OBVIOUS
    <3>1. Has(Talked, Queue) /\ (Has(Talked, f) => Before(Talked, Talked, Queue))
      BY <2>4, <2>7
    <3> QED
      BY <1>1, <1>4, <2>5, <3>1 DEF Noise, LateDlc
  <2>11. host.ch = 0 /\ yes =>
            /\ Has(Ua(0), Queue)
            /\ \A d \in Data : Has(Ua(d), f) => Before(Ua(0), Ua(d), Queue)
    BY <2>4, <2>6
  <2>12. host.ch # 0 /\ yes => Has(Ua(host.ch), Queue)
    BY <2>4, <2>6
  <2>13. host.ch # 0 /\ Has(Control, tx) => faults' >= 1
    BY <1>1, <1>4, <2>4, <2>5, <2>8 DEF LateDlc
  <2>14. f \in Seq(FrameMsg) /\ faults' >= faults
    BY <1>2, <2>1, <2>5
  <2> HIDE DEF yes
  <2> QED
    BY ONLY Channels # 0, Types, Types', InOrder,
            <1>1, <2>4, <2>9, <2>10, <2>11, <2>12, <2>13, <2>14, DlcOrder
<1>8. CASE own = {} /\ Deadline /\ DlcDone([host EXCEPT !.frames = <<>>], FALSE)
  <2> DEFINE e == <<>>
             no == FALSE
  <2>1. e \in Seq(FrameMsg) /\ Within(e, Queue) /\ ~Has(Talked, e)
    BY Nothing DEF Within
  <2>2. faults' >= faults /\ (tx # <<>> => faults' = faults + 1)
    BY <1>2, <1>8
  <2>3. host.ch = 0 /\ ~no =>
            /\ tx # <<>> => faults' >= 1
            /\ Has(Texts, tx) /\ (host.n = 2 \/ Has(Talked, e)) => faults' >= 2
            /\ host.recovering /\ Has(Forms, tx) => faults' >= 3
    BY <1>1, <1>2, <1>4, <1>5, <2>2 DEF LateDlc
  <2>4. host.ch # 0 /\ Has(Control, tx) => faults' >= 1
    BY <1>2, <1>5, <2>2
  <2>5. DlcDone([host EXCEPT !.frames = e], no) /\ no \in BOOLEAN /\ ~no
    BY <1>8
  <2> HIDE DEF e, no
  <2> QED
    BY ONLY Channels # 0, Types, Types', InOrder,
            <1>1, <2>1, <2>2, <2>3, <2>4, <2>5, DlcOrder
<1> QED
  BY <1>1, <1>7, <1>8

LEMMA ReadOrder ==
    ASSUME Types, Types', InOrder, Read
    PROVE  InOrder'
<1>1. /\ host.pc = "up" /\ host' = [host EXCEPT !.frames = <<>>] /\ rx' = <<>>
      /\ faults' = faults /\ tx' = tx /\ hist' = hist /\ modem' = modem
  BY DEF Read, NoFault
<1>2. /\ host'.pc = "up" /\ host'.frames = <<>> /\ host'.dlc = host.dlc
      /\ host'.established = host.established /\ host'.recovering = host.recovering
      /\ host'.baud = host.baud
  BY <1>1 DEF Types, Hosts
<1>3. Queue' = <<>>
  BY <1>1, <1>2 DEF Queue
<1>4. Shape /\ Noise /\ LateUp /\ Granted
  BY DEF InOrder, Late
<1>5. Shape'
  BY <1>1, <1>2, <1>3, <1>4, Nothing DEF Shape
<1>6. Noise'
  BY <1>1, <1>2, <1>3, <1>4, Nothing DEF Noise
<1>7. LateUp'
  BY <1>1, <1>2, <1>4 DEF LateUp
<1>8. Late'
  BY <1>2, <1>7 DEF Late, LateIdle, LateWarmup, LateResp, LateForm, LateDlc, LateProbe, Idle
<1>9. Granted'
  BY <1>1, <1>2, <1>4 DEF Granted, Live, InMux
<1>10. Probed'
  BY <1>2 DEF Probed
<1> QED
  BY <1>5, <1>6, <1>8, <1>9, <1>10 DEF InOrder

LEMMA LinkDownOrder ==
    ASSUME Types, Types', InOrder, LinkDown
    PROVE  InOrder'
<1> DEFINE c == [k |-> "CLD", d |-> 0, baud |-> host.baud]
<1>1. /\ host.pc = "up" /\ rx' = rx /\ modem' = modem
      /\ host' = [host EXCEPT !.pc = "cld", !.recovering = TRUE, !.frames = <<>>, !.dlc = None]
      /\ IF modem.mode = "mux" /\ modem.baud = host.baud THEN Fault ELSE NoFault
      /\ hist' = [hist EXCEPT !.cut = FALSE]
      /\ tx' = Append(tx, c)
  BY DEF LinkDown, Send, None
<1>2. /\ host'.pc = "cld" /\ host'.frames = <<>> /\ host'.dlc = None
      /\ host'.recovering /\ host'.established = host.established
  BY <1>1 DEF Types, Hosts
<1>3. /\ faults \in Nat /\ faults' \in Nat /\ faults' >= faults
      /\ modem.mode = "mux" /\ modem.baud = host.baud => faults' = faults + 1
  BY <1>1, MuxAssumption DEF Types, Fault, NoFault
<1>4. "CLD" \in Command /\ 0 \in Dlci /\ host.baud \in {Entry, Target}
  BY Channel0, Written DEF Command
<1>5. /\ \A K : Has(K, tx') <=> Has(K, tx) \/ c \in K
      /\ \A K, L : Before(K, L, tx') <=> Before(K, L, tx) \/ (Has(K, tx) /\ c \in L)
  BY <1>1, <1>4, Sent
<1>6. c \notin Control /\ c \notin Texts /\ c \notin Forms /\ c \notin DiscZero
  BY <1>4, Kinds
<1> HIDE DEF c
<1>7. hist'.cut = FALSE /\ hist'.text = hist.text
  BY <1>1 DEF Types, Histories
<1>8. Within(Queue', Queue)
  <2>1. /\ host.frames \in Seq(Answers) /\ rx \in Seq(Answers)
        /\ \A s \in Seq(Answers) : <<>> \o s = s
    BY FramesAnswer DEF Types, Hosts
  <2>2. Queue' = rx
    BY <1>1, <1>2, <2>1 DEF Queue
  <2> QED
    BY <2>1, <2>2, Joined DEF Within, Queue
<1>9. Shape /\ Noise /\ LateUp /\ Granted
  BY DEF InOrder, Late
<1>10. Shape'
  <2>1. ~None[0]
    BY Channel0 DEF None
  <2>2. ~Has(DiscZero, tx') /\ ~Has(DmZero, Queue')
    BY <1>5, <1>6, <1>8, <1>9 DEF Shape, Within
  <2> QED
    BY <1>1, <1>2, <1>9, <2>1, <2>2 DEF Shape
(* A live link is given up by mistake; one that is not has been cut or lost *)
(* before.                                                                  *)
<1>11. faults' >= 1
  <2>1. CASE modem.mode = "mux" /\ modem.baud = host.baud
    BY <1>3, <2>1
  <2>2. CASE ~(modem.mode = "mux" /\ modem.baud = host.baud)
    <3>1. host.dlc[0] /\ faults <= 2 /\ ~hist.cut => Live
      BY <1>1, <1>9, Channel0 DEF Granted
    <3> QED
      BY <1>1, <1>3, <1>9, <2>2, <3>1 DEF Noise, Live, InMux
  <2> QED
    BY <2>1, <2>2
<1>12. Noise'
  BY <1>1, <1>2, <1>3, <1>7, <1>8, <1>9, <1>11 DEF Noise, Within
<1>13. LateUp'
  BY <1>1, <1>3, <1>2, <1>5, <1>6, <1>9, <1>11 DEF LateUp
<1>14. Late'
  BY <1>2, <1>13 DEF Late, LateIdle, LateWarmup, LateResp, LateForm, LateDlc, LateProbe, Idle
<1>15. Granted' /\ Probed'
  BY <1>2 DEF Granted, Probed
<1> QED
  BY <1>10, <1>12, <1>14, <1>15 DEF InOrder

LEMMA ReinitOrder ==
    ASSUME Types, Types', InOrder, Reinit
    PROVE  InOrder'
<1> DEFINE c == [k |-> "AT", d |-> 0, baud |-> host.baud]
<1>1. /\ host.pc = "cld" /\ rx' = <<>> /\ modem' = modem /\ hist' = hist /\ Deadline
      /\ host' = [host EXCEPT !.pc = "warmup"]
      /\ tx' = Append(tx, c)
  BY DEF Reinit, Send
<1>2. /\ host'.pc = "warmup" /\ host'.frames = host.frames /\ host'.dlc = host.dlc
      /\ host'.recovering = host.recovering /\ host'.established = host.established
  BY <1>1 DEF Types, Hosts
<1>3. /\ faults \in Nat /\ faults' \in Nat /\ faults' >= faults
      /\ tx # <<>> => faults' = faults + 1
  BY <1>1, Delays
<1>4. "AT" \in Command /\ 0 \in Dlci /\ host.baud \in {Entry, Target}
  BY Channel0, Written DEF Command
<1>5. /\ \A K : Has(K, tx') <=> Has(K, tx) \/ c \in K
      /\ \A K, L : Before(K, L, tx') <=> Before(K, L, tx) \/ (Has(K, tx) /\ c \in L)
      /\ \A K : Has(K, tx) => tx # <<>>
      /\ \A K, L : Before(K, L, tx) => Has(K, tx) /\ Has(L, tx)
  BY <1>1, <1>4, Sent, Written, Holds
<1>6. c \notin Control /\ c \notin Ends /\ c \notin Forms /\ c \notin NotAt /\ c \notin DiscZero
  BY <1>4, Kinds
<1> HIDE DEF c
<1>7. Shape /\ Noise /\ LateUp
  BY DEF InOrder, Late
<1>8. host'.frames = <<>> /\ host'.dlc = None /\ Queue' = <<>>
  BY <1>1, <1>2, <1>7 DEF Queue, Shape
<1>9. Shape'
  <2>1. ~None[0]
    BY Channel0 DEF None
  <2> QED
    BY <1>1, <1>2, <1>5, <1>6, <1>7, <1>8, <2>1, Nothing DEF Shape
<1>10. Noise'
  <2>1. ~Has(UihOk, rx') /\ ~Has(Talked, Queue') /\ ~Before(Talked, Talked, Queue')
    BY <1>1, <1>8, Nothing
  <2> QED
    BY <1>1, <1>2, <1>3, <1>7, <2>1 DEF Noise
<1>11. LateWarmup'
  <2>1. /\ Before(Texts, Control, tx) => faults >= 2
        /\ Before(Control, Ends, tx) => faults >= 1
        /\ Has(Forms, tx) => faults >= 3
    BY <1>1, <1>7 DEF LateUp
  <2>2. /\ Has(NotAt, tx') => Has(NotAt, tx)
        /\ Before(Letters, Letters, tx') => tx # <<>>
        /\ Before(Texts, Control, tx') => Before(Texts, Control, tx)
        /\ Before(Control, Ends, tx') => Before(Control, Ends, tx)
        /\ Before(Control, Forms, tx') => Before(Control, Forms, tx)
        /\ Has(Forms, tx') => Has(Forms, tx)
    BY <1>5, <1>6
  <2>3. ~Has(Oks, rx')
    BY <1>1, Nothing
  <2> QED
    BY <1>3, <1>5, <2>1, <2>2, <2>3 DEF LateWarmup
<1>12. Late'
  BY <1>2, <1>11 DEF Late, LateIdle, LateResp, LateForm, LateDlc, LateUp, LateProbe, Ending, Idle
<1>13. Granted' /\ Probed'
  BY <1>2 DEF Granted, Probed
<1> QED
  BY <1>9, <1>10, <1>12, <1>13 DEF InOrder

LEMMA QuitOrder ==
    ASSUME Types, Types', InOrder, Quit
    PROVE  InOrder'
<1>1. /\ host.pc = "up" /\ host' = [host EXCEPT !.pc = "close"]
      /\ faults' = faults /\ rx' = rx /\ tx' = tx /\ modem' = modem
      /\ hist'.cut = hist.cut /\ hist'.text = hist.text
  BY DEF Types, Histories, Quit, NoFault
<1>2. /\ host'.pc = "close" /\ host'.frames = host.frames /\ host'.dlc = host.dlc
      /\ host'.recovering = host.recovering /\ host'.established = host.established
  BY <1>1 DEF Types, Hosts
<1>3. Shape /\ Noise /\ LateUp /\ Queue' = Queue
  BY <1>1, <1>2 DEF InOrder, Late, Queue
<1>4. host.established /\ ~host.recovering
  BY <1>1, <1>3 DEF Shape
<1>5. Shape'
  BY <1>1, <1>2, <1>3, <1>4 DEF Shape
<1>6. Noise'
  BY <1>1, <1>2, <1>3, <1>4 DEF Noise
<1>7. LateUp'
  BY <1>1, <1>2, <1>3 DEF LateUp
<1>8. Late'
  BY <1>2, <1>4, <1>7 DEF Late, LateIdle, LateWarmup, LateResp, LateForm, LateDlc, LateProbe, Idle
<1>9. Granted' /\ Probed'
  BY <1>2 DEF Granted, Probed
<1> QED
  BY <1>5, <1>6, <1>8, <1>9 DEF InOrder

(* DISC for the next open channel, or CLD.                                  *)
LEMMA NextDiscOrder ==
    ASSUME Types, Types', InOrder, NEW h \in Hosts, NextDisc(h),
           host.pc \in {"close", "disc"}, host.established,
           h.established, ~h.recovering, h.baud = host.baud,
           rx' = <<>>, hist' = hist, modem' = modem,
           faults' >= faults, Within(h.frames, Queue)
    PROVE  InOrder'
<1>1. faults \in Nat /\ faults' \in Nat
  BY MuxAssumption DEF Types
<1>2. Shape /\ Noise /\ LateUp
  BY DEF InOrder, Late
<1>3. ASSUME NEW k \in {"DISC", "CLD"}, NEW d \in Dlci, k = "DISC" => d # 0,
             tx' = Append(tx, [k |-> k, d |-> d, baud |-> host.baud]),
             host'.pc = "disc" \/ (host'.pc = "probe" /\ host'.n = 0),
             host'.frames = h.frames, host'.established, ~host'.recovering
      PROVE  InOrder'
  <2> DEFINE c == [k |-> k, d |-> d, baud |-> host.baud]
  <2>1. k \in Command /\ host.baud \in {Entry, Target}
    BY Written DEF Command
  <2>2. /\ \A K : Has(K, tx') <=> Has(K, tx) \/ c \in K
        /\ \A K, L : Before(K, L, tx') <=> Before(K, L, tx) \/ (Has(K, tx) /\ c \in L)
    BY <1>3, <2>1, Sent
  <2>3. c \notin Control /\ c \notin Texts /\ c \notin Forms /\ c \notin DiscZero
    BY <1>3, <2>1, Kinds
  <2> HIDE DEF c
  <2>4. Within(Queue', Queue)
    <3>1. host'.frames \in Seq(FrameMsg)
      BY DEF Types, Hosts
    <3>2. Queue' = h.frames
      BY <1>3, <3>1 DEF Queue
    <3> QED
      BY <3>2
  <2>5. Shape'
    <3>1. ~Has(DiscZero, tx') /\ ~Has(DmZero, Queue')
      BY <1>2, <2>2, <2>3, <2>4 DEF Shape, Within
    <3> QED
      BY <1>3, <3>1 DEF Shape
  <2>6. Noise'
    BY <1>1, <1>2, <1>3, <2>4, Nothing DEF Noise, Within
  <2>7. LateUp'
    BY <1>1, <1>2, <1>3, <2>2, <2>3 DEF LateUp, Ending
  <2>8. Late'
    BY <1>3, <2>7 DEF Late, LateIdle, LateWarmup, LateResp, LateForm, LateDlc, LateProbe, Idle
  <2>9. Granted' /\ Probed'
    BY <1>3 DEF Granted, Probed
  <2> QED
    BY <2>5, <2>6, <2>8, <2>9 DEF InOrder
<1> DEFINE open == {d \in Data : d > h.ch /\ h.dlc[d]}
<1>4. CASE open # {}
  <2>1. host' = [h EXCEPT !.pc = "disc", !.ch = Min(open)] /\ Send(h, "DISC", Min(open))
    BY <1>4 DEF NextDisc
  <2>2. open \in SUBSET Nat /\ open \subseteq Dlci /\ \A d \in open : d # 0
    BY MuxAssumption DEF Data, Dlci
  <2> HIDE DEF open
  <2>3. Min(open) \in Dlci /\ Min(open) # 0
    BY <1>4, <2>2, MinOf
  <2>4. tx' = Append(tx, [k |-> "DISC", d |-> Min(open), baud |-> host.baud])
    BY <2>1 DEF Send
  <2>5. /\ host'.pc = "disc" /\ host'.frames = h.frames
        /\ host'.established = h.established /\ host'.recovering = h.recovering
    BY <2>1 DEF Hosts
  <2> QED
    BY <1>3, <2>3, <2>4, <2>5
<1>5. CASE open = {}
  <2>1. host' = [h EXCEPT !.pc = "probe", !.n = 0, !.stage = 1] /\ Send(h, "CLD", 0)
    BY <1>5 DEF NextDisc
  <2>2. tx' = Append(tx, [k |-> "CLD", d |-> 0, baud |-> host.baud])
    BY <2>1 DEF Send
  <2>3. /\ host'.pc = "probe" /\ host'.n = 0 /\ host'.frames = h.frames
        /\ host'.established = h.established /\ host'.recovering = h.recovering
    BY <2>1 DEF Hosts
  <2> QED
    BY <1>3, <2>2, <2>3, Channel0
<1> QED
  BY <1>4, <1>5

LEMMA CloseOrder ==
    ASSUME Types, Types', InOrder, Close
    PROVE  InOrder'
<1>1. /\ host.pc = "close" /\ hist' = hist /\ modem' = modem /\ faults' = faults
      /\ IF NeedsClose
         THEN NextDisc([host EXCEPT !.ch = 0]) /\ rx' = <<>>
         ELSE host' = [host EXCEPT !.pc = "port"] /\ rx' = rx /\ tx' = tx
  BY DEF Close, NoFault
<1>2. Shape /\ Noise /\ LateIdle
  BY DEF InOrder, Late
<1>3. NeedsClose <=> host.established
  BY <1>1, <1>2 DEF NeedsClose, Shape, Types, Hosts
<1>4. ~host.recovering /\ faults \in Nat
  BY <1>1, <1>2, MuxAssumption DEF Shape, Types
<1>5. CASE host.established
  <2> DEFINE h == [host EXCEPT !.ch = 0]
  <2>1. /\ h \in Hosts /\ h.established = host.established /\ h.recovering = host.recovering
        /\ h.baud = host.baud /\ h.frames = host.frames
    BY Channel0 DEF Types, Hosts
  <2>2. Within(host.frames, Queue)
    <3>1. host.frames \in Seq(Answers) /\ rx \in Seq(Answers)
      BY FramesAnswer DEF Types, Hosts
    <3> QED
      BY <3>1, Joined DEF Within, Queue
  <2>3. NextDisc(h) /\ rx' = <<>>
    BY <1>1, <1>3, <1>5
  <2>4. /\ host.pc \in {"close", "disc"} /\ faults' >= faults
        /\ h.established /\ ~h.recovering /\ Within(h.frames, Queue)
    BY <1>1, <1>4, <1>5, <2>1, <2>2
  <2> HIDE DEF h
  <2> QED
    BY <1>1, <1>5, <2>1, <2>3, <2>4, NextDiscOrder
<1>6. CASE ~host.established
  <2>1. host' = [host EXCEPT !.pc = "port"] /\ rx' = rx /\ tx' = tx
    BY <1>1, <1>3, <1>6
  <2>2. /\ host'.pc = "port" /\ host'.frames = host.frames
        /\ host'.recovering = host.recovering
    BY <2>1 DEF Types, Hosts
  <2>3. Queue' = Queue
    BY <2>1, <2>2 DEF Queue
  <2>4. Shape'
    BY <1>2, <1>4, <2>1, <2>2, <2>3 DEF Shape
  <2>5. Noise'
    BY <1>1, <1>2, <1>4, <2>1, <2>2, <2>3 DEF Noise
  <2>6. LateIdle'
    BY <1>1, <1>2, <1>6, <2>1 DEF LateIdle, Idle
  <2>7. Late'
    BY <2>2, <2>6 DEF Late, LateWarmup, LateResp, LateForm, LateDlc, LateUp, LateProbe, Ending
  <2>8. Granted' /\ Probed'
    BY <2>2 DEF Granted, Probed
  <2> QED
    BY <2>4, <2>5, <2>7, <2>8 DEF InOrder
<1> QED
  BY <1>5, <1>6 DEF Types, Hosts

LEMMA DiscOrder ==
    ASSUME Types, Types', InOrder, Disc
    PROVE  InOrder'
<1> DEFINE q == host.frames \o Frames(rx)
           own == FramesOf(q, host.ch, {"UA", "DM"})
           f == From(q, Min(own))
           a == [host EXCEPT !.frames = f, !.dlc[host.ch] = FALSE]
           b == [host EXCEPT !.frames = <<>>]
<1>1. /\ host.pc = "disc" /\ rx' = <<>> /\ hist' = hist /\ modem' = modem
      /\ \/ own # {} /\ NoFault /\ NextDisc(a)
         \/ own = {} /\ Deadline /\ NextDisc(b)
  BY DEF Disc
<1>2. faults \in Nat /\ faults' >= faults
  BY <1>1, Delays
<1>3. q \in Seq(FrameMsg) /\ Within(q, Queue)
  <2>1. /\ host.frames \in Seq(FrameMsg) /\ Frames(rx) \in Seq(FrameMsg) /\ rx \in Seq(Answers)
        /\ Seq(FrameMsg) \subseteq Seq(Answers)
    BY FramesType, FramesAnswer DEF Types, Hosts
  <2>2. Within(Frames(rx), rx)
    BY <2>1, FramesWithin
  <2> QED
    BY <2>1, <2>2, JoinWithin, Joined DEF Queue
<1> HIDE DEF q
<1>4. host.established /\ ~host.recovering
  BY <1>1 DEF InOrder, Shape
<1>5. CASE own # {} /\ NextDisc(a)
  <2>1. f \in Seq(FrameMsg) /\ Min(own) \in DOMAIN q
    BY <1>3, <1>5, FromType
  <2> HIDE DEF own
  <2>2. Within(f, Queue)
    <3>1. Within(f, q)
      BY <1>3, <2>1, RestWithin
    <3> QED
      BY <1>3, <3>1 DEF Within
  <2> HIDE DEF f
  <2>3. /\ a \in Hosts /\ a.frames = f /\ a.established = host.established
        /\ a.recovering = host.recovering /\ a.baud = host.baud
    <3> DEFINE e == [host.dlc EXCEPT ![host.ch] = FALSE]
    <3>1. a = [host EXCEPT !.frames = f, !.dlc = e]
      OBVIOUS
    <3>2. e \in [Dlci -> BOOLEAN]
      BY DEF Types, Hosts
    <3> HIDE DEF e, a
    <3> QED
      BY <2>1, <3>1, <3>2 DEF Types, Hosts
  <2> HIDE DEF a
  <2> QED
    BY <1>1, <1>2, <1>4, <1>5, <2>2, <2>3, NextDiscOrder
<1>6. CASE NextDisc(b)
  <2>1. b \in Hosts
    <3>1. <<>> \in Seq(FrameMsg)
      OBVIOUS
    <3> QED
      BY <3>1, HostUpdates DEF Types
  <2>3. /\ b.frames = <<>> /\ b.established = host.established
        /\ b.recovering = host.recovering /\ b.baud = host.baud
    BY DEF Types, Hosts
  <2>2. Within(<<>>, Queue)
    BY Nothing DEF Within
  <2> HIDE DEF b
  <2> QED
    BY <1>1, <1>2, <1>4, <1>6, <2>1, <2>2, <2>3, NextDiscOrder
<1> QED
  BY <1>1, <1>5, <1>6

LEMMA FramesRest ==     \* the parser's queue is the front of what is not used
    ASSUME Types
    PROVE  Within(host.frames, Queue)
<1>1. host.frames \in Seq(Answers) /\ rx \in Seq(Answers)
  BY FramesAnswer DEF Types, Hosts
<1> QED
  BY <1>1, Joined DEF Within, Queue

LEMMA ProbeAgainOrder ==
    ASSUME Types, Types', InOrder, ProbeAgain
    PROVE  InOrder'
<1> DEFINE c == [k |-> "AT", d |-> 0, baud |-> host.baud]
<1>1. /\ host.pc = "probe" /\ rx' = <<>> /\ modem' = modem /\ hist' = hist
      /\ host.n > 0 => Deadline
      /\ host.n <= 0 => NoFault
      /\ host' = [host EXCEPT !.n = @ + 1]
      /\ tx' = Append(tx, c)
  BY DEF ProbeAgain, Send, Types, Hosts
<1>2. /\ host'.pc = "probe" /\ host'.frames = host.frames /\ host'.n = host.n + 1
      /\ host'.recovering = host.recovering /\ host'.established = host.established
      /\ host'.dlc = host.dlc /\ host.n \in Nat
  BY <1>1 DEF Types, Hosts
<1>3. /\ faults \in Nat /\ faults' \in Nat /\ faults' >= faults
      /\ host.n > 0 /\ tx # <<>> => faults' = faults + 1
  BY <1>1, <1>2, Delays
<1>4. "AT" \in Command /\ 0 \in Dlci /\ host.baud \in {Entry, Target}
  BY Channel0, Written DEF Command
<1>5. /\ \A K : Has(K, tx') <=> Has(K, tx) \/ c \in K
      /\ \A K, L : Before(K, L, tx') <=> Before(K, L, tx) \/ (Has(K, tx) /\ c \in L)
      /\ \A K : Has(K, tx) => tx # <<>>
      /\ \A K, L : Before(K, L, tx) => Has(K, tx) /\ Has(L, tx)
  BY <1>1, <1>4, Sent, Written, Holds
<1>6. c \notin Control /\ c \notin Ends /\ c \notin Forms /\ c \notin DiscZero
  BY <1>4, Kinds
<1> HIDE DEF c
<1>7. Shape /\ Noise /\ LateUp
  BY DEF InOrder, Late
<1>8. Within(Queue', Queue)
  <2>1. Queue' = host.frames
    BY <1>1, <1>2 DEF Queue, Types, Hosts
  <2> QED
    BY <2>1, FramesRest
<1>9. Shape'
  <2>1. ~Has(DiscZero, tx') /\ ~Has(DmZero, Queue')
    BY <1>5, <1>6, <1>7, <1>8 DEF Shape, Within
  <2> QED
    BY <1>1, <1>2, <1>7, <2>1 DEF Shape
<1>10. Noise'
  BY <1>1, <1>2, <1>3, <1>7, <1>8, Nothing DEF Noise, Within
<1>11. LateUp'
  BY <1>1, <1>2, <1>3, <1>5, <1>6, <1>7 DEF LateUp, Ending
<1>12. LateProbe'
  <2>1. Before(Texts, Letters, tx') => faults' >= 1
    <3>1. CASE host.n > 0
      BY <1>3, <1>5, <3>1
    <3>2. CASE ~(host.n > 0)
      BY <1>1, <1>3, <1>5, <1>7, <3>2 DEF LateUp, Ending
    <3> QED
      BY <3>1, <3>2
  <2> QED
    BY <1>1, <2>1, Nothing DEF LateProbe
<1>13. Late'
  BY <1>2, <1>11, <1>12 DEF Late, LateIdle, LateWarmup, LateResp, LateForm, LateDlc, Idle
<1>14. Granted' /\ Probed'
  BY <1>1, <1>2, Nothing DEF Granted, Probed
<1> QED
  BY <1>9, <1>10, <1>13, <1>14 DEF InOrder

LEMMA ProbeAnsweredOrder ==
    ASSUME Types, Types', InOrder, ProbeAnswered
    PROVE  InOrder'
<1>1. /\ host.pc = "probe" /\ host.n > 0 /\ HasOk(rx)
      /\ host' = [host EXCEPT !.pc = "port", !.established = FALSE]
      /\ faults' = faults /\ rx' = rx /\ tx' = tx /\ modem' = modem
      /\ hist'.cut = hist.cut /\ hist'.text = hist.text
  BY DEF Types, Histories, ProbeAnswered, NoFault
<1>2. /\ host'.pc = "port" /\ host'.frames = host.frames
      /\ host'.recovering = host.recovering
  BY <1>1 DEF Types, Hosts
<1>3. Shape /\ Noise /\ LateUp /\ LateProbe /\ Queue' = Queue
  BY <1>1, <1>2 DEF InOrder, Late, Queue
<1>4. ~host.recovering /\ faults \in Nat /\ Has(Oks, rx)
  BY <1>1, <1>3, Texting, MuxAssumption DEF Shape, Types
<1>5. Shape'
  BY <1>1, <1>2, <1>3, <1>4 DEF Shape
<1>6. Noise'
  BY <1>1, <1>2, <1>3, <1>4 DEF Noise
<1>7. LateIdle'
  <2>1. Before(Control, Forms, tx) => Has(Forms, tx)
    BY Written, Holds
  <2> QED
    BY <1>1, <1>3, <1>4, <2>1 DEF LateIdle, LateUp, LateProbe, Ending
<1>8. Late'
  BY <1>2, <1>7 DEF Late, LateWarmup, LateResp, LateForm, LateDlc, LateUp, LateProbe, Ending
<1>9. Granted' /\ Probed'
  BY <1>2 DEF Granted, Probed
<1> QED
  BY <1>5, <1>6, <1>8, <1>9 DEF InOrder

LEMMA ProbeFailedOrder ==
    ASSUME Types, Types', InOrder, ProbeFailed
    PROVE  InOrder'
<1>1. /\ host.pc = "probe" /\ host.n = Rounds /\ ~HasOk(rx) /\ Deadline /\ modem' = modem
  BY DEF ProbeFailed
<1>2. /\ faults \in Nat /\ faults' \in Nat /\ faults' >= faults
      /\ tx # <<>> => faults' = faults + 1
  BY <1>1, Delays
<1>3. Shape /\ Noise /\ LateUp
  BY DEF InOrder, Late
<1>4. host.established /\ ~host.recovering
  BY <1>1, <1>3 DEF Shape
<1>5. /\ \A K : Has(K, tx) => tx # <<>>
      /\ \A K, L : Before(K, L, tx) => Has(K, tx) /\ Has(L, tx)
  BY Written, Holds
<1>6. CASE /\ host' = [host EXCEPT !.stage = 2, !.n = 0]
           /\ Send(host, "CLD", 0)
           /\ UNCHANGED <<rx, hist>>
  <2> DEFINE c == [k |-> "CLD", d |-> 0, baud |-> host.baud]
  <2>1. tx' = Append(tx, c) /\ rx' = rx /\ hist' = hist
    BY <1>6 DEF Send
  <2>2. /\ host'.pc = "probe" /\ host'.frames = host.frames /\ host'.n = 0
        /\ host'.recovering = host.recovering /\ host'.established = host.established
    BY <1>1, <1>6 DEF Types, Hosts
  <2>3. "CLD" \in Command /\ 0 \in Dlci /\ host.baud \in {Entry, Target}
    BY Channel0, Written DEF Command
  <2>4. /\ \A K : Has(K, tx') <=> Has(K, tx) \/ c \in K
        /\ \A K, L : Before(K, L, tx') <=> Before(K, L, tx) \/ (Has(K, tx) /\ c \in L)
    BY <2>1, <2>3, Sent
  <2>5. c \notin Control /\ c \notin Texts /\ c \notin Forms /\ c \notin DiscZero
    BY <2>3, Kinds
  <2> HIDE DEF c
  <2>6. Queue' = Queue
    BY <2>1, <2>2 DEF Queue
  <2>7. Shape'
    BY <1>3, <1>4, <2>1, <2>2, <2>4, <2>5, <2>6 DEF Shape
  <2>8. Noise'
    BY <1>2, <1>3, <1>4, <2>1, <2>2, <2>6 DEF Noise
  <2>9. LateUp'
    BY <1>1, <1>2, <1>3, <1>5, <2>2, <2>4, <2>5 DEF LateUp, Ending
  <2>10. Late'
    BY <2>2, <2>9 DEF Late, LateIdle, LateWarmup, LateResp, LateForm, LateDlc, LateProbe, Idle
  <2>11. Granted' /\ Probed'
    BY <2>2 DEF Granted, Probed
  <2> QED
    BY <2>7, <2>8, <2>10, <2>11 DEF InOrder
<1>7. CASE /\ host' = [host EXCEPT !.stage = 3, !.n = 0, !.baud = Entry]
           /\ rx' = <<>>
           /\ UNCHANGED <<tx, hist>>
  <2>1. /\ host'.pc = "probe" /\ host'.frames = host.frames /\ host'.n = 0
        /\ host'.recovering = host.recovering /\ host'.established = host.established
    BY <1>1, <1>7 DEF Types, Hosts
  <2>2. Within(Queue', Queue)
    <3>1. Queue' = host.frames
      BY <1>7, <2>1 DEF Queue, Types, Hosts
    <3> QED
      BY <3>1, FramesRest
  <2>3. Shape'
    <3>1. ~Has(DmZero, Queue')
      BY <1>3, <2>2 DEF Shape, Within
    <3> QED
      BY <1>3, <1>4, <1>7, <2>1, <3>1 DEF Shape
  <2>4. Noise'
    BY <1>2, <1>3, <1>4, <1>7, <2>1, <2>2, Nothing DEF Noise, Within
  <2>5. LateUp'
    BY <1>1, <1>2, <1>3, <1>5, <1>7, <2>1 DEF LateUp, Ending
  <2>6. Late'
    BY <2>1, <2>5 DEF Late, LateIdle, LateWarmup, LateResp, LateForm, LateDlc, LateProbe, Idle
  <2>7. Granted' /\ Probed'
    BY <2>1 DEF Granted, Probed
  <2> QED
    BY <2>3, <2>4, <2>6, <2>7 DEF InOrder
<1>8. CASE /\ host' = [host EXCEPT !.pc = "port"]
           /\ hist' = [hist EXCEPT !.report = "stuck"]
           /\ UNCHANGED <<rx, tx>>
  <2>1. /\ host'.pc = "port" /\ host'.frames = host.frames
        /\ host'.recovering = host.recovering
        /\ hist'.cut = hist.cut /\ hist'.text = hist.text
    BY <1>8 DEF Types, Hosts, Histories
  <2>2. Queue' = Queue
    BY <1>8, <2>1 DEF Queue
  <2>3. Shape'
    BY <1>3, <1>4, <1>8, <2>1, <2>2 DEF Shape
  <2>4. Noise'
    BY <1>2, <1>3, <1>4, <1>8, <2>1, <2>2 DEF Noise
  <2>5. LateIdle'
    BY <1>1, <1>2, <1>3, <1>5, <1>8 DEF LateIdle, LateUp, Ending
  <2>6. Late'
    BY <2>1, <2>5 DEF Late, LateWarmup, LateResp, LateForm, LateDlc, LateUp, LateProbe, Ending
  <2>7. Granted' /\ Probed'
    BY <2>1 DEF Granted, Probed
  <2> QED
    BY <2>3, <2>4, <2>6, <2>7 DEF InOrder
<1> QED
  BY <1>6, <1>7, <1>8 DEF ProbeFailed

(* The port is closed, by close() or with the process; the commands stay.   *)
LEMMA OffOrder ==
    ASSUME Types, Types', InOrder, host' = Fresh, rx' = <<>>, tx' = tx, modem' = modem,
           hist'.cut = hist.cut, hist'.text = hist.text,
           faults' >= faults,
           tx # <<>> => faults' >= 1,
           Before(Texts, Control, tx) => faults' >= 2,
           Before(Control, Ends, tx) => faults' >= 2,
           Before(Control, Forms, tx) => faults' >= 2
    PROVE  InOrder'
<1>1. /\ host'.pc = "off" /\ host'.frames = <<>> /\ host'.dlc = None
      /\ ~host'.recovering /\ ~host'.established
  BY DEF Fresh, None
<1>2. faults \in Nat /\ faults' \in Nat
  BY MuxAssumption DEF Types
<1>3. Queue' = <<>>
  BY <1>1 DEF Queue
<1>4. Shape /\ Noise
  BY DEF InOrder
<1>5. Shape'
  <2>1. ~None[0]
    BY Channel0 DEF None
  <2>2. ~Has(DiscZero, tx') /\ ~Has(DmZero, Queue')
    BY <1>3, <1>4, Nothing DEF Shape
  <2>3. ~host'.dlc[0]
    BY <1>1, <2>1
  <2> QED
    BY <1>1, <2>2, <2>3 DEF Shape
<1>6. Noise'
  <2>1. hist'.cut => faults' >= 1
    BY <1>2, <1>4 DEF Noise
  <2>2. ~Has(UihOk, rx') /\ ~Has(Talked, Queue') /\ ~Before(Talked, Talked, Queue')
    BY <1>3, Nothing
  <2> QED
    BY <1>1, <2>1, <2>2 DEF Noise
<1>7. LateIdle'
  BY DEF LateIdle
<1>8. Late'
  BY <1>1, <1>7 DEF Late, LateWarmup, LateResp, LateForm, LateDlc, LateUp, LateProbe, Ending
<1>9. Granted' /\ Probed'
  BY <1>1 DEF Granted, Probed
<1> QED
  BY <1>5, <1>6, <1>8, <1>9 DEF InOrder

LEMMA ClosePortOrder ==
    ASSUME Types, Types', InOrder, ClosePort
    PROVE  InOrder'
<1>1. /\ host.pc = "port" /\ host' = Fresh /\ rx' = <<>> /\ tx' = tx
      /\ modem' = modem /\ hist' = hist /\ faults' = faults
  BY DEF ClosePort, NoFault
<1>2. Idle /\ LateIdle /\ faults \in Nat
  BY <1>1, MuxAssumption DEF Idle, InOrder, Late, Types
<1> QED
  BY <1>1, <1>2, OffOrder DEF LateIdle

LEMMA KillOrder ==
    ASSUME Types, Types', InOrder, Kill
    PROVE  InOrder'
<1>1. /\ host' = Fresh /\ rx' = <<>> /\ tx' = tx /\ modem' = modem
      /\ hist'.cut = hist.cut /\ hist'.text = hist.text
      /\ faults \in Nat /\ faults' = faults + 1
  BY MuxAssumption DEF Kill, Fault, Types, Histories
<1>2. \A K, L : Before(K, L, tx) => Has(K, tx) /\ Has(L, tx) /\ Before(Letters, Letters, tx)
  BY Written, Holds
<1>3. host.pc \in HostPc
  BY DEF Types, Hosts
(* An earlier command of another kind is a fault already.                   *)
<1>4. /\ Before(Texts, Control, tx) => faults >= 1
      /\ Before(Control, Ends, tx) => faults >= 1
      /\ Before(Control, Forms, tx) => faults >= 1
  <2>1. CASE Idle
    BY <1>1, <2>1 DEF InOrder, Late, LateIdle
  <2>2. CASE host.pc = "warmup"
    BY <1>1, <2>2 DEF InOrder, Late, LateWarmup
  <2>3. CASE host.pc = "resp"
    BY <1>2, <2>3 DEF InOrder, Late, LateResp
  <2>4. CASE host.pc = "dlc"
    BY <1>1, <1>2, <2>4 DEF InOrder, Late, LateDlc
  <2>5. CASE host.pc \in {"up", "cld"} \/ Ending
    BY <1>1, <1>2, <2>5 DEF InOrder, Late, LateUp
  <2>6. Idle \/ host.pc \in {"warmup", "resp", "dlc", "up", "cld"} \/ Ending
    BY <1>3 DEF HostPc, Idle, Ending
  <2> QED
    BY <2>1, <2>2, <2>3, <2>4, <2>5, <2>6
<1> QED
  BY <1>1, <1>4, OffOrder

-----------------------------------------------------------------------------
(* The steps of the line and of the modem                                   *)

(* Where nothing new has come, everything is as good as before.             *)
LEMMA LessOrder ==
    ASSUME Types, Types', InOrder, host' = host, modem' = modem, hist' = hist,
           Within(tx', tx), Within(rx', rx), Within(Queue', Queue),
           tx' # <<>> => tx # <<>> /\ tx'[Len(tx')] = tx[Len(tx)],
           rx' # <<>> => rx # <<>>,
           faults' >= faults
    PROVE  InOrder'
<1>1. /\ \A K : Has(K, tx') => Has(K, tx)
      /\ \A K, L : Before(K, L, tx') => Before(K, L, tx)
      /\ \A K : Has(K, rx') => Has(K, rx)
      /\ \A K : Has(K, Queue') => Has(K, Queue)
      /\ \A K, L : Before(K, L, Queue') => Before(K, L, Queue)
  BY DEF Within
<1>2. faults \in Nat /\ faults' \in Nat /\ Tried \in Nat /\ Tried' = Tried
  BY MuxAssumption DEF Types, Tried
<1>3. Shape'
  BY <1>1 DEF InOrder, Shape
<1>4. Noise'
  BY <1>1, <1>2 DEF InOrder, Noise
<1>5. LateIdle'
  BY <1>1, <1>2 DEF InOrder, Late, LateIdle, Idle
<1>6. LateWarmup'
  BY <1>1, <1>2 DEF InOrder, Late, LateWarmup, InMux
<1>7. LateResp'
  BY <1>1, <1>2 DEF InOrder, Late, LateResp
<1>8. LateForm'
  BY <1>1, <1>2 DEF InOrder, Late, LateForm, InMux
<1>9. LateDlc'
  BY <1>1, <1>2 DEF InOrder, Late, LateDlc
<1>10. LateUp'
  BY <1>1, <1>2 DEF InOrder, Late, LateUp, Ending
<1>11. LateProbe'
  BY <1>1, <1>2 DEF InOrder, Late, LateProbe
<1>12. Granted'
  <2>1. Live => Live'
    BY <1>1 DEF Live, InMux
  <2> QED
    BY <1>1, <1>2, <2>1 DEF InOrder, Granted
<1>13. Probed'
  BY <1>1, <1>2 DEF InOrder, Probed
<1> QED
  BY <1>3, <1>4, <1>5, <1>6, <1>7, <1>8, <1>9, <1>10, <1>11, <1>12, <1>13 DEF InOrder, Late

LEMMA TailWithin ==
    ASSUME NEW X, NEW t \in Seq(X), t # <<>>
    PROVE  /\ Tail(t) \in Seq(X) /\ Within(Tail(t), t)
           /\ Tail(t) # <<>> => Tail(t)[Len(Tail(t))] = t[Len(t)]
BY Taken DEF Within

LEMMA StillOrder ==
    ASSUME Types, Types', InOrder, UNCHANGED vars
    PROVE  InOrder'
<1>1. Within(tx, tx) /\ Within(rx, rx) /\ Within(Queue, Queue) /\ faults \in Nat
  BY MuxAssumption DEF Within, Types
<1>2. Queue' = Queue
  BY DEF Queue, vars
<1> QED
  BY <1>1, <1>2, LessOrder DEF vars

LEMMA LoseOrder ==
    ASSUME Types, Types', InOrder, Lose
    PROVE  InOrder'
<1>1. /\ host' = host /\ modem' = modem /\ hist' = hist
      /\ faults \in Nat /\ faults' = faults + 1
  BY MuxAssumption DEF Lose, Fault, Types
<1>2. Within(tx, tx) /\ Within(rx, rx) /\ Within(Queue, Queue)
  BY DEF Within
<1>3. CASE tx # <<>> /\ tx' = Tail(tx) /\ rx' = rx
  <2>1. Queue' = Queue
    BY <1>1, <1>3 DEF Queue
  <2> QED
    BY <1>1, <1>2, <1>3, <2>1, Written, TailWithin, LessOrder
<1>4. CASE rx # <<>> /\ rx' = Tail(rx) /\ tx' = tx
  <2>1. rx \in Seq(Answers) /\ host.frames \in Seq(Answers)
    BY FramesAnswer DEF Types, Hosts
  <2>2. rx' \in Seq(Answers) /\ Within(rx', rx)
    BY <1>4, <2>1, TailWithin
  <2>3. Within(Queue', Queue)
    BY <1>1, <2>1, <2>2, JoinWithin DEF Queue
  <2> QED
    BY <1>1, <1>2, <1>4, <2>2, <2>3, LessOrder
<1> QED
  BY <1>3, <1>4 DEF Lose

LEMMA RestartOrder ==
    ASSUME Types, Types', InOrder, Restart
    PROVE  InOrder'
<1>1. /\ host' = host /\ rx' = rx /\ tx' = <<>> /\ modem'.mode = "at"
      /\ hist'.cut /\ hist'.text = hist.text
      /\ faults \in Nat /\ faults' = faults + 1
  BY MuxAssumption DEF Restart, Fault, Types, Histories
<1>2. \A K, L : ~Has(K, tx') /\ ~Before(K, L, tx')
  BY <1>1, Nothing
<1>3. Queue' = Queue
  BY <1>1 DEF Queue
<1>4. Shape'
  BY <1>1, <1>2, <1>3 DEF InOrder, Shape
<1>5. Noise'
  BY <1>1, <1>3 DEF InOrder, Noise
<1>6. LateIdle' /\ LateUp' /\ LateProbe'
  BY <1>1, <1>2 DEF LateIdle, LateUp, LateProbe
<1>7. LateWarmup' /\ LateForm'
  BY <1>1, <1>2 DEF LateWarmup, LateForm, InMux
<1>8. LateResp'
  BY <1>1, <1>2 DEF InOrder, Late, LateResp
<1>9. LateDlc'
  <2>1. host.pc = "dlc" /\ host.ch = 0 /\ Has(Elsewhere, Queue) => faults >= 1
    BY DEF InOrder, Late, LateDlc
  <2>2. host'.pc = "dlc" /\ host'.ch = 0 /\ Has(Elsewhere, Queue') => faults' >= 1
    BY <1>1, <1>3, <2>1
  <2> QED
    BY ONLY <1>2, <2>2 DEF LateDlc
<1>10. Granted' /\ Probed'
  BY <1>1 DEF Granted, Probed
<1> QED
  BY <1>4, <1>5, <1>6, <1>7, <1>8, <1>9, <1>10 DEF InOrder, Late

LEMMA Replies ==
    ASSUME NEW k \in TextKind \union FrameKind, NEW d \in Dlci
    PROVE  LET m == [k |-> k, d |-> d] IN
           /\ m \in Answers
           /\ \A e : m \in Ua(e) <=> k = "UA" /\ d = e
           /\ m \in DmZero <=> k = "DM" /\ d = 0
           /\ m \in Talked <=> k \in {"UIH", "UIH_OK", "UIH_ERROR"}
           /\ m \in UihOk <=> k = "UIH_OK"
           /\ m \in Ok <=> k = "OK"
           /\ m \in Oks <=> k \in {"OK", "UIH_OK"}
           /\ m \in Errors <=> k \in {"ERROR", "UIH_ERROR"}
           /\ m \in Elsewhere <=> k \in FrameKind /\ d # 0
BY DEF Answers, Ua, DmZero, Talked, UihOk, Ok, Oks, Errors, Elsewhere

(* An answer joins those not used.                                          *)
LEMMA Received ==
    ASSUME Types, NEW m \in Answers, rx' = Append(rx, m), host' = host
    PROVE  /\ rx' # <<>>
           /\ \A K : Has(K, rx') <=> Has(K, rx) \/ m \in K
           /\ \A K : Has(K, Queue') <=> Has(K, Queue) \/ m \in K
           /\ \A K, L : Before(K, L, Queue') <=>
                            Before(K, L, Queue) \/ (Has(K, Queue) /\ m \in L)
<1>1. rx \in Seq(Answers) /\ host.frames \in Seq(Answers)
  BY FramesAnswer DEF Types, Hosts
<1>2. /\ rx' \in Seq(Answers) /\ rx' # <<>>
      /\ \A K : Has(K, rx') <=> Has(K, rx) \/ m \in K
      /\ \A K, L : Before(K, L, rx') <=> Before(K, L, rx) \/ (Has(K, rx) /\ m \in L)
  BY <1>1, Appended
<1>3. Queue' = host.frames \o rx'
  BY DEF Queue
<1>4. /\ \A K : Has(K, Queue') <=> Has(K, host.frames) \/ Has(K, rx')
      /\ \A K, L : Before(K, L, Queue') <=>
                       \/ Before(K, L, host.frames) \/ Before(K, L, rx')
                       \/ Has(K, host.frames) /\ Has(L, rx')
  BY <1>1, <1>2, <1>3, Joined
<1>5. /\ \A K : Has(K, Queue) <=> Has(K, host.frames) \/ Has(K, rx)
      /\ \A K, L : Before(K, L, Queue) <=>
                       \/ Before(K, L, host.frames) \/ Before(K, L, rx)
                       \/ Has(K, host.frames) /\ Has(L, rx)
  BY <1>1, Joined DEF Queue
<1>6. ASSUME NEW K, NEW L
      PROVE  Before(K, L, Queue') <=> Before(K, L, Queue) \/ (Has(K, Queue) /\ m \in L)
  BY <1>2, <1>4, <1>5
<1> QED
  BY <1>2, <1>4, <1>5, <1>6

LEMMA TalkOrder ==
    ASSUME Types, Types', InOrder, Talk
    PROVE  InOrder'
<1>1. PICK d \in modem.open, k \in {"UIH", "UIH_OK", "UIH_ERROR"} :
          /\ d = 0 => k = "UIH"
          /\ rx' = Answer(rx, k, d) /\ rx' # rx
          /\ hist' = [hist EXCEPT !.text = @ \union ({k} \ {"UIH"})]
  BY DEF Talk
<1> DEFINE m == [k |-> k, d |-> d]
<1>2. /\ host' = host /\ modem' = modem /\ tx' = tx /\ InMux
      /\ faults \in Nat /\ faults' = faults + 1
  BY MuxAssumption DEF Talk, Fault, Types, InMux
<1>3. hist'.cut = hist.cut /\ hist'.text = hist.text \union ({k} \ {"UIH"})
  BY <1>1 DEF Types, Histories
<1>4. host.pc # "off" /\ rx' = Append(rx, m)
  BY <1>1 DEF Answer
<1>5. d \in Dlci /\ k \in TextKind \union FrameKind
  BY DEF Types, Modems, FrameKind
<1>6. /\ m \in Answers /\ m \in Talked /\ m \notin DmZero /\ m \notin Ok
      /\ \A e : m \notin Ua(e)
      /\ m \in UihOk => k = "UIH_OK"
      /\ m \in Oks \/ m \in Errors => m \in Elsewhere
  <2> HIDE DEF m
  <2> QED
    BY <1>1, <1>5, Replies DEF m, FrameKind
<1> HIDE DEF m
<1>7. /\ rx' # <<>>
      /\ \A K : Has(K, rx') <=> Has(K, rx) \/ m \in K
      /\ \A K : Has(K, Queue') <=> Has(K, Queue) \/ m \in K
      /\ \A K, L : Before(K, L, Queue') <=>
                       Before(K, L, Queue) \/ (Has(K, Queue) /\ m \in L)
  BY <1>2, <1>4, <1>6, Received
<1>8. /\ \A K, L : Before(K, L, tx) => Has(K, tx) /\ Has(L, tx)
      /\ \A K : Has(K, tx) => tx # <<>>
  BY Written, Holds
<1>9. Shape'
  BY <1>2, <1>4, <1>6, <1>7 DEF InOrder, Shape
<1>10. Noise'
  <2>1. Has(UihOk, rx') => "UIH_OK" \in hist'.text
    BY <1>3, <1>6, <1>7 DEF InOrder, Noise
  <2>2. /\ Before(Talked, Talked, Queue') => faults' >= 2
        /\ faults' >= 1
    BY <1>2, <1>6, <1>7 DEF InOrder, Noise
  <2> QED
    BY <2>1, <2>2 DEF Noise
<1>11. LateIdle' /\ LateUp'
  BY <1>2 DEF InOrder, Late, LateIdle, LateUp, Idle, Ending
<1>12. host.recovering => faults >= 1
  BY DEF InOrder, Noise
<1>13. faults' >= Tried' /\ faults' >= 1
  BY <1>2, <1>12 DEF Tried
<1>14. LateWarmup'
  <2> SUFFICES ASSUME host.pc = "warmup"
               PROVE  LateWarmup'
    BY <1>2 DEF LateWarmup
  <2>1. Has(Control, tx) => Has(NotAt, tx)
    BY DEF Has, Control, NotAt
  <2>2. Has(Control, tx) => faults' >= 2
    BY <1>2, <2>1 DEF InOrder, Late, LateWarmup
  <2>3. /\ Has(NotAt, tx) \/ Before(Letters, Letters, tx) => faults >= 1
        /\ Before(Texts, Control, tx) => faults >= 2
        /\ Before(Control, Ends, tx) => faults >= 2
        /\ Before(Control, Forms, tx) => faults >= 2
        /\ host.recovering /\ Has(Forms, tx) => faults >= 3
    BY DEF InOrder, Late, LateWarmup
  <2> QED
    BY <1>2, <1>13, <2>2, <2>3 DEF LateWarmup
<1>15. LateResp'
  <2> SUFFICES ASSUME host.pc = "resp"
               PROVE  LateResp'
    BY <1>2 DEF LateResp
  <2>1. LateResp
    BY DEF InOrder, Late
  <2>2. Before(Texts, Control, tx) => Before(Letters, Letters, tx)
    BY Written, Holds
  <2>3. Has(Ua(0), rx') => Has(Ua(0), rx)
    BY <1>6, <1>7
  <2> QED
    BY <1>2, <1>13, <2>1, <2>2, <2>3 DEF LateResp
<1>16. LateForm'
  <2> SUFFICES ASSUME host.pc = "resp"
               PROVE  LateForm'
    BY <1>2 DEF LateForm
  <2>1. LateForm
    BY DEF InOrder, Late
  <2>2. Has(Ua(0), rx') => Has(Ua(0), rx)
    BY <1>6, <1>7
  <2>3. /\ Has(Forms, tx) => faults' >= 2
        /\ host.recovering /\ Has(Forms, tx) => faults' >= 3
    BY <1>2, <2>1 DEF LateForm, Tried
  <2> QED
    BY <1>2, <1>13, <2>1, <2>2, <2>3 DEF LateForm
<1>17. LateDlc'
  <2> SUFFICES ASSUME host.pc = "dlc"
               PROVE  LateDlc'
    BY <1>2 DEF LateDlc
  <2>1. LateDlc
    BY DEF InOrder, Late
  <2>2. Has(Ua(0), Queue') => Has(Ua(0), Queue)
    BY <1>6, <1>7
  <2>3. /\ Has(Texts, tx) => faults' >= 2
        /\ host.recovering /\ Has(Forms, tx) => faults' >= 3
    BY <1>2, <2>1 DEF LateDlc
  <2> QED
    BY <1>2, <1>13, <2>1, <2>2, <2>3 DEF LateDlc
<1>18. LateProbe'
  <2> SUFFICES ASSUME host.pc = "probe", host.n > 0
               PROVE  LateProbe'
    BY <1>2 DEF LateProbe
  <2>1. Before(Control, Ends, tx) => faults' >= 2
    BY <1>2 DEF InOrder, Late, LateUp, Ending
  <2> QED
    BY <1>2, <1>13, <2>1 DEF LateProbe
<1>19. Granted'
  <2>1. Live' <=> Live
    BY <1>2 DEF Live, InMux
  <2>2. /\ \A e : Has(Ua(e), Queue') => Has(Ua(e), Queue)
        /\ \A e : Before(Ua(0), Ua(e), Queue') => Before(Ua(0), Ua(e), Queue)
    BY <1>6, <1>7
  <2> QED
    BY <1>2, <1>3, <2>1, <2>2 DEF InOrder, Granted
<1>20. Probed'
  BY <1>2, <1>3, <1>6, <1>7 DEF InOrder, Probed
<1> QED
  BY <1>9, <1>10, <1>11, <1>14, <1>15, <1>16, <1>17, <1>18, <1>19, <1>20 DEF InOrder, Late

(* The modem answers with one of K, or not so that the host gets it.        *)
Replied(K) ==
    \/ rx' = rx
    \/ /\ \E m \in Answers : m \in K /\ rx' = Append(rx, m)
       /\ host.baud = modem.baud /\ host.pc # "off"

Error == {m \in Answers : m.k = "ERROR"}
Denial == {m \in Answers : m.k = "DM" /\ m.d # 0}
Remote == {m \in Answers : m.k \in {"UA", "DM"} /\ m.d # 0}

(* What the modem may make of a command.                                    *)
Ignores == rx' = rx /\ modem' = modem
Leaves(c) == c \in Ends /\ InMux /\ rx' = rx /\ modem'.mode = "at"
Greets(c) == c \in Texts /\ ~InMux /\ Replied(Ok) /\ modem' = modem
Enters(c) == c \in Forms /\ ~InMux /\ Replied(Ok)
Refuses(c) == c \in Forms /\ ~InMux /\ Replied(Error) /\ modem' = modem
Opens(c) == /\ c \in Control \union Others /\ InMux /\ Replied(Ua(c.d))
            /\ modem' = [modem EXCEPT !.open = @ \union {c.d}]
Denies(c) == c \in Others /\ InMux /\ Replied(Denial) /\ modem' = modem
Closes(c) == /\ c \in Others /\ c \in Ends /\ InMux /\ Replied(Remote)
             /\ modem' = [modem EXCEPT !.open = @ \ {c.d}]
Obeys(c) ==
    \/ Ignores \/ Leaves(c) \/ Greets(c) \/ Enters(c) \/ Refuses(c)
    \/ Opens(c) \/ Denies(c) \/ Closes(c)

LEMMA ModemCases ==
    ASSUME Types, Shape, ModemStep
    PROVE  Obeys(Head(tx))
<1> DEFINE c == Head(tx)
<1>1. c \in Letters /\ c \notin DiscZero
  <2>1. tx \in Seq(Letters) /\ tx # <<>>
    BY Written DEF ModemStep
  <2>2. c \in Letters /\ \A K : Has(K, tx) <=> Has(K, Tail(tx)) \/ c \in K
    BY <2>1, Taken
  <2> QED
    BY <2>2 DEF Shape
<1>2. IF c.baud # modem.baud THEN rx' = rx /\ modem' = modem
      ELSE IF modem.mode = "at" THEN InAtMode(c) ELSE InMuxMode(c)
  BY DEF ModemStep
<1> SUFFICES Obeys(c)
  OBVIOUS
<1> HIDE DEF c
<1>3. c.d \in Dlci /\ c.k \in Command /\ modem.mode \in {"at", "mux"} /\ setup \in Setups
  BY <1>1 DEF Letters, Types, Modems
<1>4. /\ c \in Control <=> c.k = "SABM" /\ c.d = 0
      /\ c \in Others <=> c.k \in {"SABM", "DISC"} /\ c.d # 0
      /\ c \in Texts <=> c.k \in Form \union {"AT"}
      /\ c \in Forms <=> c.k \in Form
      /\ c \in Ends <=> c.k \in {"DISC", "CLD"}
      /\ c.k = "DISC" => c.d # 0
  BY <1>1 DEF Control, Others, Texts, Forms, Ends, DiscZero
<1>5. ASSUME NEW K, NEW k \in TextKind \union FrameKind, NEW d \in Dlci,
             rx' = Answer(rx, k, d), [k |-> k, d |-> d] \in K
      PROVE  Replied(K)
  BY <1>5, Replies DEF Answer, Replied
<1>6. CASE c.baud # modem.baud
  BY <1>2, <1>6 DEF Obeys, Ignores
<1>7. CASE modem.mode = "at" /\ InAtMode(c)
  <2>0. /\ 0 \in Dlci /\ "OK" \in TextKind \union FrameKind /\ "ERROR" \in TextKind \union FrameKind
        /\ [k |-> "OK", d |-> 0] \in Ok /\ [k |-> "ERROR", d |-> 0] \in Error
    BY Channel0, Replies DEF TextKind, Error
  <2>1. CASE c.k = "AT" /\ rx' = Answer(rx, "OK", 0) /\ UNCHANGED modem
    <3>1. Replied(Ok)
      BY <1>5, <2>0, <2>1
    <3> QED
      BY <1>4, <1>7, <2>1, <3>1 DEF Obeys, Greets, InMux
  <2>2. CASE c.k \in Form /\ Enter(c.k)
    <3>1. CASE rx' = Answer(rx, "ERROR", 0) /\ UNCHANGED modem
      <4>1. Replied(Error)
        BY <1>5, <2>0, <3>1
      <4> QED
        BY <1>4, <1>7, <2>2, <3>1, <4>1 DEF Obeys, Refuses, InMux
    <3>2. CASE rx' = Answer(rx, "OK", 0)
      <4>1. Replied(Ok)
        BY <1>5, <2>0, <3>2
      <4> QED
        BY <1>4, <1>7, <2>2, <4>1 DEF Obeys, Enters, InMux
    <3> QED
      BY <2>2, <3>1, <3>2 DEF Enter
  <2>3. CASE c.k \in {"SABM", "DISC", "CLD"} /\ UNCHANGED <<rx, modem>>
    BY <2>3 DEF Obeys, Ignores
  <2> QED
    BY <1>7, <2>1, <2>2, <2>3 DEF InAtMode
<1>8. CASE modem.mode # "at" /\ InMuxMode(c)
  <2>0. /\ InMux
        /\ "UA" \in FrameKind /\ "DM" \in FrameKind
    BY <1>3, <1>8 DEF InMux, FrameKind
  <2>1. CASE c.k = "SABM" /\ (c.d = 0 \/ (c.d \in setup.grants /\ 0 \in modem.open))
    <3>1. rx' = Answer(rx, "UA", c.d) /\ modem' = [modem EXCEPT !.open = @ \union {c.d}]
      BY <1>8, <2>1 DEF InMuxMode, Form
    <3>2. [k |-> "UA", d |-> c.d] \in Ua(c.d)
      BY <1>3, <2>0, Replies
    <3>3. Replied(Ua(c.d))
      BY <1>3, <1>5, <2>0, <3>1, <3>2
    <3> QED
      BY <1>4, <2>0, <2>1, <3>1, <3>3 DEF Obeys, Opens
  <2>2. CASE c.k = "SABM" /\ ~(c.d = 0 \/ (c.d \in setup.grants /\ 0 \in modem.open))
    <3>1. rx' = Answer(rx, "DM", c.d) /\ modem' = [modem EXCEPT !.open = @]
      BY <1>8, <2>2 DEF InMuxMode, Form
    <3>2. modem' = modem
      BY <3>1 DEF Types, Modems
    <3>3. [k |-> "DM", d |-> c.d] \in Denial
      BY <1>3, <1>4, <2>0, <2>2, Replies DEF Denial
    <3>4. Replied(Denial)
      BY <1>3, <1>5, <2>0, <3>1, <3>3
    <3> QED
      BY <1>4, <2>0, <2>2, <3>2, <3>4 DEF Obeys, Denies
  <2>3. CASE c.k = "DISC"
    <3> DEFINE k == IF c.d \in modem.open THEN "UA" ELSE "DM"
    <3>1. rx' = Answer(rx, k, c.d) /\ modem' = [modem EXCEPT !.open = @ \ {c.d}]
      BY <1>8, <2>3 DEF InMuxMode, Form
    <3>2. k \in FrameKind /\ k \in {"UA", "DM"}
      BY <2>0
    <3> HIDE DEF k
    <3>3. [k |-> k, d |-> c.d] \in Remote
      BY <1>3, <1>4, <2>3, <3>2, Replies DEF Remote
    <3>4. Replied(Remote)
      BY <1>3, <1>5, <3>1, <3>2, <3>3
    <3> QED
      BY <1>4, <2>0, <2>3, <3>1, <3>4 DEF Obeys, Closes
  <2>4. CASE c.k = "CLD"
    <3>1. /\ rx' = rx
          /\ modem' = [mode |-> "at", open |-> {},
                       baud |-> IF setup.restores THEN Entry ELSE modem.baud]
      BY <1>8, <2>4 DEF InMuxMode, Form
    <3>2. modem'.mode = "at"
      BY <3>1
    <3> QED
      BY <1>4, <2>0, <2>4, <3>1, <3>2 DEF Obeys, Leaves
  <2>5. CASE c.k \in Form \union {"AT"}
    <3>1. rx' = rx /\ modem' = modem
      BY <1>8, <2>5 DEF InMuxMode, Form
    <3> QED
      BY <3>1 DEF Obeys, Ignores
  <2> QED
    BY <1>3, <2>1, <2>2, <2>3, <2>4, <2>5 DEF Command
<1> QED
  BY <1>2, <1>6, <1>7, <1>8

(* What the queues hold after the modem's step, and the modem's mode.       *)
LEMMA ModemTx ==
    ASSUME Types, ModemStep
    PROVE  /\ \A K : Has(K, tx') => Has(K, tx)
           /\ \A K, L : Before(K, L, tx') => Before(K, L, tx)
           /\ \A K, L : Head(tx) \in K /\ Has(L, tx') => Before(K, L, tx)
           /\ \A K : Head(tx) \in K => Has(K, tx)
           /\ tx' # <<>> => Before(Letters, Letters, tx)
           /\ tx # <<>>
           /\ tx' # <<>> => tx'[Len(tx')] = tx[Len(tx)]
<1>1. tx \in Seq(Letters) /\ tx # <<>> /\ tx' = Tail(tx)
  BY Written DEF ModemStep
<1>2. /\ Head(tx) \in Letters /\ tx' \in Seq(Letters)
      /\ \A K : Has(K, tx) <=> Has(K, tx') \/ Head(tx) \in K
      /\ \A K, L : Before(K, L, tx) <=>
                       Before(K, L, tx') \/ (Head(tx) \in K /\ Has(L, tx'))
  BY <1>1, Taken
<1>3. tx' # <<>> => Has(Letters, tx')
  <2>1. ASSUME tx' # <<>> PROVE Head(tx') \in Letters
    BY <1>2, <2>1
  <2> QED
    BY <1>2, <2>1, Taken
<1>4. tx' # <<>> => tx'[Len(tx')] = tx[Len(tx)]
  BY <1>1, TailWithin
<1> QED
  BY <1>1, <1>2, <1>3, <1>4

(* An answer of K adds nothing else to the queues.                          *)
LEMMA RepliedOnly ==
    ASSUME Types, NEW K, Replied(K), host' = host
    PROVE  /\ \A L : (\A m \in Answers : m \in K => m \notin L) =>
                  /\ Has(L, rx') => Has(L, rx)
                  /\ Has(L, Queue') => Has(L, Queue)
                  /\ \A J : Before(J, L, Queue') => Before(J, L, Queue)
           /\ \A J, L : Before(J, L, Queue') => Before(J, L, Queue) \/ Has(J, Queue)
           /\ \/ rx' = rx
              \/ host.baud = modem.baud /\ host.pc # "off"
<1>1. CASE rx' = rx
  <2>1. Queue' = Queue
    BY <1>1 DEF Queue
  <2> QED
    BY <1>1, <2>1
<1>2. CASE rx' # rx
  <2>1. PICK m \in Answers : m \in K /\ rx' = Append(rx, m)
    BY <1>2 DEF Replied
  <2>2. /\ \A L : Has(L, rx') <=> Has(L, rx) \/ m \in L
        /\ \A L : Has(L, Queue') <=> Has(L, Queue) \/ m \in L
        /\ \A J, L : Before(J, L, Queue') <=>
                         Before(J, L, Queue) \/ (Has(J, Queue) /\ m \in L)
    BY <2>1, Received
  <2>3. host.baud = modem.baud /\ host.pc # "off"
    BY <1>2 DEF Replied
  <2> QED
    BY <2>1, <2>2, <2>3
<1> QED
  BY <1>1, <1>2

LEMMA Apart ==      \* which sets of answers have none in common
    ASSUME NEW m \in Answers
    PROVE  /\ m \in Ok => m \notin Errors \union Talked \union UihOk \union DmZero \union Elsewhere
           /\ m \in Error => m \notin Oks \union Talked \union UihOk \union DmZero
                                       \union Elsewhere \union Ok
           /\ m \in Remote => m \notin Oks \union Errors \union Talked \union UihOk
                                        \union DmZero \union Ok \union Ua(0)
           /\ m \in Denial => m \notin Oks \union Errors \union Talked \union UihOk
                                        \union DmZero \union Ok
           /\ m \in Ok \union Error \union Denial => \A e : m \notin Ua(e)
           /\ \A e : m \in Ua(e) =>
                 /\ m \notin Oks \union Errors \union Talked \union UihOk \union DmZero \union Ok
                 /\ m \in Elsewhere => e # 0
                 /\ \A f : f # e => m \notin Ua(f)
BY DEF Ok, Oks, Error, Errors, Denial, Remote, Talked, UihOk, DmZero, Elsewhere, Ua, FrameKind

(* What an answer cannot be.                                                *)
Untold ==
    /\ Has(Talked, rx') => Has(Talked, rx)
    /\ Has(Talked, Queue') => Has(Talked, Queue)
    /\ Before(Talked, Talked, Queue') => Before(Talked, Talked, Queue)
    /\ Has(UihOk, rx') => Has(UihOk, rx)
    /\ Has(DmZero, Queue') => Has(DmZero, Queue)
    /\ rx' = rx \/ (host.baud = modem.baud /\ host.pc # "off")
NoOk == (Has(Oks, rx') => Has(Oks, rx)) /\ (Has(Ok, rx') => Has(Ok, rx))
NoError == Has(Errors, rx') => Has(Errors, rx)
NoElse == (Has(Elsewhere, rx') => Has(Elsewhere, rx)) /\ (Has(Elsewhere, Queue') => Has(Elsewhere, Queue))
NoUa(d) ==
    /\ Has(Ua(d), rx') => Has(Ua(d), rx)
    /\ Has(Ua(d), Queue') => Has(Ua(d), Queue)
    /\ Before(Ua(0), Ua(d), Queue') => Before(Ua(0), Ua(d), Queue)

LEMMA Only ==
    ASSUME Types, NEW K, Replied(K), host' = host,
           \A m \in Answers : m \in K => m \notin Talked \union UihOk \union DmZero
    PROVE  /\ Untold
           /\ (\A m \in Answers : m \in K => m \notin Oks \union Ok) => NoOk
           /\ (\A m \in Answers : m \in K => m \notin Errors) => NoError
           /\ (\A m \in Answers : m \in K => m \notin Elsewhere) => NoElse
           /\ \A d : (\A m \in Answers : m \in K => m \notin Ua(d)) => NoUa(d)
           /\ \A d : Before(Ua(0), Ua(d), Queue') =>
                         Before(Ua(0), Ua(d), Queue) \/ Has(Ua(0), Queue)
<1>1. /\ \A L : (\A m \in Answers : m \in K => m \notin L) =>
             /\ Has(L, rx') => Has(L, rx)
             /\ Has(L, Queue') => Has(L, Queue)
             /\ \A J : Before(J, L, Queue') => Before(J, L, Queue)
      /\ \A J, L : Before(J, L, Queue') => Before(J, L, Queue) \/ Has(J, Queue)
      /\ rx' = rx \/ (host.baud = modem.baud /\ host.pc # "off")
  BY RepliedOnly
<1>2. Untold
  <2>1. \A m \in Answers : m \in K => m \notin Talked /\ m \notin UihOk /\ m \notin DmZero
    OBVIOUS
  <2> QED
    BY <1>1, <2>1 DEF Untold
<1>3. (\A m \in Answers : m \in K => m \notin Oks \union Ok) => NoOk
  <2> SUFFICES ASSUME \A m \in Answers : m \in K => m \notin Oks \union Ok PROVE NoOk
    OBVIOUS
  <2>1. \A m \in Answers : m \in K => m \notin Oks /\ m \notin Ok
    OBVIOUS
  <2> QED
    BY <1>1, <2>1 DEF NoOk
<1>4. /\ (\A m \in Answers : m \in K => m \notin Errors) => NoError
      /\ (\A m \in Answers : m \in K => m \notin Elsewhere) => NoElse
  BY <1>1 DEF NoError, NoElse
<1>5. ASSUME NEW d, \A m \in Answers : m \in K => m \notin Ua(d) PROVE NoUa(d)
  BY <1>1, <1>5 DEF NoUa
<1> QED
  BY <1>1, <1>2, <1>3, <1>4, <1>5

LEMMA RepliedKinds ==
    ASSUME Types, host' = host
    PROVE  /\ rx' = rx \/ Replied(Ok) =>
                  Untold /\ NoError /\ NoElse /\ \A d : NoUa(d)
           /\ rx' = rx \/ Replied(Error) =>
                  Untold /\ NoOk /\ NoElse /\ \A d : NoUa(d)
           /\ Replied(Denial) =>
                  Untold /\ NoOk /\ NoError /\ \A d : NoUa(d)
           /\ Replied(Remote) =>
                  /\ Untold /\ NoOk /\ NoError /\ NoUa(0)
                  /\ \A d : Before(Ua(0), Ua(d), Queue') =>
                                Before(Ua(0), Ua(d), Queue) \/ Has(Ua(0), Queue)
           /\ \A e : Replied(Ua(e)) =>
                  /\ Untold /\ NoOk /\ NoError /\ (e = 0 => NoElse)
                  /\ \A d : d # e => NoUa(d)
                  /\ \A d : Before(Ua(0), Ua(d), Queue') =>
                                Before(Ua(0), Ua(d), Queue) \/ Has(Ua(0), Queue)
<1>1. rx' = rx => Replied(Ok) /\ Replied(Error)
  BY DEF Replied
<1>2. ASSUME Replied(Ok) PROVE Untold /\ NoError /\ NoElse /\ \A d : NoUa(d)
  BY <1>2, Only, Apart
<1>3. ASSUME Replied(Error) PROVE Untold /\ NoOk /\ NoElse /\ \A d : NoUa(d)
  BY <1>3, Only, Apart
<1>6. ASSUME Replied(Denial) PROVE Untold /\ NoOk /\ NoError /\ \A d : NoUa(d)
  BY <1>6, Only, Apart
<1>4. ASSUME Replied(Remote)
      PROVE  /\ Untold /\ NoOk /\ NoError /\ NoUa(0)
             /\ \A d : Before(Ua(0), Ua(d), Queue') =>
                           Before(Ua(0), Ua(d), Queue) \/ Has(Ua(0), Queue)
  BY <1>4, Only, Apart
<1>5. ASSUME NEW e, Replied(Ua(e))
      PROVE  /\ Untold /\ NoOk /\ NoError /\ (e = 0 => NoElse)
             /\ \A d : d # e => NoUa(d)
             /\ \A d : Before(Ua(0), Ua(d), Queue') =>
                           Before(Ua(0), Ua(d), Queue) \/ Has(Ua(0), Queue)
  BY <1>5, Only, Apart
<1> QED
  BY <1>1, <1>2, <1>3, <1>4, <1>5, <1>6

(* What the modem's answer may be, and what it says of the modem.           *)
NewAnswers(c) ==
    /\ Has(Oks, rx') => Has(Oks, rx) \/ (c \in Texts /\ ~InMux)
    /\ Has(Ok, rx') => Has(Ok, rx) \/ (c \in Texts /\ ~InMux /\ host.baud = modem.baud)
    /\ Has(Errors, rx') => Has(Errors, rx) \/ (c \in Forms /\ ~InMux')
    /\ Has(Elsewhere, rx') => Has(Elsewhere, rx) \/ c \in Others
    /\ Has(Elsewhere, Queue') => Has(Elsewhere, Queue) \/ c \in Others

NewChannels(c) ==
    /\ Has(Ua(0), rx') => Has(Ua(0), rx) \/ c \in Control
    /\ Has(Ua(0), Queue') =>
          \/ Has(Ua(0), Queue)
          \/ c \in Control /\ InMux' /\ modem'.baud = host.baud /\ 0 \in modem'.open
    /\ \A d \in Data :
          /\ Live /\ Has(Ua(d), Queue') => Has(Ua(d), Queue) \/ d \in modem'.open
          /\ Before(Ua(0), Ua(d), Queue') =>
                \/ Before(Ua(0), Ua(d), Queue)
                \/ Has(Ua(0), Queue) /\ (Live => d \in modem'.open)

NewMode(c) ==
    /\ InMux' => InMux \/ c \in Forms
    /\ ~InMux /\ c \notin Forms => modem' = modem
    /\ Live => InMux' /\ modem'.baud = modem.baud /\ modem.open \subseteq modem'.open

LEMMA ModemRx ==
    ASSUME Types, Types', Shape, ModemStep
    PROVE  Untold /\ NewAnswers(Head(tx)) /\ NewChannels(Head(tx)) /\ NewMode(Head(tx))
<1> DEFINE c == Head(tx)
<1>1. Obeys(c) /\ (c \in Ends => Has(Ends, tx)) /\ host' = host /\ c.d \in Dlci
  <2>1. tx \in Seq(Letters) /\ tx # <<>>
    BY Written DEF ModemStep
  <2>2. c \in Letters
    BY <2>1, Taken
  <2> QED
    BY <2>2, ModemCases, ModemTx DEF ModemStep, Letters
<1> HIDE DEF c
<1>2. /\ modem \in Modems
      /\ InMux <=> modem.mode = "mux"
      /\ InMux' <=> modem'.mode = "mux"
  BY DEF Types, InMux
<1>3. Live => c \notin Ends /\ InMux /\ modem.baud = host.baud /\ 0 \in modem.open
  BY <1>1 DEF Live
<1> SUFFICES Untold /\ NewAnswers(c) /\ NewChannels(c) /\ NewMode(c)
  BY DEF c
<1>4. CASE Ignores
  <2>1. rx' = rx /\ modem' = modem
    BY <1>4 DEF Ignores
  <2>2. Untold /\ NoError /\ NoElse /\ NoOk /\ \A d : NoUa(d)
    BY <1>1, <2>1, RepliedKinds
  <2> QED
    BY <1>2, <1>3, <2>1, <2>2
       DEF NewAnswers, NewChannels, NewMode, NoError, NoElse, NoOk, NoUa
<1>5. CASE Leaves(c)
  <2>1. rx' = rx /\ modem'.mode = "at" /\ InMux /\ c \in Ends
    BY <1>5 DEF Leaves
  <2>2. Untold /\ NoError /\ NoElse /\ NoOk /\ \A d : NoUa(d)
    BY <1>1, <2>1, RepliedKinds
  <2> QED
    BY <1>2, <1>3, <2>1, <2>2
       DEF NewAnswers, NewChannels, NewMode, NoError, NoElse, NoOk, NoUa
<1>6. CASE Greets(c)
  <2>1. c \in Texts /\ ~InMux /\ modem' = modem
    BY <1>6 DEF Greets
  <2>2. Untold /\ NoError /\ NoElse /\ \A d : NoUa(d)
    BY <1>1, <1>6, RepliedKinds DEF Greets
  <2>3. NewAnswers(c)
    BY <2>1, <2>2 DEF NewAnswers, NoError, NoElse, NoUa, Untold
  <2> QED
    BY <1>2, <1>3, <2>1, <2>2, <2>3 DEF NewChannels, NewMode, NoUa
<1>7. CASE Enters(c)
  <2>1. c \in Forms /\ c \in Texts /\ ~InMux
    BY <1>7 DEF Enters, Forms, Texts
  <2>2. Untold /\ NoError /\ NoElse /\ \A d : NoUa(d)
    BY <1>1, <1>7, RepliedKinds DEF Enters
  <2>3. NewAnswers(c)
    BY <2>1, <2>2 DEF NewAnswers, NoError, NoElse, NoUa, Untold
  <2> QED
    BY <1>2, <1>3, <2>1, <2>2, <2>3 DEF NewChannels, NewMode, NoUa
<1>8. CASE Refuses(c)
  <2>1. c \in Forms /\ ~InMux /\ modem' = modem
    BY <1>8 DEF Refuses
  <2>2. Untold /\ NoOk /\ NoElse /\ \A d : NoUa(d)
    BY <1>1, <1>8, RepliedKinds DEF Refuses
  <2>3. NewAnswers(c)
    BY <1>2, <2>1, <2>2 DEF NewAnswers, NoOk, NoElse
  <2> QED
    BY <1>2, <1>3, <2>1, <2>2, <2>3 DEF NewChannels, NewMode, NoUa
<1>9. CASE Opens(c)
  <2>1. /\ c \in Control \union Others /\ InMux
        /\ modem'.mode = modem.mode /\ modem'.baud = modem.baud
        /\ modem'.open = modem.open \union {c.d}
    BY <1>2, <1>9 DEF Opens, Modems
  <2>2. c \in Control <=> c.d = 0
    BY <2>1 DEF Control, Others
  <2>3. /\ Untold /\ NoOk /\ NoError /\ (c.d = 0 => NoElse)
        /\ \A d : d # c.d => NoUa(d)
        /\ \A d : Before(Ua(0), Ua(d), Queue') =>
                      Before(Ua(0), Ua(d), Queue) \/ Has(Ua(0), Queue)
    BY <1>1, <1>9, RepliedKinds DEF Opens
  <2>4. NewAnswers(c)
    BY <2>1, <2>2, <2>3 DEF NewAnswers, NoOk, NoError, NoElse
  <2>5. Has(Ua(0), rx') => Has(Ua(0), rx) \/ c \in Control
    BY <2>2, <2>3 DEF NoUa
  <2>6. Has(Ua(0), Queue') =>
          \/ Has(Ua(0), Queue)
          \/ c \in Control /\ InMux' /\ modem'.baud = host.baud /\ 0 \in modem'.open
    <3>1. CASE c.d # 0
      BY <2>3, <3>1 DEF NoUa
    <3>2. CASE rx' = rx
      BY <1>1, <3>2 DEF Queue
    <3>3. CASE c.d = 0 /\ rx' # rx
      BY <1>2, <2>1, <2>2, <2>3, <3>3 DEF Untold
    <3> QED
      BY <3>1, <3>2, <3>3
  <2>7. ASSUME NEW d \in Data
        PROVE  /\ Live /\ Has(Ua(d), Queue') => Has(Ua(d), Queue) \/ d \in modem'.open
               /\ Before(Ua(0), Ua(d), Queue') =>
                    \/ Before(Ua(0), Ua(d), Queue)
                    \/ Has(Ua(0), Queue) /\ (Live => d \in modem'.open)
    <3>1. CASE d = c.d
      BY <2>1, <2>3, <3>1
    <3>2. CASE d # c.d
      BY <2>3, <3>2 DEF NoUa
    <3> QED
      BY <3>1, <3>2
  <2>8. NewMode(c)
    BY <1>2, <2>1 DEF NewMode
  <2> QED
    BY <2>3, <2>4, <2>5, <2>6, <2>7, <2>8 DEF NewChannels
<1>10. CASE Denies(c)
  <2>1. c \in Others /\ InMux /\ modem' = modem
    BY <1>10 DEF Denies
  <2>2. /\ Untold /\ NoOk /\ NoError
        /\ \A d : NoUa(d)
    BY <1>1, <1>10, RepliedKinds DEF Denies
  <2>3. NewAnswers(c)
    BY <2>1, <2>2 DEF NewAnswers, NoOk, NoError
  <2> QED
    BY <1>2, <1>3, <2>1, <2>2, <2>3 DEF NewChannels, NewMode, NoUa
<1>11. CASE Closes(c)
  <2>1. /\ c \in Others /\ c \in Ends /\ InMux
        /\ modem'.mode = modem.mode
    BY <1>2, <1>11 DEF Closes, Modems
  <2>2. /\ Untold /\ NoOk /\ NoError /\ NoUa(0)
        /\ \A d : Before(Ua(0), Ua(d), Queue') =>
                      Before(Ua(0), Ua(d), Queue) \/ Has(Ua(0), Queue)
    BY <1>1, <1>11, RepliedKinds DEF Closes
  <2>3. NewAnswers(c)
    BY <2>1, <2>2 DEF NewAnswers, NoOk, NoError
  <2>4. NewChannels(c)
    BY <1>3, <2>1, <2>2 DEF NewChannels, NoUa
  <2> QED
    BY <1>2, <1>3, <2>1, <2>2, <2>3, <2>4 DEF NewMode
<1> QED
  BY <1>1, <1>4, <1>5, <1>6, <1>7, <1>8, <1>9, <1>10, <1>11 DEF Obeys

LEMMA ModemOrder ==
    ASSUME Types, Types', InOrder, ModemStep
    PROVE  InOrder'
<1> DEFINE c == Head(tx)
<1>1. host' = host /\ hist' = hist /\ faults' = faults /\ faults \in Nat
  BY MuxAssumption DEF ModemStep, NoFault, Types
<1>2. /\ \A K : Has(K, tx') => Has(K, tx)
      /\ \A K, L : Before(K, L, tx') => Before(K, L, tx)
      /\ \A K, L : c \in K /\ Has(L, tx') => Before(K, L, tx)
      /\ \A K : c \in K => Has(K, tx)
      /\ tx' # <<>> => Before(Letters, Letters, tx)
      /\ tx # <<>>
      /\ tx' # <<>> => tx'[Len(tx')] = tx[Len(tx)]
  BY ModemTx
<1>3. Untold /\ NewAnswers(c) /\ NewChannels(c) /\ NewMode(c)
  BY ModemRx DEF InOrder
<1>4. /\ \A K, L : Before(K, L, tx) => Has(K, tx) /\ Has(L, tx)
      /\ \A K, L : Before(K, L, tx) => Before(Letters, L, tx) /\ Before(Letters, Letters, tx)
  BY Written, Holds
<1>c. c \in Letters
  <2>1. tx \in Seq(Letters) /\ tx # <<>>
    BY <1>2, Written
  <2> QED
    BY <2>1, Taken
<1> HIDE DEF c
<1>5. c \in Forms => c \in Texts /\ c \in NotAt
  BY <1>c DEF Forms, Texts, NotAt, Form
<1>6. Tried \in 1 .. 2 /\ Tried' = Tried
  BY <1>1 DEF Tried
<1>7. Shape'
  BY <1>1, <1>2, <1>3 DEF InOrder, Shape, Untold
<1>8. Noise'
  BY <1>1, <1>3 DEF InOrder, Noise, Untold
<1>9. LateIdle' /\ LateUp'
  BY <1>1, <1>2 DEF InOrder, Late, LateIdle, LateUp, Idle, Ending
<1>10. LateWarmup'
  <2> SUFFICES ASSUME host.pc = "warmup"
               PROVE  LateWarmup'
    BY <1>1 DEF LateWarmup
  <2>1. LateWarmup
    BY DEF InOrder, Late
  <2>2. /\ Has(NotAt, tx') \/ Before(Letters, Letters, tx') => faults >= 1
        /\ Before(Texts, Control, tx') => faults >= 2
        /\ Before(Control, Ends, tx') => faults >= 2
        /\ Before(Control, Forms, tx') => faults >= 2
        /\ host.recovering /\ Has(Forms, tx') => faults >= 3
    BY <1>2, <2>1 DEF LateWarmup
  <2>3. Has(Oks, rx') /\ Has(Control, tx') => faults >= 2
    <3>1. CASE Has(Oks, rx)
      BY <1>2, <2>1, <3>1 DEF LateWarmup
    <3>2. CASE c \in Texts
      BY <1>2, <2>1, <3>2 DEF LateWarmup
    <3> QED
      BY <1>3, <3>1, <3>2 DEF NewAnswers
  <2>4. tx' # <<>> => faults >= 1
    BY <1>2, <2>1 DEF LateWarmup
  <2>5. Has(Oks, rx') /\ InMux' => faults >= Tried
    <3>1. CASE Has(Oks, rx) /\ InMux
      BY <2>1, <3>1 DEF LateWarmup
    <3>2. CASE c \in Forms
      <4>1. Has(Forms, tx) /\ Has(NotAt, tx)
        BY <1>2, <1>5, <3>2
      <4>2. faults >= 1 /\ (host.recovering => faults >= 3)
        BY <2>1, <4>1 DEF LateWarmup
      <4> QED
        BY <1>1, <4>2 DEF Tried
    <3> QED
      BY <1>3, <3>1, <3>2 DEF NewAnswers, NewMode
  <2> QED
    BY <1>1, <1>6, <2>2, <2>3, <2>4, <2>5 DEF LateWarmup
<1>11. LateResp'
  <2> SUFFICES ASSUME host.pc = "resp"
               PROVE  LateResp'
    BY <1>1 DEF LateResp
  <2>1. LateResp
    BY DEF InOrder, Late
  <2>2. /\ Before(Control, Ends, tx') => faults >= 3
        /\ Before(Letters, Letters, tx') => faults >= 1
        /\ Before(Control, Texts, tx') => faults >= 2
        /\ Has(Control, tx') /\ Has(Forms, tx') => faults >= 2
        /\ Has(Control, tx') /\ host.cmd \in Form => faults >= 3
    BY <1>2, <2>1 DEF LateResp
  <2>3. tx' # <<>> => faults >= 1
    BY <1>2, <2>1 DEF LateResp
  <2>4. Has(Ua(0), rx') /\ Has(Texts, tx') => faults >= 2
    <3>1. CASE Has(Ua(0), rx)
      BY <1>2, <2>1, <3>1 DEF LateResp
    <3>2. CASE c \in Control
      BY <1>2, <2>1, <3>2 DEF LateResp
    <3> QED
      BY <1>3, <3>1, <3>2 DEF NewChannels
  <2>5. Has(Errors, rx') /\ Before(Texts, Control, tx') => faults >= 2
    <3>1. CASE Has(Errors, rx)
      BY <1>2, <2>1, <3>1 DEF LateResp
    <3>2. CASE c \in Forms
      BY <1>2, <1>4, <2>1, <3>2 DEF LateResp
    <3> QED
      BY <1>3, <3>1, <3>2 DEF NewAnswers
  <2>6. host.pending /\ (Has(Control, tx') \/ Has(Ua(0), rx')) => faults >= 3
    BY <1>2, <1>3, <2>1 DEF LateResp, NewChannels
  <2>7. Has(Others, tx') \/ Has(Elsewhere, rx') => faults >= 1
    BY <1>2, <1>3, <2>1 DEF LateResp, NewAnswers
  <2> QED
    BY <1>1, <2>2, <2>3, <2>4, <2>5, <2>6, <2>7 DEF LateResp
<1>12. LateForm'
  <2> SUFFICES ASSUME host.pc = "resp"
               PROVE  LateForm'
    BY <1>1 DEF LateForm
  <2>1. LateForm
    BY DEF InOrder, Late
  <2>2. /\ Before(Control, Forms, tx') => faults >= 3
        /\ Before(Letters, Forms, tx') => faults >= 2
    BY <1>2, <2>1 DEF LateForm
  <2>3. Has(Forms, tx') => faults >= 2
    BY <1>2, <1>c, <2>1 DEF LateForm
  <2>4. Has(Ua(0), rx') /\ Has(Forms, tx') => faults >= 3
    <3>1. CASE Has(Ua(0), rx)
      BY <1>2, <2>1, <3>1 DEF LateForm
    <3>2. CASE c \in Control
      BY <1>2, <2>1, <3>2 DEF LateForm
    <3> QED
      BY <1>3, <3>1, <3>2 DEF NewChannels
  <2>5. InMux' /\ Has(Errors, rx') /\ host.cmd \in Form => faults >= Tried
    <3>1. CASE Has(Errors, rx) /\ InMux
      BY <2>1, <3>1 DEF LateForm
    <3>2. CASE Has(Errors, rx) /\ c \in Forms
      <4>1. rx \in Seq(Answers) => rx # <<>>
        BY <3>2, Holds
      <4> QED
        BY <1>2, <1>6, <2>1, <3>2, <4>1 DEF LateForm, Types
    <3> QED
      BY <1>3, <3>1, <3>2 DEF NewAnswers, NewMode
  <2>6. host.recovering =>
          /\ Before(Forms, Forms, tx') => faults >= 3
          /\ Has(Errors, rx') /\ Has(Forms, tx') => faults >= 3
          /\ Has(Talked, rx') /\ Has(Forms, tx') => faults >= 3
    <3> SUFFICES ASSUME host.recovering
                 PROVE  /\ Before(Forms, Forms, tx') => faults >= 3
                        /\ Has(Errors, rx') /\ Has(Forms, tx') => faults >= 3
                        /\ Has(Talked, rx') /\ Has(Forms, tx') => faults >= 3
      OBVIOUS
    <3>1. Before(Forms, Forms, tx) => faults >= 3
      BY <2>1 DEF LateForm
    <3>2. Has(Errors, rx') /\ Has(Forms, tx') => faults >= 3
      <4>1. CASE Has(Errors, rx)
        BY <1>2, <2>1, <4>1 DEF LateForm
      <4>2. CASE c \in Forms
        BY <1>2, <3>1, <4>2
      <4> QED
        BY <1>3, <4>1, <4>2 DEF NewAnswers
    <3>3. Has(Talked, rx') /\ Has(Forms, tx') => faults >= 3
      BY <1>2, <1>3, <2>1 DEF LateForm, Untold
    <3> QED
      BY <1>2, <3>1, <3>2, <3>3
  <2> QED
    BY <1>1, <1>6, <2>2, <2>3, <2>4, <2>5, <2>6 DEF LateForm
<1>13. LateDlc'
  <2> SUFFICES ASSUME host.pc = "dlc"
               PROVE  LateDlc'
    BY <1>1 DEF LateDlc
  <2>1. LateDlc
    BY DEF InOrder, Late
  <2>2. /\ Before(Control, Ends, tx') => faults >= 3
        /\ Has(Texts, tx') => faults >= 1
        /\ Before(Control, Texts, tx') => faults >= 2
        /\ Before(Others, Control, tx') => faults >= 1
        /\ host.ch > 1 /\ Has(Control, tx') => faults >= 1
        /\ Before(Control, Forms, tx') => faults >= 3
        /\ host.recovering /\ Has(Forms, tx') => faults >= 2
    BY <1>2, <2>1 DEF LateDlc
  <2>3. Has(Texts, tx') /\ (Has(Ua(0), Queue') \/ host.ch # 0) => faults >= 2
    <3>1. CASE Has(Ua(0), Queue) \/ host.ch # 0
      BY <1>2, <2>1, <3>1 DEF LateDlc
    <3>2. CASE c \in Control
      BY <1>2, <2>1, <3>2 DEF LateDlc
    <3> QED
      BY <1>3, <3>1, <3>2 DEF NewChannels
  <2>4. Has(Forms, tx') /\ (Has(Ua(0), Queue') \/ host.ch # 0) => faults >= 3
    <3>1. CASE Has(Ua(0), Queue) \/ host.ch # 0
      BY <1>2, <2>1, <3>1 DEF LateDlc
    <3>2. CASE c \in Control
      BY <1>2, <2>1, <3>2 DEF LateDlc
    <3> QED
      BY <1>3, <3>1, <3>2 DEF NewChannels
  <2>5. Has(Talked, Queue') => Has(Talked, Queue)
    BY <1>3 DEF Untold
  <2>6. /\ Has(Texts, tx') /\ Has(Talked, Queue') /\ host.n = 2 => faults >= 2
        /\ host.recovering /\ Has(Forms, tx') /\ Has(Talked, Queue') => faults >= 3
    BY <1>2, <2>1, <2>5 DEF LateDlc
  <2>7. host.ch = 0 /\ (Has(Others, tx') \/ Has(Elsewhere, Queue')) => faults >= 1
    BY <1>2, <1>3, <2>1 DEF LateDlc, NewAnswers
  <2>8. Has(Elsewhere, Queue') /\ Has(Control, tx') => faults >= 1
    <3>1. CASE Has(Elsewhere, Queue)
      BY <1>2, <2>1, <3>1 DEF LateDlc
    <3>2. CASE c \in Others
      BY <1>2, <2>1, <3>2 DEF LateDlc
    <3> QED
      BY <1>3, <3>1, <3>2 DEF NewAnswers
  <2> QED
    BY <1>1, <2>2, <2>3, <2>4, <2>6, <2>7, <2>8 DEF LateDlc
<1>14. LateProbe'
  <2> SUFFICES ASSUME host.pc = "probe", host.n > 0
               PROVE  LateProbe'
    BY <1>1 DEF LateProbe
  <2>1. LateProbe /\ LateUp
    BY DEF InOrder, Late
  <2>2. Before(Texts, Letters, tx') => faults >= 1
    BY <1>2, <2>1 DEF LateProbe
  <2>3. tx' # <<>> => Has(Letters, tx')
    <3>1. ASSUME tx' # <<>> PROVE Has(Letters, tx')
      <4>1. tx' \in Seq(Letters)
        BY <1>2, Written, TailWithin DEF ModemStep
      <4>2. Head(tx') \in Letters
        BY <3>1, <4>1
      <4> QED
        BY <3>1, <4>1, <4>2, Taken
    <3> QED
      BY <3>1
  <2>4. Has(Oks, rx') /\ tx' # <<>> => faults >= 1
    <3>1. CASE Has(Oks, rx)
      BY <1>2, <2>1, <3>1 DEF LateProbe
    <3>2. CASE c \in Texts
      BY <1>2, <2>1, <2>3, <3>2 DEF LateProbe
    <3> QED
      BY <1>3, <3>1, <3>2 DEF NewAnswers
  <2>5. Has(Oks, rx') /\ Before(Control, Ends, tx') => faults >= 2
    <3>1. CASE Has(Oks, rx)
      BY <1>2, <2>1, <3>1 DEF LateProbe
    <3>2. ASSUME c \in Texts, Before(Control, Ends, tx') PROVE faults >= 2
      <4>1. Has(Control, tx')
        <5>1. tx' \in Seq(Letters)
          BY <1>2, Written, TailWithin DEF ModemStep
        <5> QED
          BY <3>2, <5>1, Holds
      <4>2. Before(Texts, Control, tx)
        BY <1>2, <3>2, <4>1
      <4> QED
        BY <2>1, <4>2 DEF LateUp, Ending
    <3> QED
      BY <1>3, <3>1, <3>2 DEF NewAnswers
  <2> QED
    BY <1>1, <2>2, <2>4, <2>5 DEF LateProbe
<1>15. Granted'
  <2> SUFFICES ASSUME faults <= 2, ~hist.cut PROVE Granted'
    BY <1>1 DEF Granted
  <2>1. Granted
    BY DEF InOrder
  <2>2. Live => Live' /\ modem.open \subseteq modem'.open
    BY <1>1, <1>2, <1>3 DEF NewMode, Live
  <2>3. host.pc \in {"resp", "dlc"} =>
          /\ Has(Ua(0), Queue') => Live'
          /\ \A d \in Data : Before(Ua(0), Ua(d), Queue') => d \in modem'.open
    <3> SUFFICES ASSUME host.pc \in {"resp", "dlc"}
                 PROVE  /\ Has(Ua(0), Queue') => Live'
                        /\ \A d \in Data : Before(Ua(0), Ua(d), Queue') => d \in modem'.open
      OBVIOUS
    <3>1. Has(Ua(0), Queue) => Live
      BY <2>1 DEF Granted
    <3>2. c \in Control => ~Has(Ends, tx')
      <4>1. Before(Control, Ends, tx) => faults >= 3
        BY DEF InOrder, Late, LateResp, LateDlc
      <4> QED
        BY <1>1, <1>2, <4>1
    <3>3. Has(Ua(0), Queue') => Live'
      BY <1>1, <1>3, <2>2, <3>1, <3>2 DEF NewChannels, Live
    <3>4. ASSUME NEW d \in Data, Before(Ua(0), Ua(d), Queue') PROVE d \in modem'.open
      <4>1. CASE Before(Ua(0), Ua(d), Queue)
        <5>1. d \in modem.open
          BY <2>1, <4>1 DEF Granted
        <5>2. Has(Ua(0), Queue)
          <6>1. Queue \in Seq(Answers)
            BY FramesAnswer, Joined DEF Types, Hosts, Queue
          <6> QED
            BY <4>1, <6>1, Holds
        <5> QED
          BY <2>2, <3>1, <5>1, <5>2
      <4>2. CASE Has(Ua(0), Queue) /\ (Live => d \in modem'.open)
        BY <3>1, <4>2
      <4> QED
        BY <1>3, <3>4, <4>1, <4>2 DEF NewChannels
    <3> QED
      BY <3>3, <3>4
  <2>4. host.pc \in {"dlc", "up"} =>
          \A d \in Dlci : host.dlc[d] => Live' /\ d \in modem'.open
    BY <2>1, <2>2 DEF Granted
  <2>5. host.pc = "dlc" /\ host.dlc[0] =>
          \A d \in Data : Has(Ua(d), Queue') => d \in modem'.open
    <3> SUFFICES ASSUME host.pc = "dlc", host.dlc[0], NEW d \in Data, Has(Ua(d), Queue')
                 PROVE  d \in modem'.open
      OBVIOUS
    <3>1. Live
      BY <2>1, Channel0 DEF Granted
    <3>2. Has(Ua(d), Queue) => d \in modem.open
      BY <2>1 DEF Granted
    <3> QED
      BY <1>3, <2>2, <3>1, <3>2 DEF NewChannels
  <2> QED
    BY <1>1, <2>3, <2>4, <2>5 DEF Granted
<1>16. Probed'
  <2> SUFFICES ASSUME faults <= 2, host.pc = "probe", host.n > 0, Has(Ok, rx')
               PROVE  modem'.mode = "at" /\ (modem'.baud = host.baud \/ hist.cut)
    BY <1>1 DEF Probed
  <2>1. c \notin Forms
    <3>1. Has(Forms, tx) => faults >= 3
      BY DEF InOrder, Late, LateUp, Ending
    <3> QED
      BY <1>1, <1>2, <3>1
  <2>2. modem.mode = "at" /\ (modem.baud = host.baud \/ hist.cut)
    <3>1. CASE Has(Ok, rx)
      BY <3>1 DEF InOrder, Probed
    <3>2. CASE ~InMux /\ host.baud = modem.baud
      BY <3>2 DEF InMux, Types, Modems
    <3> QED
      BY <1>3, <3>1, <3>2 DEF NewAnswers
  <2>3. modem' = modem
    BY <1>3, <2>1, <2>2 DEF NewMode, InMux
  <2> QED
    BY <2>2, <2>3
<1> QED
  BY <1>7, <1>8, <1>9, <1>10, <1>11, <1>12, <1>13, <1>14, <1>15, <1>16 DEF InOrder, Late

-----------------------------------------------------------------------------
(* What holds until the third thing goes wrong                              *)

LEMMA OrderInit ==
    ASSUME Init
    PROVE  InOrder
<1>1. /\ host.pc = "off" /\ host.frames = <<>> /\ host.dlc = None
      /\ ~host.recovering /\ ~host.established
      /\ tx = <<>> /\ rx = <<>> /\ ~hist.cut /\ Queue = <<>>
  BY DEF Init, Fresh, None, History, Queue
<1>2. \A K, L : ~Has(K, tx) /\ ~Before(K, L, tx) /\ ~Has(K, rx)
                /\ ~Has(K, Queue) /\ ~Before(K, L, Queue)
  BY <1>1, Nothing
<1>3. ~None[0]
  BY Channel0 DEF None
<1> QED
  BY <1>1, <1>2, <1>3
     DEF InOrder, Shape, Noise, Late, LateIdle, LateWarmup, LateResp, LateForm, LateDlc,
         LateUp, LateProbe, Ending, Granted, Probed

LEMMA OrderStep ==
    ASSUME Channels # 0, Types, Types', InOrder, [Next]_vars
    PROVE  InOrder'
<1>1. CASE UNCHANGED vars
  BY <1>1, StillOrder
<1>2. CASE Start \/ Quit
  BY <1>2, StartOrder, QuitOrder
<1>3. CASE InitStep
  BY <1>3, WarmupOrder, RetryOrder, ResponseOrder, EstablishOrder DEF InitStep
<1>4. CASE CloseStep
  BY <1>4, CloseOrder, DiscOrder, ProbeAgainOrder, ProbeAnsweredOrder, ProbeFailedOrder,
     ClosePortOrder DEF CloseStep
<1>5. CASE Read \/ LinkDown \/ Reinit
  BY <1>5, ReadOrder, LinkDownOrder, ReinitOrder
<1>6. CASE ModemStep
  BY <1>6, ModemOrder
<1>7. CASE Environment
  BY <1>7, LoseOrder, TalkOrder, RestartOrder, KillOrder DEF Environment
<1> QED
  BY <1>1, <1>2, <1>3, <1>4, <1>5, <1>6, <1>7 DEF Next, HostStep

LEMMA OrderAlways ==
    ASSUME Channels # 0
    PROVE  Spec => []InOrder
<1>1. Types /\ Types' /\ InOrder /\ [Next]_vars => InOrder'
  BY OrderStep
<1> QED
  BY <1>1, OrderInit, TypesAlways, PTL DEF Spec

(* As long as no more than two things have gone wrong, over any number of   *)
(* sessions and recoveries and whatever the options and the modem: a        *)
(* channel that establish_dlc() has marked available is open in the modem's *)
(* multiplexer at the host's speed. Without data channels there is no CMUX  *)
(* mode (modem_harness.py sets channels to 0 for the serial mode only).     *)
THEOREM FewFaultsUsable ==
    ASSUME Channels # 0
    PROVE  Spec => [](faults <= 2 => UsableGranted)
<1>1. Types /\ InOrder => (faults <= 2 => UsableGranted)
  <2> SUFFICES ASSUME Types, InOrder, faults <= 2, host.pc \in {"dlc", "up"}, ~hist.cut,
                      NEW d \in Dlci, host.dlc[d]
               PROVE  modem.mode = "mux" /\ d \in modem.open /\ modem.baud = host.baud
    BY DEF UsableGranted
  <2>1. Live /\ d \in modem.open
    BY DEF InOrder, Granted
  <2> QED
    BY <2>1 DEF Live, InMux
<1> QED
  BY <1>1, OrderAlways, TypesAlways, PTL

(* When at most two things go wrong, close() says "returned to AT command   *)
(* mode" only of a modem that is in AT mode at the port's speed: the "OK"   *)
(* it has seen is not that of a command sent before its probe.              *)
THEOREM FewFaultsReport ==
    ASSUME Channels # 0, MaxFaults <= 2
    PROVE  Spec => ReportTrue
<1> DEFINE A == hist'.report = "at" /\ hist.report # "at" /\ "UIH_OK" \notin hist.text =>
                    modem.mode = "at" /\ (modem.baud = host.baud \/ hist.cut)
<1>1. ASSUME Types, InOrder, Next PROVE A
  <2> SUFFICES ASSUME hist'.report = "at", hist.report # "at", "UIH_OK" \notin hist.text
               PROVE  modem.mode = "at" /\ (modem.baud = host.baud \/ hist.cut)
    OBVIOUS
  <2>1. hist \in Histories /\ faults <= 2
    BY <1>1, MuxAssumption DEF Types
  <2>2. CASE ProbeAnswered
    <3>1. host.pc = "probe" /\ host.n > 0 /\ Has(Oks, rx)
      BY <1>1, <2>2, Texting DEF ProbeAnswered
    <3>2. Has(Ok, rx) \/ Has(UihOk, rx)
      BY <3>1 DEF Has, Oks, Ok, UihOk
    <3>3. ~Has(UihOk, rx)
      BY <1>1 DEF InOrder, Noise
    <3> QED
      BY <1>1, <2>1, <3>1, <3>2, <3>3 DEF InOrder, Probed
  <2>3. CASE ~ProbeAnswered
    <3>1. hist'.report \in {hist.report, "none", "stuck", "killed"}
      <4>1. CASE Start
        BY <4>1 DEF Start, History
      <4>2. CASE Quit \/ LinkDown \/ ProbeFailed \/ Talk \/ Restart \/ Kill
        BY <2>1, <4>2 DEF Quit, LinkDown, ProbeFailed, Talk, Restart, Kill, Histories
      <4>3. CASE InitStep \/ Close \/ Disc \/ ProbeAgain \/ ClosePort \/ Read \/ Reinit
                 \/ ModemStep \/ Lose
        BY <4>3 DEF InitStep, Warmup, RetryBare, Response, Establish, Close, Disc, ProbeAgain,
                    ClosePort, Read, Reinit, ModemStep, Lose
      <4> QED
        BY <1>1, <2>3, <4>1, <4>2, <4>3 DEF Next, HostStep, CloseStep, Environment
    <3> QED
      BY <3>1
  <2> QED
    BY <2>2, <2>3
<1>2. ASSUME UNCHANGED vars PROVE A
  BY <1>2 DEF vars
<1>3. Types /\ InOrder /\ [Next]_vars => [A]_vars
  BY <1>1
<1> QED
  BY <1>3, OrderAlways, TypesAlways, PTL DEF Spec, ReportTrue
=============================================================================
