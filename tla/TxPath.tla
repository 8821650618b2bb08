------------------------------- MODULE TxPath -------------------------------
(***************************************************************************)
(* The transmit path of the CMUX transport: sender threads cut packets     *)
(* into chunks of at most N1 bytes, pass each chunk through the MSC flow   *)
(* control gate of CmuxTransport.send() and hand it to the write cache;    *)
(* the reader thread applies the modem's MSC commands; the keepalive       *)
(* thread probes and, during a recovery, resets the flow-control state.    *)
(* The modem and the serial line are external.                             *)
(***************************************************************************)
EXTENDS WriteCache, FiniteSets

CONSTANTS
    Sender,         \* the sending threads: PPP engine, TUN forwarder, console
    Dlci,           \* data channels
    DlciOf,         \* the channel each sender sends on
    PacketLens,     \* packet lengths each sender may send
    CtrlLen,        \* length of a control message (TEST, MSC response, CLD)
    KeepaliveOn,    \* keepalive interval > 0
    MaxPackets,     \* bound: packets of a sender
    MaxMsc,         \* bound: MSC commands of the modem
    MaxPauses,      \* bound: dial or disconnect sequences
    MaxRecoveries   \* bound: link recoveries

ASSUME TxAssumption ==
    /\ Source = Sender \union {Ctrl} /\ Ctrl \notin Sender
    /\ IsFiniteSet(Sender)
    /\ DlciOf \in [Sender -> Dlci]
    /\ PacketLens \in [Sender -> SUBSET (Nat \ {0})]
    /\ CtrlLen \in Nat /\ WireSize(CtrlLen) < FullFrameSize
    /\ KeepaliveOn \in BOOLEAN
    /\ {MaxPackets, MaxMsc, MaxPauses, MaxRecoveries} \subseteq Nat

VARIABLES
    pc,             \* where each sender is in send()
    job,            \* the packet each sender is cutting up, [pkt, len, off]
    allowed,        \* frame_allowed
    reader,         \* the reader thread: [pc, batch, old]
    paused,         \* `dialing': another thread owns the receive side
    rec,            \* the keepalive thread's place in _recover_link()
    modemAllow,     \* external: what the modem last asked for, per channel
    rx,             \* external: MSC commands in the serial receive buffer
    count,          \* how often each bounded thing has happened
    lost,           \* history: channels with an MSC command that was discarded
    leak            \* history: frames accepted on a channel since it was blocked

txVars == <<pc, job, allowed, reader, paused, rec, modemAllow, rx, count, lost, leak>>
vars == <<cacheVars, txVars>>

SendPc == {"idle", "gate", "cond", "waiting", "expired", "tx", "dead"}
MscCmd == [dlci : Dlci, allow : BOOLEAN]
Bounded == {"msc", "pause", "recover"}

CtrlFrame == [src |-> Ctrl, pkt |-> 0, off |-> 0, len |-> CtrlLen]

Chunk(s) ==     \* frame[offset:offset + frame_max]
    [src |-> s, pkt |-> job[s].pkt, off |-> job[s].off,
     len |-> IF job[s].len - job[s].off < N1 THEN job[s].len - job[s].off ELSE N1]

(* Where the fragmentation loop goes once send() has returned for a chunk. *)
NextChunk(s) ==
    /\ job' = [job EXCEPT ![s].off = @ + Chunk(s).len]
    /\ pc' = [pc EXCEPT ![s] = IF job'[s].off < job[s].len THEN "gate" ELSE "idle"]

Senders(d) == {s \in Sender : DlciOf[s] = d}
InTx(d) == {s \in Senders(d) : pc[s] = "tx"}

Woken == [s \in Sender |-> IF pc[s] = "waiting" THEN "cond" ELSE pc[s]]

TxInit ==
    /\ CacheInit
    /\ pc = [s \in Sender |-> "idle"]
    /\ job = [s \in Sender |-> [pkt |-> 0, len |-> 0, off |-> 0]]
    /\ allowed = [d \in Dlci |-> TRUE]
    /\ reader = [pc |-> "top", batch |-> <<>>, old |-> FALSE]
    /\ paused = FALSE /\ rec = "none"
    /\ modemAllow = [d \in Dlci |-> TRUE]
    /\ rx = <<>>
    /\ count = [b \in Bounded |-> 0]
    /\ lost = {} /\ leak = [d \in Dlci |-> 0]

-----------------------------------------------------------------------------
(* Sender threads: _send_ppp() / _tun_forward() around CmuxTransport.send()  *)

NewPacket(s, n) ==
    /\ pc[s] = "idle" /\ job[s].pkt < MaxPackets
    /\ job' = [job EXCEPT ![s] = [pkt |-> job[s].pkt + 1, len |-> n, off |-> 0]]
    /\ pc' = [pc EXCEPT ![s] = "gate"]
    /\ UNCHANGED <<cacheVars, allowed, reader, paused, rec, modemAllow, rx, count, lost, leak>>

Gate(s) ==          \* the first look at frame_allowed, without the condition
    /\ pc[s] = "gate"
    /\ pc' = [pc EXCEPT ![s] = IF allowed[DlciOf[s]] THEN "tx" ELSE "cond"]
    /\ UNCHANGED <<cacheVars, job, allowed, reader, paused, rec, modemAllow, rx, count, lost, leak>>

(* Mutant: the loop around wait() written as an if.                         *)
CondCheckOnce(s) ==
    /\ pc[s] = "cond"
    /\ pc' = [pc EXCEPT ![s] = "tx"]
    /\ UNCHANGED <<cacheVars, job, allowed, reader, paused, rec, modemAllow, rx, count, lost, leak>>

CondCheck(s) ==     \* the while test, under _fc_cond, before the deadline
    /\ pc[s] = "cond"
    /\ pc' = [pc EXCEPT ![s] = IF allowed[DlciOf[s]] THEN "tx" ELSE "waiting"]
    /\ UNCHANGED <<cacheVars, job, allowed, reader, paused, rec, modemAllow, rx, count, lost, leak>>

(* Mutant: wait() without a timeout. *)
FcTimeoutNever(s) == FALSE /\ UNCHANGED vars

FcTimeout(s) ==     \* FC_WAIT_TIMEOUT has passed since the call
    /\ pc[s] \in {"cond", "waiting"}
    /\ pc' = [pc EXCEPT ![s] = "expired"]
    /\ UNCHANGED <<cacheVars, job, allowed, reader, paused, rec, modemAllow, rx, count, lost, leak>>

Expired(s) ==       \* the while test after the deadline: send, or drop and count
    /\ pc[s] = "expired"
    /\ IF allowed[DlciOf[s]]
       THEN pc' = [pc EXCEPT ![s] = "tx"] /\ UNCHANGED job
       ELSE NextChunk(s)
    /\ UNCHANGED <<cacheVars, allowed, reader, paused, rec, modemAllow, rx, count, lost, leak>>

Transmit(s) ==      \* send_uih(); an exception of the write ends the thread
    /\ pc[s] = "tx"
    /\ SendRaw(Chunk(s))
    /\ IF portOk' THEN NextChunk(s)
       ELSE pc' = [pc EXCEPT ![s] = "dead"] /\ UNCHANGED job
    /\ leak' = IF allowed[DlciOf[s]] THEN leak
               ELSE [leak EXCEPT ![DlciOf[s]] = @ + 1]
    /\ UNCHANGED <<allowed, reader, paused, rec, modemAllow, rx, count, lost>>

-----------------------------------------------------------------------------
(* The reader thread: _reader_loop(), _dispatch_frame(), _handle_msc()       *)

ReaderCheck ==
    /\ reader.pc = "top" /\ ~paused /\ rec = "none"
    /\ reader' = [reader EXCEPT !.pc = "read"]
    /\ UNCHANGED <<cacheVars, pc, job, allowed, paused, rec, modemAllow, rx, count, lost, leak>>

ReaderRead ==
    /\ reader.pc = "read"
    /\ reader' = [pc |-> IF rx = <<>> THEN "top" ELSE "msc", batch |-> rx, old |-> FALSE]
    /\ rx' = <<>>
    /\ UNCHANGED <<cacheVars, pc, job, allowed, paused, rec, modemAllow, count, lost, leak>>

ReaderApply ==      \* under _fc_cond: the assignment and the notify_all()
    /\ reader.pc = "msc"
    /\ LET m == Head(reader.batch) IN
       /\ allowed' = [allowed EXCEPT ![m.dlci] = m.allow]
       /\ pc' = IF m.allow THEN Woken ELSE pc
       /\ leak' = IF allowed[m.dlci] THEN [leak EXCEPT ![m.dlci] = 0] ELSE leak
       /\ lost' = IF reader.old \/ rec # "none" THEN lost \union {m.dlci} ELSE lost
    /\ reader' = [reader EXCEPT !.pc = "reply"]
    /\ UNCHANGED <<cacheVars, job, paused, rec, modemAllow, rx, count>>

(* Mutant: one get_frame() for each read, the rest of the batch forgotten.  *)
ReaderReplyOnce ==
    /\ reader.pc = "reply"
    /\ SendRaw(CtrlFrame)
    /\ reader' = [pc |-> IF portOk' THEN "top" ELSE "dead", batch |-> <<>>, old |-> FALSE]
    /\ UNCHANGED <<pc, job, allowed, paused, rec, modemAllow, rx, count, lost, leak>>

ReaderReply ==      \* the MSC response; an exception ends the reader loop
    /\ reader.pc = "reply"
    /\ SendRaw(CtrlFrame)
    /\ LET rest == Tail(reader.batch) IN
       reader' = [pc    |-> IF ~portOk' THEN "dead" ELSE IF rest = <<>> THEN "top" ELSE "msc",
                  batch |-> rest, old |-> reader.old]
    /\ UNCHANGED <<pc, job, allowed, paused, rec, modemAllow, rx, count, lost, leak>>

-----------------------------------------------------------------------------
(* A dial or disconnect sequence: `dialing' pauses the reader, and the        *)
(* thread that set it reads the port itself and keeps only what it waits for. *)

Pause ==
    /\ ~paused /\ count["pause"] < MaxPauses
    /\ paused' = TRUE
    /\ count' = [count EXCEPT !["pause"] = @ + 1]
    /\ UNCHANGED <<cacheVars, pc, job, allowed, reader, rec, modemAllow, rx, lost, leak>>

DiscardRx ==
    /\ paused /\ rx # <<>>
    /\ rx' = Tail(rx)
    /\ lost' = lost \union {Head(rx).dlci}
    /\ UNCHANGED <<cacheVars, pc, job, allowed, reader, paused, rec, modemAllow, count, leak>>

Resume ==
    /\ paused
    /\ paused' = FALSE
    /\ UNCHANGED <<cacheVars, pc, job, allowed, reader, rec, modemAllow, rx, count, lost, leak>>

-----------------------------------------------------------------------------
(* The keepalive thread: TEST probes, and _recover_link()                    *)

(* Mutant: the probe is put off while data is queued. *)
ProbeIdleOnly ==
    /\ KeepaliveOn /\ rec = "none" /\ ~paused /\ portOk /\ cache # <<>>
    /\ cacheFrames = 0
    /\ SendRaw(CtrlFrame)
    /\ UNCHANGED txVars

(* A probe sent while the cache is empty changes nothing but the history of *)
(* the wire, and is left out.                                              *)
Probe ==
    /\ KeepaliveOn /\ rec = "none" /\ ~paused /\ portOk /\ cache # <<>>
    /\ SendRaw(CtrlFrame)
    /\ UNCHANGED txVars

RecBegin ==
    /\ KeepaliveOn /\ rec = "none" /\ ~paused /\ portOk
    /\ count["recover"] < MaxRecoveries
    /\ rec' = "reset"
    /\ count' = [count EXCEPT !["recover"] = @ + 1]
    /\ UNCHANGED <<cacheVars, pc, job, allowed, reader, paused, modemAllow, rx, lost, leak>>

(* Mutant: the frame the reader is at goes with the old parser. *)
RecResetDropsCurrent ==
    /\ rec = "reset"
    /\ allowed' = [d \in Dlci |-> TRUE]
    /\ reader' = [reader EXCEPT !.batch = <<>>, !.old = TRUE]
    /\ rec' = "notify"
    /\ UNCHANGED <<cacheVars, pc, job, paused, modemAllow, rx, count, lost, leak>>

(* A fresh parser (what the reader has not taken from it yet is gone) and   *)
(* a fresh frame_allowed, the latter assigned without _fc_cond.            *)
RecReset ==
    /\ rec = "reset"
    /\ allowed' = [d \in Dlci |-> TRUE]
    /\ reader' = IF reader.pc \in {"msc", "reply"}
                 THEN [reader EXCEPT !.batch = <<Head(@)>>, !.old = TRUE] ELSE reader
    /\ rec' = "notify"
    /\ UNCHANGED <<cacheVars, pc, job, paused, modemAllow, rx, count, lost, leak>>

(* Mutant: frame_allowed replaced without a notify_all(). *)
RecNotifyMissing ==
    /\ rec = "notify"
    /\ rec' = "cld"
    /\ UNCHANGED <<cacheVars, pc, job, allowed, reader, paused, modemAllow, rx, count, lost, leak>>

RecNotify ==
    /\ rec = "notify"
    /\ pc' = Woken
    /\ rec' = "cld"
    /\ UNCHANGED <<cacheVars, job, allowed, reader, paused, modemAllow, rx, count, lost, leak>>

RecCld ==           \* CLD, then reset_input_buffer(); an exception is swallowed
    /\ rec = "cld"
    /\ SendRaw(CtrlFrame)
    /\ rx' = IF portOk' THEN <<>> ELSE rx
    /\ rec' = "init"
    /\ UNCHANGED <<pc, job, allowed, reader, paused, modemAllow, count, lost, leak>>

(* init_cmux(), which reads the port itself and drops what it does not wait *)
(* for: the modem restarts its mux with every channel allowed, except those *)
(* it blocked again while init_cmux() was reading; or the attempt fails.    *)
RecInit ==
    /\ rec = "init"
    /\ SendRaw(CtrlFrame)
    /\ \/ /\ portOk'
          /\ \E blocked \in SUBSET Dlci :
                /\ modemAllow' = [d \in Dlci |-> d \notin blocked]
                /\ lost' = lost \union blocked
       \/ /\ UNCHANGED modemAllow
          /\ lost' = Dlci
    /\ rx' = <<>>
    /\ reader' = [reader EXCEPT !.old = reader.pc \in {"msc", "reply"}]
    /\ rec' = "none"
    /\ UNCHANGED <<pc, job, allowed, paused, count, leak>>

-----------------------------------------------------------------------------
(* External: the modem sends an MSC command for a channel.                   *)
ModemMsc(d, a) ==
    /\ count["msc"] < MaxMsc
    /\ modemAllow' = [modemAllow EXCEPT ![d] = a]
    /\ rx' = Append(rx, [dlci |-> d, allow |-> a])
    /\ count' = [count EXCEPT !["msc"] = @ + 1]
    /\ UNCHANGED <<cacheVars, pc, job, allowed, reader, paused, rec, lost, leak>>

-----------------------------------------------------------------------------
SenderStep(s) == Gate(s) \/ CondCheck(s) \/ FcTimeout(s) \/ Expired(s) \/ Transmit(s)
ReaderStep == ReaderCheck \/ ReaderRead \/ ReaderApply \/ ReaderReply
RecStep == RecReset \/ RecNotify \/ RecCld \/ RecInit

Next ==
    \/ \E s \in Sender : SenderStep(s) \/ \E n \in PacketLens[s] : NewPacket(s, n)
    \/ ReaderStep
    \/ Pause \/ DiscardRx \/ Resume
    \/ Probe \/ RecBegin \/ RecStep
    \/ \E d \in Dlci, a \in BOOLEAN : ModemMsc(d, a)

(* Threads that can run do; a timeout expires; a dial sequence ends.  New   *)
(* packets, MSC commands, dials and link failures are up to the world.      *)
Fairness ==
    /\ \A s \in Sender : WF_vars(SenderStep(s))
    /\ WF_vars(ReaderStep)
    /\ WF_vars(Resume)
    /\ WF_vars(Probe) /\ WF_vars(RecStep)

Spec == TxInit /\ [][Next]_vars
FairSpec == Spec /\ Fairness

-----------------------------------------------------------------------------
(* Every variable has its type, and a reader about to apply an MSC command  *)
(* or to answer one has it at the head of its batch.                        *)
TypeOK ==
    /\ CacheType
    /\ pc \in [Sender -> SendPc]
    /\ job \in [Sender -> [pkt : Nat, len : Nat, off : Nat]]
    /\ allowed \in [Dlci -> BOOLEAN] /\ modemAllow \in [Dlci -> BOOLEAN]
    /\ reader \in [pc : {"top", "read", "msc", "reply", "dead"},
                   batch : Seq(MscCmd), old : BOOLEAN]
    /\ reader.pc \in {"msc", "reply"} => reader.batch # <<>>
    /\ paused \in BOOLEAN
    /\ rec \in {"none", "reset", "notify", "cld", "init"}
    /\ rx \in Seq(MscCmd)
    /\ count \in [Bounded -> Nat]
    /\ lost \subseteq Dlci /\ leak \in [Dlci -> Nat]

(* No lost wake-up in send(): a sender never sleeps on _fc_cond for a       *)
(* channel that is allowed, except between the two steps of a recovery that *)
(* first replaces frame_allowed and then notifies.                          *)
NoStrandedWaiter ==
    \A s \in Sender : pc[s] = "waiting" /\ allowed[DlciOf[s]] => rec = "notify"

(* The look at frame_allowed and the transmission are not atomic: a blocked *)
(* channel still gets the frames of senders already past the gate, and no   *)
(* more than one of each sender until it is allowed again.                  *)
BlockedLeakBounded ==
    \A d \in Dlci : ~allowed[d] => leak[d] <= Cardinality(Senders(d))

(* The local view of flow control follows the modem: once the reader has    *)
(* worked off what the modem sent, frame_allowed is what the modem asked    *)
(* for, on every channel none of whose MSC commands were thrown away by a   *)
(* dial, a disconnect or a recovery, or applied across one.                 *)
FcFollowsModem ==
    reader.pc \in {"top", "read"} /\ rx = <<>> /\ rec = "none"
        => \A d \in Dlci \ lost : allowed[d] = modemAllow[d]

(* The transmit path implements the FIFO the callers rely on: no frame is   *)
(* lost, repeated or overtaken between send_raw() and the wire, whatever    *)
(* the threads' interleaving and even when a write raises.                  *)
WireIsFifo == Fifo!FifoSpec

(* A call of send() returns (or its thread has ended with the device): the  *)
(* FC wait cannot hang the sender.                                          *)
SendReturns ==
    \A s \in Sender : pc[s] # "idle" ~> pc[s] \in {"idle", "dead"}

(* With the keepalive on, frames left in the cache reach the wire.          *)
CacheDrains == cache # <<>> ~> cache = <<>> \/ ~portOk

(* "each packet naturally drains in one write()" (send_raw() docstring): a  *)
(* sender whose packet is finished has nothing left in the cache.           *)
PacketDrains ==
    \A s \in Sender : pc[s] = "idle" /\ portOk
        => \A i \in 1..Len(cache) : cache[i].src # s
=============================================================================
