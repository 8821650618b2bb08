---------------------------- MODULE TxPathProofs ----------------------------
(***************************************************************************)
(* Theorems about the transmit path, for every set of senders and          *)
(* channels, every packet and frame size and every bound: the write cache, *)
(* and then MSC flow control: the wait on _fc_cond loses no wake-up, a     *)
(* blocked channel gets a bounded number of frames, and frame_allowed      *)
(* follows the modem.                                                      *)
(***************************************************************************)
EXTENDS TxPath, SequenceTheorems, FiniteSetTheorems, TLAPS

-----------------------------------------------------------------------------
(* send_raw(): what one call of it preserves, for every frame size, cache  *)
(* size and set of sources.                                                *)

(* The four ways a call of send_raw() can end: the frame is only cached,    *)
(* the cache is written, or writing it raises before or after the bytes     *)
(* have left.                                                              *)
LEMMA SendRawCases ==
    ASSUME CacheType, NEW f \in Frame, SendRaw(f)
    PROVE  /\ sent' = Append(sent, f)
           /\ \/ /\ WireSize(f.len) >= FullFrameSize /\ cacheFrames + 1 < CacheFrames
                 /\ cache' = Append(cache, f) /\ cacheFrames' = cacheFrames + 1
                 /\ wire' = wire /\ portOk' = portOk
              \/ /\ portOk /\ wire' = wire \o Append(cache, f)
                 /\ cache' = <<>> /\ cacheFrames' = 0 /\ portOk' = portOk
              \/ /\ wire' = wire
                 /\ cache' = Append(cache, f) /\ cacheFrames' = cacheFrames + 1
                 /\ portOk' = FALSE
              \/ /\ portOk /\ wire' = wire \o Append(cache, f)
                 /\ cache' = Append(cache, f) /\ cacheFrames' = cacheFrames + 1
                 /\ portOk' = FALSE
<1>1. WireSize(f.len) \in Int /\ FullFrameSize \in Int /\ CacheFrames \in Int
  BY CacheAssumption DEF WireSize, FullFrameSize, N1, Frame
<1>2. cacheFrames + 1 \in Int
  BY DEF CacheType
<1>3. \/ WireSize(f.len) < FullFrameSize \/ cacheFrames + 1 >= CacheFrames
      \/ WireSize(f.len) >= FullFrameSize /\ cacheFrames + 1 < CacheFrames
  BY <1>1, <1>2
<1>4. ASSUME NEW c, NEW n, FlushCache(c, n)
      PROVE  \/ portOk /\ wire' = wire \o c /\ cache' = <<>> /\ cacheFrames' = 0 /\ portOk' = portOk
             \/ wire' = wire /\ cache' = c /\ cacheFrames' = n /\ portOk' = FALSE
             \/ portOk /\ wire' = wire \o c /\ cache' = c /\ cacheFrames' = n /\ portOk' = FALSE
  BY <1>4 DEF FlushCache
<1> QED
  BY <1>3, <1>4 DEF SendRaw

(* send_raw() keeps the types of the cache and of the two histories.        *)
LEMMA SendRawType ==
    ASSUME CacheType, NEW f \in Frame, SendRaw(f)
    PROVE  CacheType'
<1> DEFINE c == Append(cache, f)
<1>1. c \in Seq(Frame) /\ Append(sent, f) \in Seq(Frame)
  BY DEF CacheType
<1>2. wire \o c \in Seq(Frame)
  BY <1>1 DEF CacheType
<1>3. <<>> \in Seq(Frame)
  OBVIOUS
<1>4. cacheFrames + 1 \in Nat /\ 0 \in Nat /\ wire \in Seq(Frame)
  BY DEF CacheType
<1>5. /\ cache' \in {c, <<>>} /\ wire' \in {wire, wire \o c} /\ sent' = Append(sent, f)
      /\ cacheFrames' \in {cacheFrames + 1, 0} /\ (portOk' = portOk \/ portOk' = FALSE)
  BY SendRawCases
<1>6. portOk' \in BOOLEAN
  BY <1>5 DEF CacheType
<1> HIDE DEF c
<1> QED
  BY <1>1, <1>2, <1>3, <1>4, <1>5, <1>6 DEF CacheType

(* send_raw() loses, repeats and reorders nothing: what is on the wire and  *)
(* what is cached make up what was accepted, until the device fails; from   *)
(* then on the wire keeps a prefix of it.                                   *)
LEMMA SendRawHoldsRest ==
    ASSUME CacheType, CacheHoldsRest, NEW f \in Frame, SendRaw(f)
    PROVE  CacheHoldsRest'
<1> DEFINE c == Append(cache, f)
<1>1. /\ c \in Seq(Frame) /\ Append(sent, f) \in Seq(Frame) /\ wire \o c \in Seq(Frame)
      /\ sent \in Seq(Frame) /\ wire \in Seq(Frame) /\ cache \in Seq(Frame)
  BY DEF CacheType
<1>2. sent = wire \o cache => Append(sent, f) = wire \o c
  <2> SUFFICES ASSUME sent = wire \o cache PROVE Append(sent, f) = wire \o c
    OBVIOUS
  <2>1. Len(wire \o cache) = Len(wire) + Len(cache) /\ Len(c) = Len(cache) + 1
    BY <1>1, ConcatProperties
  <2>2. ASSUME NEW i \in 1..Len(wire) + Len(cache) + 1
        PROVE  Append(sent, f)[i] = (wire \o c)[i]
    <3>1. (wire \o c)[i] = IF i <= Len(wire) THEN wire[i] ELSE c[i - Len(wire)]
      <4> HIDE DEF c
      <4> QED
        BY <1>1, <2>1, ConcatProperties
    <3>2. i <= Len(wire) + Len(cache)
          => (wire \o cache)[i] = IF i <= Len(wire) THEN wire[i] ELSE cache[i - Len(wire)]
      BY <1>1, ConcatProperties
    <3>3. Append(sent, f)[i] = IF i <= Len(sent) THEN sent[i] ELSE f
      BY <1>1, <2>1
    <3>4. i > Len(wire) => c[i - Len(wire)]
                           = IF i - Len(wire) <= Len(cache) THEN cache[i - Len(wire)] ELSE f
      BY <1>1, <2>1
    <3>5. Len(wire) \in Nat /\ Len(cache) \in Nat /\ Len(sent) = Len(wire) + Len(cache)
      BY <1>1, <2>1
    <3> QED
      BY <3>1, <3>2, <3>3, <3>4, <3>5
  <2> QED
    BY <1>1, <2>1, <2>2, SeqEqual, ConcatProperties
<1>3. \A s \in Seq(Frame) : SubSeq(s, 1, Len(s)) = s
  BY SubSeqFull
<1>4. wire = SubSeq(Append(sent, f), 1, Len(wire)) /\ Len(wire) <= Len(Append(sent, f))
  <2>1. Len(wire) \in Nat /\ Len(wire) <= Len(sent) /\ wire = SubSeq(sent, 1, Len(wire))
    BY <1>1 DEF CacheHoldsRest
  <2>2. SubSeq(Append(sent, f), 1, Len(wire)) = SubSeq(sent, 1, Len(wire))
    BY <1>1, <2>1
  <2> QED
    BY <1>1, <2>1, <2>2
<1>5. CASE wire' = wire /\ portOk' = FALSE
  BY <1>4, <1>5, SendRawCases DEF CacheHoldsRest
<1>6. CASE wire' = wire \o c /\ portOk /\ (portOk' = FALSE \/ cache' = <<>>)
  <2>1. sent' = wire'
    BY <1>2, <1>6, SendRawCases DEF CacheHoldsRest
  <2>2. wire' = SubSeq(sent', 1, Len(wire')) /\ Len(wire') <= Len(sent')
    BY <1>1, <1>3, <1>6, <2>1
  <2>3. portOk' => cache' = <<>>
    BY <1>6
  <2>4. wire' \o <<>> = wire'
    BY <1>1, <1>6, ConcatEmptySeq
  <2> QED
    BY <2>1, <2>2, <2>3, <2>4 DEF CacheHoldsRest
<1>7. CASE wire' = wire /\ cache' = c /\ portOk' = portOk
  BY <1>2, <1>4, <1>7, SendRawCases DEF CacheHoldsRest
<1> QED
  BY <1>5, <1>6, <1>7, SendRawCases

(* send_raw() holds back full-size frames only, and never CACHE_FRAMES of   *)
(* them: the length test and the count test together see to it.             *)
LEMMA SendRawHoldsFullFramesOnly ==
    ASSUME CacheType, OnlyFullFramesWait, NEW f \in Frame, SendRaw(f)
    PROVE  OnlyFullFramesWait'
<1> DEFINE c == Append(cache, f)
<1>1. /\ cache \in Seq(Frame) /\ c \in Seq(Frame) /\ Len(c) = Len(cache) + 1
      /\ Len(cache) \in Nat /\ CacheFrames \in Nat \ {0} /\ cacheFrames \in Nat
  BY CacheAssumption DEF CacheType
<1>2. CASE portOk' = FALSE
  BY <1>2 DEF OnlyFullFramesWait
<1>3. CASE cache' = <<>> /\ cacheFrames' = 0
  BY <1>1, <1>3 DEF OnlyFullFramesWait
<1>4. CASE /\ WireSize(f.len) >= FullFrameSize /\ cacheFrames + 1 < CacheFrames
           /\ cache' = c /\ cacheFrames' = cacheFrames + 1 /\ portOk' = portOk
  <2> SUFFICES ASSUME portOk
               PROVE  /\ cacheFrames' = Len(cache') /\ Len(cache') < CacheFrames
                      /\ \A i \in 1..Len(cache') : WireSize(cache'[i].len) >= FullFrameSize
    BY <1>4 DEF OnlyFullFramesWait, FullFrameSize, N1
  <2>1. cacheFrames = Len(cache) /\ Len(cache) < CacheFrames
    BY DEF OnlyFullFramesWait
  <2>2. cacheFrames' = Len(cache') /\ Len(cache') < CacheFrames
    BY <1>1, <1>4, <2>1
  <2>3. \A i \in 1..Len(cache) : c[i] = cache[i]
    BY <1>1
  <2>4. c[Len(cache) + 1] = f
    BY <1>1
  <2>5. WireSize(f.len) >= FullFrameSize
    BY <1>4, CacheAssumption DEF WireSize, FullFrameSize, N1, Frame
  <2>6. ASSUME NEW i \in 1..Len(cache')
        PROVE  WireSize(cache'[i].len) >= FullFrameSize
    <3>1. i \in 1..Len(cache) \/ i = Len(cache) + 1
      BY <1>1, <1>4
    <3>2. CASE i \in 1..Len(cache)
      BY <3>2, <1>4, <2>3 DEF OnlyFullFramesWait
    <3>3. CASE i = Len(cache) + 1
      BY <3>3, <1>4, <2>4, <2>5
    <3> QED
      BY <3>1, <3>2, <3>3
  <2> QED
    BY <2>2, <2>6
<1> QED
  BY <1>2, <1>3, <1>4, SendRawCases

(* One call of send_raw() is one step of the FIFO its callers rely on.      *)
LEMMA SendRawIsFifoStep ==
    ASSUME CacheType, CacheHoldsRest, NEW f \in Frame, SendRaw(f)
    PROVE  Fifo!FifoNext
<1>1. CacheHoldsRest' /\ CacheType'
  BY SendRawHoldsRest, SendRawType
<1>2. sent' = Append(sent, f) /\ sent \in Seq(Frame)
  BY SendRawCases DEF CacheType
<1>3. Fifo!Accept
  <2>1. Len(sent') = Len(sent) + 1 /\ sent'[Len(sent')] = f
    BY <1>2
  <2>2. SubSeq(sent', 1, Len(sent)) = SubSeq(sent, 1, Len(sent))
    BY <1>2
  <2>3. SubSeq(sent, 1, Len(sent)) = sent
    BY <1>2, SubSeqFull
  <2> QED
    BY <2>1, <2>2, <2>3 DEF Fifo!Accept
<1>4. Len(wire) <= Len(wire')
  <2>1. CASE wire' = wire
    BY <2>1 DEF CacheType
  <2>2. CASE wire' = wire \o Append(cache, f)
    BY <2>2 DEF CacheType
  <2> QED
    BY <2>1, <2>2, SendRawCases
<1> QED
  BY <1>1, <1>3, <1>4 DEF Fifo!FifoNext, CacheHoldsRest

-----------------------------------------------------------------------------
(* Types                                                                    *)

(* The fragmentation loop never runs past the end of its packet; without    *)
(* this the length of a chunk is not known to be a natural number.          *)
OffsetsOK == \A s \in Sender : job[s].off <= job[s].len

TypeInv == TypeOK /\ OffsetsOK

LEMMA ChunkIsFrame ==
    ASSUME TypeInv, NEW s \in Sender
    PROVE  /\ Chunk(s) \in Frame
           /\ job[s].off + Chunk(s).len \in Nat
           /\ job[s].off + Chunk(s).len <= job[s].len
<1>1. job[s].pkt \in Nat /\ job[s].len \in Nat /\ job[s].off \in Nat /\ job[s].off <= job[s].len
  BY DEF TypeInv, TypeOK, OffsetsOK
<1>2. N1 \in Nat
  BY CacheAssumption DEF N1
<1>3. s \in Source
  BY TxAssumption
<1> QED
  BY <1>1, <1>2, <1>3 DEF Chunk, Frame

LEMMA CtrlFrameIsFrame == CtrlFrame \in Frame
BY TxAssumption, CacheAssumption DEF CtrlFrame, Frame

(* Whatever NextChunk does, it keeps a sender in a place of its own.        *)
LEMMA NextChunkType ==
    ASSUME TypeInv, NEW s \in Sender, NextChunk(s)
    PROVE  /\ pc' \in [Sender -> SendPc]
           /\ job' \in [Sender -> [pkt : Nat, len : Nat, off : Nat]]
           /\ OffsetsOK'
<1>1. pc \in [Sender -> SendPc] /\ job \in [Sender -> [pkt : Nat, len : Nat, off : Nat]]
  BY DEF TypeInv, TypeOK
<1>2. job' = [job EXCEPT ![s].off = job[s].off + Chunk(s).len]
  BY DEF NextChunk
<1>3. job' \in [Sender -> [pkt : Nat, len : Nat, off : Nat]]
  BY <1>1, <1>2, ChunkIsFrame
<1>4. OffsetsOK'
  <2> SUFFICES ASSUME NEW t \in Sender PROVE job'[t].off <= job'[t].len
    BY DEF OffsetsOK
  <2>1. CASE t = s
    BY <1>1, <1>2, <2>1, ChunkIsFrame
  <2>2. CASE t # s
    BY <1>1, <1>2, <2>2 DEF OffsetsOK, TypeInv
  <2> QED
    BY <2>1, <2>2
<1>5. pc' \in [Sender -> SendPc]
  BY <1>1 DEF NextChunk, SendPc
<1> QED
  BY <1>3, <1>4, <1>5

LEMMA WokenType ==
    ASSUME pc \in [Sender -> SendPc]
    PROVE  Woken \in [Sender -> SendPc]
BY DEF Woken, SendPc

LEMMA CacheTypeUnchanged ==
    ASSUME CacheType, UNCHANGED cacheVars
    PROVE  CacheType'
BY DEF CacheType, cacheVars

LEMMA TypeInit == TxInit => TypeInv
<1> SUFFICES ASSUME TxInit PROVE TypeInv
  OBVIOUS
<1>1. CacheType
  BY DEF TxInit, CacheInit, CacheType
<1>2. job \in [Sender -> [pkt : Nat, len : Nat, off : Nat]] /\ OffsetsOK
  BY DEF TxInit, OffsetsOK
<1>3. /\ reader \in [pc : {"top", "read", "msc", "reply", "dead"},
                     batch : Seq(MscCmd), old : BOOLEAN]
      /\ reader.pc \in {"msc", "reply"} => reader.batch # <<>>
  BY DEF TxInit
<1>4. pc \in [Sender -> SendPc] /\ count \in [Bounded -> Nat]
  BY DEF TxInit, SendPc, Bounded
<1> QED
  BY <1>1, <1>2, <1>3, <1>4 DEF TxInit, TypeInv, TypeOK

LEMMA TypeNext == TypeInv /\ [Next]_vars => TypeInv'
<1> SUFFICES ASSUME TypeInv, [Next]_vars PROVE TypeInv'
  OBVIOUS
<1>0. /\ CacheType /\ pc \in [Sender -> SendPc] /\ OffsetsOK
      /\ job \in [Sender -> [pkt : Nat, len : Nat, off : Nat]]
  BY DEF TypeInv, TypeOK
<1>1. ASSUME NEW s \in Sender, NEW n \in PacketLens[s], NewPacket(s, n) PROVE TypeInv'
  <2>1. n \in Nat
    BY TxAssumption
  <2>2. CacheType'
    BY <1>0, <1>1, CacheTypeUnchanged DEF NewPacket
  <2>3. job' \in [Sender -> [pkt : Nat, len : Nat, off : Nat]] /\ OffsetsOK'
    BY <1>0, <1>1, <2>1 DEF NewPacket, OffsetsOK
  <2> QED
    BY <1>1, <2>2, <2>3 DEF NewPacket, TypeInv, TypeOK, SendPc
<1>2. ASSUME NEW s \in Sender, Gate(s) \/ CondCheck(s) \/ FcTimeout(s) PROVE TypeInv'
  <2>1. CacheType'
    BY <1>0, <1>2, CacheTypeUnchanged DEF Gate, CondCheck, FcTimeout
  <2>2. pc' \in [Sender -> SendPc]
    BY <1>0, <1>2 DEF Gate, CondCheck, FcTimeout, SendPc
  <2> QED
    BY <1>2, <2>1, <2>2 DEF Gate, CondCheck, FcTimeout, TypeInv, TypeOK, OffsetsOK
<1>3. ASSUME NEW s \in Sender, Expired(s) PROVE TypeInv'
  <2>1. CacheType'
    BY <1>0, <1>3, CacheTypeUnchanged DEF Expired
  <2>2. /\ pc' \in [Sender -> SendPc] /\ OffsetsOK'
        /\ job' \in [Sender -> [pkt : Nat, len : Nat, off : Nat]]
    <3>1. CASE NextChunk(s)
      BY <3>1, NextChunkType
    <3>2. CASE pc' = [pc EXCEPT ![s] = "tx"] /\ UNCHANGED job
      BY <1>0, <3>2 DEF SendPc, OffsetsOK
    <3> QED
      BY <1>3, <3>1, <3>2 DEF Expired
  <2> QED
    BY <1>3, <2>1, <2>2 DEF Expired, TypeInv, TypeOK
<1>4. ASSUME NEW s \in Sender, Transmit(s) PROVE TypeInv'
  <2>1. CacheType'
    BY <1>0, <1>4, ChunkIsFrame, SendRawType DEF Transmit
  <2>2. /\ pc' \in [Sender -> SendPc] /\ OffsetsOK'
        /\ job' \in [Sender -> [pkt : Nat, len : Nat, off : Nat]]
    <3>1. CASE NextChunk(s)
      BY <3>1, NextChunkType
    <3>2. CASE pc' = [pc EXCEPT ![s] = "dead"] /\ UNCHANGED job
      BY <1>0, <3>2 DEF SendPc, OffsetsOK
    <3> QED
      BY <1>4, <3>1, <3>2 DEF Transmit
  <2>3. leak' \in [Dlci -> Nat]
    BY <1>4, TxAssumption DEF Transmit, TypeInv, TypeOK
  <2> QED
    BY <1>4, <2>1, <2>2, <2>3 DEF Transmit, TypeInv, TypeOK
<1>5. ASSUME ReaderCheck \/ ReaderRead PROVE TypeInv'
  <2>1. CacheType'
    BY <1>0, <1>5, CacheTypeUnchanged DEF ReaderCheck, ReaderRead
  <2>2. CASE ReaderCheck
    BY <2>1, <2>2 DEF ReaderCheck, TypeInv, TypeOK, OffsetsOK
  <2>3. CASE ReaderRead
    <3>1. /\ reader' \in [pc : {"top", "read", "msc", "reply", "dead"},
                          batch : Seq(MscCmd), old : BOOLEAN]
          /\ reader'.pc \in {"msc", "reply"} => reader'.batch # <<>>
      BY <2>3 DEF ReaderRead, TypeInv, TypeOK
    <3>2. rx' \in Seq(MscCmd)
      BY <2>3 DEF ReaderRead
    <3> QED
      BY <2>1, <2>3, <3>1, <3>2 DEF ReaderRead, TypeInv, TypeOK, OffsetsOK
  <2> QED
    BY <1>5, <2>2, <2>3
<1>6. ASSUME ReaderApply PROVE TypeInv'
  <2>1. CacheType'
    BY <1>0, <1>6, CacheTypeUnchanged DEF ReaderApply
  <2>2. Head(reader.batch) \in MscCmd
    BY <1>6 DEF ReaderApply, TypeInv, TypeOK
  <2>3. pc' \in [Sender -> SendPc]
    BY <1>0, <1>6, WokenType DEF ReaderApply
  <2>4. /\ allowed' \in [Dlci -> BOOLEAN] /\ lost' \subseteq Dlci
        /\ leak' \in [Dlci -> Nat]
    BY <1>6, <2>2 DEF ReaderApply, TypeInv, TypeOK, MscCmd
  <2>5. /\ reader' \in [pc : {"top", "read", "msc", "reply", "dead"},
                        batch : Seq(MscCmd), old : BOOLEAN]
        /\ reader'.batch # <<>>
    BY <1>6 DEF ReaderApply, TypeInv, TypeOK
  <2> QED
    BY <1>6, <2>1, <2>3, <2>4, <2>5 DEF ReaderApply, TypeInv, TypeOK, OffsetsOK
<1>7. ASSUME ReaderReply PROVE TypeInv'
  <2>1. CacheType'
    BY <1>0, <1>7, CtrlFrameIsFrame, SendRawType DEF ReaderReply
  <2>2. Tail(reader.batch) \in Seq(MscCmd)
    BY <1>7 DEF ReaderReply, TypeInv, TypeOK
  <2>3. /\ reader' \in [pc : {"top", "read", "msc", "reply", "dead"},
                        batch : Seq(MscCmd), old : BOOLEAN]
        /\ reader'.pc \in {"msc", "reply"} => reader'.batch # <<>>
    BY <1>7, <2>2 DEF ReaderReply, TypeInv, TypeOK
  <2> QED
    BY <1>7, <2>1, <2>3 DEF ReaderReply, TypeInv, TypeOK, OffsetsOK
<1>8. ASSUME Pause \/ DiscardRx \/ Resume \/ RecBegin PROVE TypeInv'
  <2>1. CacheType'
    BY <1>0, <1>8, CacheTypeUnchanged DEF Pause, DiscardRx, Resume, RecBegin
  <2>2. CASE Pause \/ Resume \/ RecBegin
    <3>1. count' \in [Bounded -> Nat]
      BY <2>2 DEF Pause, Resume, RecBegin, TypeInv, TypeOK, Bounded
    <3>2. paused' \in BOOLEAN /\ rec' \in {"none", "reset", "notify", "cld", "init"}
      BY <2>2 DEF Pause, Resume, RecBegin, TypeInv, TypeOK
    <3> QED
      BY <2>1, <2>2, <3>1, <3>2 DEF Pause, Resume, RecBegin, TypeInv, TypeOK, OffsetsOK
  <2>3. CASE DiscardRx
    <3>1. Head(rx) \in MscCmd /\ Tail(rx) \in Seq(MscCmd)
      BY <2>3 DEF DiscardRx, TypeInv, TypeOK
    <3> QED
      BY <2>1, <2>3, <3>1 DEF DiscardRx, TypeInv, TypeOK, OffsetsOK, MscCmd
  <2> QED
    BY <1>8, <2>2, <2>3
<1>9. ASSUME Probe PROVE TypeInv'
  <2>1. CacheType'
    BY <1>0, <1>9, CtrlFrameIsFrame, SendRawType DEF Probe
  <2> QED
    BY <1>9, <2>1 DEF Probe, txVars, TypeInv, TypeOK, OffsetsOK
<1>10. ASSUME RecReset PROVE TypeInv'
  <2>1. CacheType'
    BY <1>0, <1>10, CacheTypeUnchanged DEF RecReset
  <2>2. /\ reader' \in [pc : {"top", "read", "msc", "reply", "dead"},
                        batch : Seq(MscCmd), old : BOOLEAN]
        /\ reader'.pc \in {"msc", "reply"} => reader'.batch # <<>>
    <3>1. CASE reader.pc \in {"msc", "reply"}
      <4>1. Head(reader.batch) \in MscCmd
        BY <3>1 DEF TypeInv, TypeOK
      <4>2. <<Head(reader.batch)>> \in Seq(MscCmd) /\ <<Head(reader.batch)>> # <<>>
        BY <4>1
      <4> QED
        BY <1>10, <3>1, <4>2 DEF RecReset, TypeInv, TypeOK
    <3>2. CASE reader.pc \notin {"msc", "reply"}
      BY <1>10, <3>2 DEF RecReset, TypeInv, TypeOK
    <3> QED
      BY <3>1, <3>2
  <2> QED
    BY <1>10, <2>1, <2>2 DEF RecReset, TypeInv, TypeOK, OffsetsOK
<1>11. ASSUME RecNotify PROVE TypeInv'
  <2>1. CacheType' /\ pc' \in [Sender -> SendPc]
    BY <1>0, <1>11, CacheTypeUnchanged, WokenType DEF RecNotify
  <2> QED
    BY <1>11, <2>1 DEF RecNotify, TypeInv, TypeOK, OffsetsOK
<1>12. ASSUME RecCld PROVE TypeInv'
  <2>1. CacheType'
    BY <1>0, <1>12, CtrlFrameIsFrame, SendRawType DEF RecCld
  <2>2. rx' \in Seq(MscCmd)
    BY <1>12 DEF RecCld, TypeInv, TypeOK
  <2> QED
    BY <1>12, <2>1, <2>2 DEF RecCld, TypeInv, TypeOK, OffsetsOK
<1>13. ASSUME RecInit PROVE TypeInv'
  <2>1. CacheType'
    BY <1>0, <1>13, CtrlFrameIsFrame, SendRawType DEF RecInit
  <2>2. modemAllow' \in [Dlci -> BOOLEAN] /\ lost' \subseteq Dlci
    BY <1>13 DEF RecInit, TypeInv, TypeOK
  <2>3. /\ reader' \in [pc : {"top", "read", "msc", "reply", "dead"},
                        batch : Seq(MscCmd), old : BOOLEAN]
        /\ reader'.pc \in {"msc", "reply"} => reader'.batch # <<>>
    <3>1. (reader.pc \in {"msc", "reply"}) \in BOOLEAN
      OBVIOUS
    <3>2. reader' = [reader EXCEPT !.old = reader.pc \in {"msc", "reply"}]
      BY <1>13 DEF RecInit
    <3> DEFINE b == reader.pc \in {"msc", "reply"}
    <3> HIDE DEF b
    <3> QED
      BY <3>1, <3>2 DEF TypeInv, TypeOK
  <2> QED
    BY <1>13, <2>1, <2>2, <2>3 DEF RecInit, TypeInv, TypeOK, OffsetsOK
<1>14. ASSUME NEW d \in Dlci, NEW a \in BOOLEAN, ModemMsc(d, a) PROVE TypeInv'
  <2>1. CacheType'
    BY <1>0, <1>14, CacheTypeUnchanged DEF ModemMsc
  <2>2. rx' \in Seq(MscCmd)
    BY <1>14 DEF ModemMsc, TypeInv, TypeOK, MscCmd
  <2> QED
    BY <1>14, <2>1, <2>2 DEF ModemMsc, TypeInv, TypeOK, OffsetsOK, Bounded
<1>15. CASE UNCHANGED vars
  <2>1. CacheType'
    BY <1>0, <1>15, CacheTypeUnchanged DEF vars
  <2> QED
    BY <1>15, <2>1 DEF vars, txVars, TypeInv, TypeOK, OffsetsOK
<1> QED
  BY <1>1, <1>2, <1>3, <1>4, <1>5, <1>6, <1>7, <1>8, <1>9, <1>10, <1>11, <1>12,
     <1>13, <1>14, <1>15 DEF Next, SenderStep, ReaderStep, RecStep

(* TypeInv is an invariant of the specification.                            *)
LEMMA TypeInvariant == Spec => []TypeInv
<1>1. TxInit => TypeInv
  BY TypeInit
<1>2. TypeInv /\ [Next]_vars => TypeInv'
  BY TypeNext
<1> QED
  BY <1>1, <1>2, PTL DEF Spec

(* Every variable always has its type, a reader about to apply or to answer *)
(* an MSC command always has one, and no sender cuts a chunk of negative    *)
(* length.                                                                  *)
THEOREM TypeCorrect == Spec => []TypeOK
<1>1. TypeInv => TypeOK
  BY DEF TypeInv
<1> QED
  BY <1>1, TypeInvariant, PTL

-----------------------------------------------------------------------------
(* The write cache                                                          *)

(* Every step of every thread either leaves the cache alone or is one call  *)
(* of send_raw() with a well-formed frame.                                  *)
LEMMA CacheStep ==
    ASSUME TypeInv, [Next]_vars
    PROVE  UNCHANGED cacheVars \/ \E f \in Frame : SendRaw(f)
<1>1. ASSUME NEW s \in Sender, Transmit(s) PROVE \E f \in Frame : SendRaw(f)
  BY <1>1, ChunkIsFrame DEF Transmit
<1>2. ASSUME ReaderReply \/ Probe \/ RecCld \/ RecInit PROVE \E f \in Frame : SendRaw(f)
  BY <1>2, CtrlFrameIsFrame DEF ReaderReply, Probe, RecCld, RecInit
<1>3. ASSUME NEW s \in Sender, NEW n \in PacketLens[s], NewPacket(s, n)
      PROVE  UNCHANGED cacheVars
  BY <1>3 DEF NewPacket
<1>4. ASSUME NEW s \in Sender, Gate(s) \/ CondCheck(s) \/ FcTimeout(s) \/ Expired(s)
      PROVE  UNCHANGED cacheVars
  BY <1>4 DEF Gate, CondCheck, FcTimeout, Expired
<1>5. ASSUME ReaderCheck \/ ReaderRead \/ ReaderApply PROVE UNCHANGED cacheVars
  BY <1>5 DEF ReaderCheck, ReaderRead, ReaderApply
<1>6. ASSUME Pause \/ DiscardRx \/ Resume \/ RecBegin \/ RecReset \/ RecNotify
      PROVE  UNCHANGED cacheVars
  BY <1>6 DEF Pause, DiscardRx, Resume, RecBegin, RecReset, RecNotify
<1>7. ASSUME NEW d \in Dlci, NEW a \in BOOLEAN, ModemMsc(d, a) PROVE UNCHANGED cacheVars
  BY <1>7 DEF ModemMsc
<1>8. CASE UNCHANGED vars
  BY <1>8 DEF vars
<1> QED
  BY <1>1, <1>2, <1>3, <1>4, <1>5, <1>6, <1>7, <1>8
     DEF Next, SenderStep, ReaderStep, RecStep

CacheInv == TypeInv /\ CacheHoldsRest /\ OnlyFullFramesWait

LEMMA CacheInvInit == TxInit => CacheInv
<1> SUFFICES ASSUME TxInit PROVE CacheInv
  OBVIOUS
<1>1. TypeInv
  BY TypeInit
<1>2. /\ wire = <<>> /\ sent = <<>> /\ cache = <<>> /\ cacheFrames = 0
      /\ CacheFrames \in Nat \ {0}
  BY CacheAssumption DEF TxInit, CacheInit
<1>3. <<>> \o <<>> = <<>> /\ SubSeq(<<>>, 1, 0) = <<>> /\ Len(<<>>) = 0
  BY ConcatEmptySeq, SubSeqEmpty
<1>4. CacheHoldsRest
  BY <1>2, <1>3 DEF CacheHoldsRest
<1>5. OnlyFullFramesWait
  BY <1>2, <1>3 DEF OnlyFullFramesWait
<1> QED
  BY <1>1, <1>4, <1>5 DEF CacheInv

LEMMA CacheInvNext == CacheInv /\ [Next]_vars => CacheInv'
<1> SUFFICES ASSUME CacheInv, [Next]_vars PROVE CacheInv'
  OBVIOUS
<1>1. TypeInv' /\ CacheType
  BY TypeNext DEF CacheInv, TypeInv, TypeOK
<1>2. CASE UNCHANGED cacheVars
  <2>1. CacheHoldsRest'
    BY <1>2 DEF CacheInv, CacheHoldsRest, cacheVars
  <2>2. OnlyFullFramesWait'
    BY <1>2 DEF CacheInv, OnlyFullFramesWait, cacheVars
  <2> QED
    BY <1>1, <2>1, <2>2 DEF CacheInv
<1>3. ASSUME NEW f \in Frame, SendRaw(f) PROVE CacheInv'
  BY <1>1, <1>3, SendRawHoldsRest, SendRawHoldsFullFramesOnly DEF CacheInv
<1> QED
  BY <1>2, <1>3, CacheStep DEF CacheInv

LEMMA CacheInvariant == Spec => []CacheInv
<1>1. TxInit => CacheInv
  BY CacheInvInit
<1>2. CacheInv /\ [Next]_vars => CacheInv'
  BY CacheInvNext
<1> QED
  BY <1>1, <1>2, PTL DEF Spec

(* Whatever the threads' interleaving, what send_raw() has accepted is on    *)
(* the wire or in the cache, in order, until the device fails.              *)
THEOREM NothingLost == Spec => []CacheHoldsRest
<1>1. CacheInv => CacheHoldsRest
  BY DEF CacheInv
<1> QED
  BY <1>1, CacheInvariant, PTL

(* A frame shorter than a full-size one never waits in the cache, and fewer *)
(* than CACHE_FRAMES full-size ones do.                                     *)
THEOREM ShortFramesDoNotWait == Spec => []OnlyFullFramesWait
<1>1. CacheInv => OnlyFullFramesWait
  BY DEF CacheInv
<1> QED
  BY <1>1, CacheInvariant, PTL

(* The transmit path implements the FIFO of TxFifo.tla: initial states are   *)
(* initial states of the FIFO, and every step is a step of it or a stutter. *)
THEOREM TransmitPathIsFifo == Spec => WireIsFifo
<1>1. TxInit => Fifo!FifoInit
  BY DEF TxInit, CacheInit, Fifo!FifoInit
<1>2. CacheInv /\ [Next]_vars => [Fifo!FifoNext]_(Fifo!fifoVars)
  <2> SUFFICES ASSUME CacheInv, [Next]_vars PROVE [Fifo!FifoNext]_(Fifo!fifoVars)
    OBVIOUS
  <2>1. CASE UNCHANGED cacheVars
    BY <2>1 DEF cacheVars, Fifo!fifoVars
  <2>2. ASSUME NEW f \in Frame, SendRaw(f) PROVE Fifo!FifoNext
    BY <2>2, SendRawIsFifoStep DEF CacheInv, TypeInv, TypeOK
  <2> QED
    BY <2>1, <2>2, CacheStep DEF CacheInv
<1> QED
  BY <1>1, <1>2, CacheInvariant, PTL DEF Spec, WireIsFifo, Fifo!FifoSpec

-----------------------------------------------------------------------------
(* No lost wake-up                                                          *)

WaitInv == TypeInv /\ NoStrandedWaiter

LEMMA WaitNext == WaitInv /\ [Next]_vars => NoStrandedWaiter'
<1> SUFFICES ASSUME WaitInv, [Next]_vars PROVE NoStrandedWaiter'
  OBVIOUS
<1>0. /\ pc \in [Sender -> SendPc] /\ allowed \in [Dlci -> BOOLEAN]
      /\ DlciOf \in [Sender -> Dlci] /\ NoStrandedWaiter
      /\ pc' \in [Sender -> SendPc]
  BY TypeNext, TxAssumption DEF WaitInv, TypeInv, TypeOK
(* A step that makes nobody wait on an allowed channel, changes no permission
   and does not leave "notify". *)
<1>1. ASSUME UNCHANGED allowed, rec = "notify" => rec' = "notify",
             \A s \in Sender : pc'[s] = "waiting" => pc[s] = "waiting" \/ ~allowed[DlciOf[s]]
      PROVE  NoStrandedWaiter'
  BY <1>0, <1>1 DEF NoStrandedWaiter
<1>2. ASSUME \A s \in Sender : pc'[s] # "waiting" PROVE NoStrandedWaiter'
  BY <1>2 DEF NoStrandedWaiter
<1>3. \A s \in Sender : Woken[s] # "waiting"
  BY <1>0 DEF Woken
<1>4. ASSUME NEW s \in Sender, NEW n \in PacketLens[s], NewPacket(s, n)
      PROVE  NoStrandedWaiter'
  BY <1>0, <1>1, <1>4 DEF NewPacket
<1>5. ASSUME NEW s \in Sender, Gate(s) \/ CondCheck(s) \/ FcTimeout(s)
      PROVE  NoStrandedWaiter'
  BY <1>0, <1>1, <1>5 DEF Gate, CondCheck, FcTimeout
<1>6. ASSUME NEW s \in Sender, Expired(s) \/ Transmit(s)
      PROVE  NoStrandedWaiter'
  BY <1>0, <1>1, <1>6 DEF Expired, Transmit, NextChunk
<1>7. ASSUME ReaderCheck \/ ReaderRead \/ ReaderReply PROVE NoStrandedWaiter'
  BY <1>0, <1>1, <1>7 DEF ReaderCheck, ReaderRead, ReaderReply
<1>8. ASSUME ReaderApply PROVE NoStrandedWaiter'
  <2> DEFINE m == Head(reader.batch)
  <2>1. CASE m.allow
    BY <1>2, <1>3, <1>8, <2>1 DEF ReaderApply
  <2>2. CASE ~m.allow
    <3>1. pc' = pc /\ rec' = rec /\ allowed' = [allowed EXCEPT ![m.dlci] = m.allow]
      BY <1>8, <2>2 DEF ReaderApply
    <3>2. \A d \in Dlci : allowed'[d] => allowed[d]
      BY <1>0, <2>2, <3>1
    <3> QED
      BY <1>0, <3>1, <3>2 DEF NoStrandedWaiter
  <2> QED
    BY <2>1, <2>2
<1>9. ASSUME Pause \/ DiscardRx \/ Resume \/ Probe \/ RecBegin PROVE NoStrandedWaiter'
  BY <1>0, <1>1, <1>9 DEF Pause, DiscardRx, Resume, Probe, RecBegin, txVars
<1>10. ASSUME RecReset PROVE NoStrandedWaiter'
  BY <1>10 DEF RecReset, NoStrandedWaiter
<1>11. ASSUME RecNotify PROVE NoStrandedWaiter'
  BY <1>2, <1>3, <1>11 DEF RecNotify
<1>12. ASSUME RecCld \/ RecInit PROVE NoStrandedWaiter'
  BY <1>0, <1>1, <1>12 DEF RecCld, RecInit
<1>13. ASSUME NEW d \in Dlci, NEW a \in BOOLEAN, ModemMsc(d, a) PROVE NoStrandedWaiter'
  BY <1>0, <1>1, <1>13 DEF ModemMsc
<1>14. CASE UNCHANGED vars
  BY <1>0, <1>1, <1>14 DEF vars, txVars
<1> QED
  BY <1>4, <1>5, <1>6, <1>7, <1>8, <1>9, <1>10, <1>11, <1>12, <1>13, <1>14
     DEF Next, SenderStep, ReaderStep, RecStep

(* No sender sleeps on the condition of a channel that is allowed, but for   *)
(* the moment between a recovery's reset of frame_allowed and its notify.   *)
THEOREM NoLostWakeup == Spec => []NoStrandedWaiter
<1>1. TxInit => WaitInv
  BY TypeInit DEF WaitInv, TxInit, NoStrandedWaiter
<1>2. WaitInv /\ [Next]_vars => WaitInv'
  BY TypeNext, WaitNext DEF WaitInv
<1>3. WaitInv => NoStrandedWaiter
  BY DEF WaitInv
<1> QED
  BY <1>1, <1>2, <1>3, PTL DEF Spec
-----------------------------------------------------------------------------
(* The leak of a blocked channel                                            *)

(* BlockedLeakBounded is not inductive: it does not say that a sender which  *)
(* has passed the gate has not been counted yet.  The sum does.             *)
LeakSum == \A d \in Dlci :
    ~allowed[d] => leak[d] + Cardinality(InTx(d)) <= Cardinality(Senders(d))

LeakInv == TypeInv /\ LeakSum

LEMMA InTxFinite ==
    ASSUME NEW d \in Dlci
    PROVE  /\ IsFiniteSet(Senders(d)) /\ IsFiniteSet(InTx(d))
           /\ Cardinality(Senders(d)) \in Nat /\ Cardinality(InTx(d)) \in Nat
           /\ Cardinality(InTx(d)) <= Cardinality(Senders(d))
<1>1. Senders(d) \in SUBSET Sender /\ InTx(d) \in SUBSET Senders(d)
  BY DEF Senders, InTx
<1>2. IsFiniteSet(Senders(d))
  BY <1>1, TxAssumption, FS_Subset
<1>3. IsFiniteSet(InTx(d)) /\ Cardinality(InTx(d)) <= Cardinality(Senders(d))
  BY <1>1, <1>2, FS_Subset
<1> QED
  BY <1>2, <1>3, FS_CardinalityType

(* A step after which no sender of d is newly past the gate, and which       *)
(* counts nothing, keeps the sum.                                           *)
LEMMA LeakKept ==
    ASSUME LeakInv, NEW d \in Dlci, NEW T, T \subseteq InTx(d),
           ~allowed[d], NEW n \in Nat, n <= leak[d]
    PROVE  n + Cardinality(T) <= Cardinality(Senders(d))
<1>1. Cardinality(T) <= Cardinality(InTx(d)) /\ IsFiniteSet(T)
  BY InTxFinite, FS_Subset
<1>2. Cardinality(T) \in Nat
  BY <1>1, FS_CardinalityType
<1>3. leak[d] \in Nat /\ leak[d] + Cardinality(InTx(d)) <= Cardinality(Senders(d))
  BY DEF LeakInv, LeakSum, TypeInv, TypeOK
<1> QED
  BY <1>1, <1>2, <1>3, InTxFinite

LEMMA LeakNext == LeakInv /\ [Next]_vars => LeakSum'
<1> SUFFICES ASSUME LeakInv, [Next]_vars,
                    NEW d \in Dlci, ~allowed'[d]
             PROVE  leak'[d] + Cardinality(InTx(d)') <= Cardinality(Senders(d))
  BY DEF LeakSum, Senders
<1>0. /\ pc \in [Sender -> SendPc] /\ allowed \in [Dlci -> BOOLEAN]
      /\ DlciOf \in [Sender -> Dlci] /\ leak \in [Dlci -> Nat] /\ TypeInv
  BY TxAssumption DEF LeakInv, TypeInv, TypeOK
(* Nothing but the places of the senders changes, and none gets past. *)
<1>1. ASSUME UNCHANGED <<allowed, leak>>,
             \A s \in Sender : DlciOf[s] = d /\ pc'[s] = "tx" => pc[s] = "tx"
      PROVE  leak'[d] + Cardinality(InTx(d)') <= Cardinality(Senders(d))
  <2>1. InTx(d)' \subseteq InTx(d)
    BY <1>1 DEF InTx, Senders
  <2>2. leak'[d] = leak[d] /\ leak[d] \in Nat /\ ~allowed[d]
    BY <1>0, <1>1
  <2> QED
    BY <2>1, <2>2, LeakKept
<1>2. \A s \in Sender : Woken[s] = "tx" => pc[s] = "tx"
  BY <1>0 DEF Woken
<1>3. ASSUME NEW s \in Sender, NEW n \in PacketLens[s], NewPacket(s, n)
      PROVE  leak'[d] + Cardinality(InTx(d)') <= Cardinality(Senders(d))
  BY <1>0, <1>1, <1>3 DEF NewPacket
<1>4. ASSUME NEW s \in Sender, Gate(s) \/ CondCheck(s) \/ FcTimeout(s)
      PROVE  leak'[d] + Cardinality(InTx(d)') <= Cardinality(Senders(d))
  BY <1>0, <1>1, <1>4 DEF Gate, CondCheck, FcTimeout
<1>5. ASSUME NEW s \in Sender, Expired(s)
      PROVE  leak'[d] + Cardinality(InTx(d)') <= Cardinality(Senders(d))
  BY <1>0, <1>1, <1>5 DEF Expired, NextChunk
<1>6. ASSUME NEW s \in Sender, Transmit(s)
      PROVE  leak'[d] + Cardinality(InTx(d)') <= Cardinality(Senders(d))
  <2>1. pc'[s] # "tx" /\ (\A t \in Sender : t # s => pc'[t] = pc[t]) /\ ~allowed[d]
    BY <1>0, <1>6 DEF Transmit, NextChunk
  <2>2. CASE DlciOf[s] = d
    <3>1. InTx(d)' = InTx(d) \ {s} /\ s \in InTx(d)
      BY <1>6, <2>1, <2>2 DEF InTx, Senders, Transmit
    <3>2. Cardinality(InTx(d)') = Cardinality(InTx(d)) - 1
      BY <3>1, InTxFinite, FS_RemoveElement
    <3>3. leak'[d] = leak[d] + 1
      BY <1>0, <1>6, <2>1, <2>2 DEF Transmit
    <3>4. leak[d] + Cardinality(InTx(d)) <= Cardinality(Senders(d))
      BY <2>1 DEF LeakInv, LeakSum
    <3> QED
      BY <1>0, <3>2, <3>3, <3>4, InTxFinite
  <2>3. CASE DlciOf[s] # d
    <3>1. leak'[d] = leak[d] /\ InTx(d)' = InTx(d)
      BY <1>0, <1>6, <2>1, <2>3 DEF InTx, Senders, Transmit
    <3> QED
      BY <1>0, <2>1, <3>1, LeakKept
  <2> QED
    BY <2>2, <2>3
<1>7. ASSUME ReaderCheck \/ ReaderRead \/ ReaderReply
      PROVE  leak'[d] + Cardinality(InTx(d)') <= Cardinality(Senders(d))
  BY <1>0, <1>1, <1>7 DEF ReaderCheck, ReaderRead, ReaderReply
<1>8. ASSUME ReaderApply
      PROVE  leak'[d] + Cardinality(InTx(d)') <= Cardinality(Senders(d))
  <2> DEFINE m == Head(reader.batch)
  <2>1. /\ allowed' = [allowed EXCEPT ![m.dlci] = m.allow]
        /\ leak' = IF allowed[m.dlci] THEN [leak EXCEPT ![m.dlci] = 0] ELSE leak
        /\ pc' = IF m.allow THEN Woken ELSE pc
    BY <1>8 DEF ReaderApply
  <2>2. InTx(d)' \subseteq InTx(d)
    BY <1>2, <2>1 DEF InTx, Senders
  <2>3. CASE allowed[d]
    <3>1. leak'[d] = 0
      BY <1>0, <2>1, <2>3
    <3>2. Cardinality(InTx(d)') <= Cardinality(InTx(d)) /\ IsFiniteSet(InTx(d)')
      BY <2>2, InTxFinite, FS_Subset
    <3>3. Cardinality(InTx(d)') \in Nat
      BY <3>2, FS_CardinalityType
    <3> QED
      BY <3>1, <3>2, <3>3, InTxFinite
  <2>4. CASE ~allowed[d]
    <3>1. leak'[d] \in Nat /\ leak'[d] <= leak[d]
      BY <1>0, <2>1, <2>4
    <3> QED
      BY <2>2, <2>4, <3>1, LeakKept
  <2> QED
    BY <2>3, <2>4
<1>9. ASSUME Pause \/ DiscardRx \/ Resume \/ Probe \/ RecBegin
      PROVE  leak'[d] + Cardinality(InTx(d)') <= Cardinality(Senders(d))
  BY <1>0, <1>1, <1>9 DEF Pause, DiscardRx, Resume, Probe, RecBegin, txVars
<1>10. ASSUME RecReset
      PROVE  leak'[d] + Cardinality(InTx(d)') <= Cardinality(Senders(d))
  BY <1>10 DEF RecReset
<1>11. ASSUME RecNotify
      PROVE  leak'[d] + Cardinality(InTx(d)') <= Cardinality(Senders(d))
  BY <1>0, <1>1, <1>2, <1>11 DEF RecNotify
<1>12. ASSUME RecCld \/ RecInit
      PROVE  leak'[d] + Cardinality(InTx(d)') <= Cardinality(Senders(d))
  BY <1>0, <1>1, <1>12 DEF RecCld, RecInit
<1>13. ASSUME NEW e \in Dlci, NEW a \in BOOLEAN, ModemMsc(e, a)
      PROVE  leak'[d] + Cardinality(InTx(d)') <= Cardinality(Senders(d))
  BY <1>0, <1>1, <1>13 DEF ModemMsc
<1>14. CASE UNCHANGED vars
  BY <1>0, <1>1, <1>14 DEF vars, txVars
<1> QED
  BY <1>3, <1>4, <1>5, <1>6, <1>7, <1>8, <1>9, <1>10, <1>11, <1>12, <1>13, <1>14
     DEF LeakInv, Next, SenderStep, ReaderStep, RecStep

(* A channel the modem has blocked gets at most one frame from each sender   *)
(* of the channel before it is allowed again, however send(), the reader    *)
(* and a recovery interleave.                                               *)
THEOREM LeakBounded == Spec => []BlockedLeakBounded
<1>1. TxInit => LeakInv
  BY TypeInit DEF LeakInv, LeakSum, TxInit
<1>2. LeakInv /\ [Next]_vars => LeakInv'
  BY TypeNext, LeakNext DEF LeakInv
<1>3. LeakInv => BlockedLeakBounded
  <2> SUFFICES ASSUME LeakInv, NEW d \in Dlci, ~allowed[d]
               PROVE  leak[d] <= Cardinality(Senders(d))
    BY DEF BlockedLeakBounded
  <2>1. leak[d] \in Nat /\ leak[d] + Cardinality(InTx(d)) <= Cardinality(Senders(d))
    BY DEF LeakInv, LeakSum, TypeInv, TypeOK
  <2> QED
    BY <2>1, InTxFinite
<1> QED
  BY <1>1, <1>2, <1>3, PTL DEF Spec

-----------------------------------------------------------------------------
(* frame_allowed follows the modem                                          *)

(* Applying the commands of q in order leaves channel d at v, if it is at a *)
(* before.                                                                  *)
Says(q, d, a, v) ==
    \/ v = a /\ \A i \in 1..Len(q) : q[i].dlci # d
    \/ \E i \in 1..Len(q) : /\ q[i].dlci = d /\ q[i].allow = v
                            /\ \A j \in 1..Len(q) : j > i => q[j].dlci # d

(* What the reader has read and not applied yet.  A batch read before a      *)
(* recovery does not count: applying it puts the channel into lost.         *)
Unapplied ==
    IF reader.old THEN <<>>
    ELSE IF reader.pc = "msc" THEN reader.batch
    ELSE IF reader.pc = "reply" THEN Tail(reader.batch) ELSE <<>>

(* The commands on their way bring frame_allowed to what the modem asked     *)
(* for; during the part of a recovery that has replaced frame_allowed every *)
(* channel is allowed, as it is in the modem when its mux starts.           *)
Follows(d) ==
    \E b \in BOOLEAN : Says(Unapplied, d, allowed[d], b) /\ Says(rx, d, b, modemAllow[d])

FcFollows ==
    reader.pc # "dead" =>
        \A d \in Dlci \ lost : IF rec \in {"none", "reset"} THEN Follows(d) ELSE allowed[d]

FcInv == TypeInv /\ FcFollows

LEMMA SaysEmpty ==
    ASSUME NEW d, NEW a, NEW v
    PROVE  Says(<<>>, d, a, v) <=> v = a
BY DEF Says

(* Taking the first command off and applying it leads to the same end.      *)
LEMMA SaysTail ==
    ASSUME NEW q \in Seq(MscCmd), q # <<>>, NEW d, NEW a, NEW v, Says(q, d, a, v)
    PROVE  Says(Tail(q), d, IF Head(q).dlci = d THEN Head(q).allow ELSE a, v)
<1>1. /\ Len(q) \in Nat \ {0} /\ Len(Tail(q)) = Len(q) - 1 /\ Head(q) = q[1]
      /\ \A i \in 1..Len(Tail(q)) : Tail(q)[i] = q[i + 1]
  OBVIOUS
<1>2. CASE v = a /\ \A i \in 1..Len(q) : q[i].dlci # d
  BY <1>1, <1>2 DEF Says
<1>3. ASSUME NEW i \in 1..Len(q), q[i].dlci = d, q[i].allow = v,
             \A j \in 1..Len(q) : j > i => q[j].dlci # d
      PROVE  Says(Tail(q), d, IF Head(q).dlci = d THEN Head(q).allow ELSE a, v)
  <2>1. CASE i = 1
    <3>1. \A j \in 1..Len(Tail(q)) : Tail(q)[j].dlci # d
      BY <1>1, <1>3, <2>1
    <3> QED
      BY <1>1, <1>3, <2>1, <3>1 DEF Says
  <2>2. CASE i # 1
    <3>1. i - 1 \in 1..Len(Tail(q)) /\ Tail(q)[i - 1] = q[i]
      BY <1>1, <2>2
    <3>2. \A j \in 1..Len(Tail(q)) : j > i - 1 => Tail(q)[j].dlci # d
      BY <1>1, <1>3
    <3> QED
      BY <1>3, <3>1, <3>2 DEF Says
  <2> QED
    BY <2>1, <2>2
<1> QED
  BY <1>2, <1>3 DEF Says

(* A command that comes in last has the last word for its channel.          *)
LEMMA SaysAppend ==
    ASSUME NEW q \in Seq(MscCmd), NEW m \in MscCmd, NEW d, NEW a, NEW v, Says(q, d, a, v)
    PROVE  Says(Append(q, m), d, a, IF m.dlci = d THEN m.allow ELSE v)
<1>1. /\ Len(q) \in Nat /\ Len(Append(q, m)) = Len(q) + 1
      /\ Append(q, m)[Len(q) + 1] = m
      /\ \A i \in 1..Len(q) : Append(q, m)[i] = q[i]
  OBVIOUS
<1>2. CASE m.dlci = d
  <2>1. Len(q) + 1 \in 1..Len(Append(q, m))
    BY <1>1
  <2> QED
    BY <1>1, <1>2, <2>1 DEF Says
<1>3. CASE m.dlci # d
  <2>1. CASE v = a /\ \A i \in 1..Len(q) : q[i].dlci # d
    BY <1>1, <1>3, <2>1 DEF Says
  <2>2. ASSUME NEW i \in 1..Len(q), q[i].dlci = d, q[i].allow = v,
               \A j \in 1..Len(q) : j > i => q[j].dlci # d
        PROVE  Says(Append(q, m), d, a, v)
    <3>1. i \in 1..Len(Append(q, m)) /\ Append(q, m)[i] = q[i]
      BY <1>1
    <3>2. \A j \in 1..Len(Append(q, m)) : j > i => Append(q, m)[j].dlci # d
      BY <1>1, <1>3, <2>2
    <3> QED
      BY <2>2, <3>1, <3>2 DEF Says
  <2> QED
    BY <1>3, <2>1, <2>2 DEF Says
<1> QED
  BY <1>2, <1>3

LEMMA FcInit == TxInit => FcFollows
<1> SUFFICES ASSUME TxInit, NEW d \in Dlci PROVE Follows(d)
  BY DEF FcFollows, TxInit
<1>1. Unapplied = <<>> /\ rx = <<>> /\ allowed[d] = TRUE /\ modemAllow[d] = TRUE
  BY DEF TxInit, Unapplied
<1> QED
  BY <1>1, SaysEmpty DEF Follows

(* Nothing is ever taken out of lost, and a reader that has ended stays so.  *)
LEMMA FcMonotone ==
    ASSUME TypeInv, [Next]_vars
    PROVE  lost \subseteq lost' /\ (reader.pc = "dead" => reader'.pc = "dead")
<1>0. reader \in [pc : {"top", "read", "msc", "reply", "dead"},
                 batch : Seq(MscCmd), old : BOOLEAN] /\ lost \subseteq Dlci
  BY DEF TypeInv, TypeOK
<1>1. ASSUME NEW s \in Sender, NEW n \in PacketLens[s], NewPacket(s, n)
      PROVE  UNCHANGED <<lost, reader>>
  BY <1>1 DEF NewPacket
<1>2. ASSUME NEW s \in Sender, SenderStep(s) PROVE UNCHANGED <<lost, reader>>
  BY <1>2 DEF SenderStep, Gate, CondCheck, FcTimeout, Expired, Transmit
<1>3. ASSUME ReaderStep PROVE lost \subseteq lost' /\ reader.pc # "dead"
  BY <1>3 DEF ReaderStep, ReaderCheck, ReaderRead, ReaderApply, ReaderReply
<1>4. ASSUME Pause \/ DiscardRx \/ Resume \/ Probe \/ RecBegin
      PROVE  lost \subseteq lost' /\ reader' = reader
  BY <1>4 DEF Pause, DiscardRx, Resume, Probe, RecBegin, txVars
<1>5. ASSUME RecStep PROVE lost \subseteq lost' /\ reader'.pc = reader.pc
  BY <1>0, <1>5 DEF RecStep, RecReset, RecNotify, RecCld, RecInit
<1>6. ASSUME NEW d \in Dlci, NEW a \in BOOLEAN, ModemMsc(d, a)
      PROVE  UNCHANGED <<lost, reader>>
  BY <1>6 DEF ModemMsc
<1>7. CASE UNCHANGED vars
  BY <1>7 DEF vars, txVars
<1> QED
  BY <1>1, <1>2, <1>3, <1>4, <1>5, <1>6, <1>7 DEF Next

LEMMA FcNext == FcInv /\ [Next]_vars => FcFollows'
<1> SUFFICES ASSUME FcInv, [Next]_vars, NEW d \in Dlci, d \notin lost', reader'.pc # "dead"
             PROVE  IF rec' \in {"none", "reset"} THEN Follows(d)' ELSE allowed'[d]
  BY DEF FcFollows
<1>0. /\ reader \in [pc : {"top", "read", "msc", "reply", "dead"},
                    batch : Seq(MscCmd), old : BOOLEAN]
      /\ reader.pc \in {"msc", "reply"} => reader.batch # <<>>
      /\ allowed \in [Dlci -> BOOLEAN] /\ modemAllow \in [Dlci -> BOOLEAN]
      /\ rx \in Seq(MscCmd) /\ TypeInv
  BY DEF FcInv, TypeInv, TypeOK
<1>1. d \notin lost /\ IF rec \in {"none", "reset"} THEN Follows(d) ELSE allowed[d]
  BY <1>0, FcMonotone DEF FcInv, FcFollows
(* A step that changes neither view, nor what is under way. *)
<1>2. ASSUME UNCHANGED <<allowed, modemAllow, rx>>, Unapplied' = Unapplied,
             rec \in {"none", "reset"} <=> rec' \in {"none", "reset"}
      PROVE  IF rec' \in {"none", "reset"} THEN Follows(d)' ELSE allowed'[d]
  BY <1>1, <1>2 DEF Follows
<1>3. ASSUME UNCHANGED <<allowed, modemAllow, rx, reader>>,
             rec \in {"none", "reset"} <=> rec' \in {"none", "reset"}
      PROVE  IF rec' \in {"none", "reset"} THEN Follows(d)' ELSE allowed'[d]
  BY <1>2, <1>3 DEF Unapplied
<1>4. ASSUME NEW s \in Sender, NEW n \in PacketLens[s], NewPacket(s, n)
      PROVE  IF rec' \in {"none", "reset"} THEN Follows(d)' ELSE allowed'[d]
  BY <1>3, <1>4 DEF NewPacket
<1>5. ASSUME NEW s \in Sender, SenderStep(s)
      PROVE  IF rec' \in {"none", "reset"} THEN Follows(d)' ELSE allowed'[d]
  BY <1>3, <1>5 DEF SenderStep, Gate, CondCheck, FcTimeout, Expired, Transmit
<1>6. ASSUME ReaderCheck
      PROVE  IF rec' \in {"none", "reset"} THEN Follows(d)' ELSE allowed'[d]
  BY <1>0, <1>2, <1>6 DEF ReaderCheck, Unapplied
<1>7. ASSUME ReaderRead
      PROVE  IF rec' \in {"none", "reset"} THEN Follows(d)' ELSE allowed'[d]
  <2>1. Unapplied = <<>> /\ Unapplied' = rx /\ rx' = <<>>
    BY <1>0, <1>7 DEF ReaderRead, Unapplied
  <2>2. UNCHANGED <<allowed, modemAllow, rec>> /\ modemAllow[d] \in BOOLEAN
    BY <1>0, <1>7 DEF ReaderRead
  <2>3. Follows(d) => Says(rx, d, allowed[d], modemAllow[d])
    BY <2>1, SaysEmpty DEF Follows
  <2>4. Says(<<>>, d, modemAllow[d], modemAllow[d])
    BY SaysEmpty
  <2>5. Follows(d) => Follows(d)'
    BY <2>1, <2>2, <2>3, <2>4 DEF Follows
  <2> QED
    BY <1>1, <2>2, <2>5
<1>8. ASSUME ReaderApply
      PROVE  IF rec' \in {"none", "reset"} THEN Follows(d)' ELSE allowed'[d]
  <2> DEFINE m == Head(reader.batch)
  <2>1. /\ allowed' = [allowed EXCEPT ![m.dlci] = m.allow]
        /\ lost' = IF reader.old \/ rec # "none" THEN lost \union {m.dlci} ELSE lost
        /\ reader' = [reader EXCEPT !.pc = "reply"] /\ UNCHANGED <<rec, rx, modemAllow>>
        /\ reader.pc = "msc"
    BY <1>8 DEF ReaderApply
  <2>2. m \in MscCmd /\ reader.batch \in Seq(MscCmd) /\ reader.batch # <<>>
    BY <1>0, <2>1
  <2>3. allowed'[d] = IF m.dlci = d THEN m.allow ELSE allowed[d]
    BY <1>0, <2>1, <2>2
  <2>4. CASE reader.old
    <3>1. Unapplied = <<>> /\ Unapplied' = <<>> /\ m.dlci # d
      BY <1>0, <2>1, <2>4 DEF Unapplied
    <3> QED
      BY <1>1, <2>1, <2>3, <3>1 DEF Follows
  <2>5. CASE ~reader.old
    <3>1. Unapplied = reader.batch /\ Unapplied' = Tail(reader.batch)
      BY <1>0, <2>1, <2>5 DEF Unapplied
    <3>2. Follows(d) => Follows(d)'
      BY <2>1, <2>2, <2>3, <3>1, SaysTail DEF Follows
    <3>3. rec \notin {"none", "reset"} => m.dlci # d
      BY <2>1
    <3> QED
      BY <1>1, <2>1, <2>3, <3>2, <3>3
  <2> QED
    BY <2>4, <2>5
<1>9. ASSUME ReaderReply
      PROVE  IF rec' \in {"none", "reset"} THEN Follows(d)' ELSE allowed'[d]
  <2>1. Unapplied' = Unapplied
    BY <1>0, <1>9 DEF ReaderReply, Unapplied
  <2> QED
    BY <1>2, <1>9, <2>1 DEF ReaderReply
<1>10. ASSUME Pause \/ Resume \/ Probe \/ RecBegin
       PROVE  IF rec' \in {"none", "reset"} THEN Follows(d)' ELSE allowed'[d]
  BY <1>3, <1>10 DEF Pause, Resume, Probe, RecBegin, txVars
<1>11. ASSUME DiscardRx
       PROVE  IF rec' \in {"none", "reset"} THEN Follows(d)' ELSE allowed'[d]
  <2>1. /\ rx # <<>> /\ rx' = Tail(rx) /\ Head(rx).dlci # d
        /\ UNCHANGED <<allowed, modemAllow, reader, rec>>
    BY <1>11 DEF DiscardRx
  <2>2. Unapplied' = Unapplied
    BY <2>1 DEF Unapplied
  <2>3. Follows(d) => Follows(d)'
    BY <1>0, <2>1, <2>2, SaysTail DEF Follows
  <2> QED
    BY <1>1, <2>1, <2>3
<1>12. ASSUME RecReset
       PROVE  IF rec' \in {"none", "reset"} THEN Follows(d)' ELSE allowed'[d]
  BY <1>12 DEF RecReset
<1>13. ASSUME RecNotify \/ RecCld
       PROVE  IF rec' \in {"none", "reset"} THEN Follows(d)' ELSE allowed'[d]
  BY <1>1, <1>13 DEF RecNotify, RecCld
<1>14. ASSUME RecInit
       PROVE  IF rec' \in {"none", "reset"} THEN Follows(d)' ELSE allowed'[d]
  <2>1. /\ rx' = <<>> /\ allowed' = allowed /\ rec = "init"
        /\ reader' = [reader EXCEPT !.old = reader.pc \in {"msc", "reply"}]
    BY <1>14 DEF RecInit
  <2>2. modemAllow'[d] = TRUE
    BY <1>14 DEF RecInit
  <2>3. Unapplied' = <<>>
    BY <1>0, <2>1 DEF Unapplied
  <2>4. allowed'[d] = TRUE
    BY <1>0, <1>1, <2>1
  <2>5. Follows(d)'
    BY <2>1, <2>2, <2>3, <2>4, SaysEmpty DEF Follows
  <2> QED
    BY <1>14, <2>5 DEF RecInit
<1>15. ASSUME NEW e \in Dlci, NEW a \in BOOLEAN, ModemMsc(e, a)
       PROVE  IF rec' \in {"none", "reset"} THEN Follows(d)' ELSE allowed'[d]
  <2> DEFINE m == [dlci |-> e, allow |-> a]
  <2>1. /\ m \in MscCmd /\ rx' = Append(rx, m) /\ UNCHANGED <<allowed, reader, rec>>
        /\ modemAllow'[d] = IF m.dlci = d THEN m.allow ELSE modemAllow[d]
    BY <1>0, <1>15 DEF ModemMsc, MscCmd
  <2>2. Unapplied' = Unapplied
    BY <2>1 DEF Unapplied
  <2>3. Follows(d) => Follows(d)'
    <3> HIDE DEF m
    <3> QED
      BY <1>0, <2>1, <2>2, SaysAppend DEF Follows
  <2> QED
    BY <1>1, <2>1, <2>3
<1>16. CASE UNCHANGED vars
  BY <1>3, <1>16 DEF vars, txVars
<1> QED
  BY <1>4, <1>5, <1>6, <1>7, <1>8, <1>9, <1>10, <1>11, <1>12, <1>13, <1>14, <1>15, <1>16
     DEF Next, ReaderStep, RecStep

(* Once the reader has worked off what the modem sent, frame_allowed is what *)
(* the modem asked for, on every channel none of whose commands were thrown *)
(* away by a dial, a disconnect or a recovery.                              *)
THEOREM FlowControlFollowsModem == Spec => []FcFollowsModem
<1>1. TxInit => FcInv
  BY TypeInit, FcInit DEF FcInv
<1>2. FcInv /\ [Next]_vars => FcInv'
  BY TypeNext, FcNext DEF FcInv
<1>3. FcInv => FcFollowsModem
  <2> SUFFICES ASSUME FcInv, reader.pc \in {"top", "read"}, rx = <<>>, rec = "none",
                      NEW d \in Dlci \ lost
               PROVE  allowed[d] = modemAllow[d]
    BY DEF FcFollowsModem
  <2>1. Follows(d) /\ Unapplied = <<>>
    BY DEF FcInv, FcFollows, Unapplied
  <2> QED
    BY <2>1, SaysEmpty DEF Follows
<1> QED
  BY <1>1, <1>2, <1>3, PTL DEF Spec
=============================================================================
