-------------------------- MODULE FramePathProofs ---------------------------
(***************************************************************************)
(* Proofs about FramePath: types, the AT channel, and that the frames and  *)
(* the packets that arrive are those of a lossy FIFO, for every value of   *)
(* the constants and any number of faults.                                 *)
(***************************************************************************)
EXTENDS FramePath, FrameProofs

LineHead == [dlci : Int, len : Int]
Sent == [frames : Seq(LineHead), packets : Seq(Packet), mixed : BOOLEAN]
Got == [frames : Seq(LineHead), packets : Seq(Packet), fed : Seq(AnyByte),
        told : Seq(AnyByte), mark : Nat]
Channel == [buffer : Seq(AnyByte), event : BOOLEAN]

Bounded ==
    /\ sends \in 0 .. MaxSends /\ faults \in 0 .. MaxFaults
    /\ splits \in 0 .. MaxSplits /\ commands \in 0 .. MaxCommands

(* On the way: what the line and the parsers hold.                          *)
Underway ==
    /\ wire \in Seq(AnyByte) /\ buf \in Seq(AnyByte) /\ ppp \in Seq(AnyByte)
    /\ queue \in Seq(Frame) /\ left \in [Writer -> Seq(PppByte)]
    /\ ppp # <<>> => ppp[1] = Plain(PppFlag)
    /\ way.dir = "serial" => buf = <<>> /\ \A w \in Writer : left[w] = <<>>
    /\ way.dir # "tx" => left["two"] = <<>>

TypeInv ==
    /\ way \in Ways /\ running \in BOOLEAN /\ console \in {"idle", "reading"}
    /\ Bounded
    /\ Underway
    /\ at \in Channel /\ sent \in Sent /\ got \in Got

LEMMA LineHeadIs ==
    /\ LineHead \subseteq Label
    /\ \A dlci, n \in Int : [dlci |-> dlci, len |-> n] \in LineHead
BY DEF LineHead, Label

LEMMA PathConstants ==
    /\ LenBase \in Nat \ {0} /\ N1 \in Nat \ {0} /\ N1 < 2 * LenBase * LenBase
    /\ 3 + 4 * AtDlci < 2 * LenBase /\ 3 + 4 * PppDlci < 2 * LenBase
    /\ AtDlci \in Byte /\ PppDlci \in Byte /\ Control \in Byte /\ 0 \in Byte
    /\ FcsValues \subseteq Byte /\ Noise \subseteq Byte
    /\ MaxSends \in Nat /\ MaxFaults \in Nat /\ MaxSplits \in Nat /\ MaxCommands \in Nat
<1>1. LenBase \in Nat \ {0} /\ LenBase >= 8 /\ Byte = 0 .. 2 * LenBase - 1
  BY FramesAssumption, PathAssumption DEF Byte
<1>2. N1 \in Nat \ {0} /\ N1 < 2 * LenBase * LenBase /\ FcsValues \subseteq Byte /\ Noise \subseteq Byte
      /\ MaxSends \in Nat /\ MaxFaults \in Nat /\ MaxSplits \in Nat /\ MaxCommands \in Nat
  BY PathAssumption
<1>3. /\ 3 + 4 * AtDlci < 2 * LenBase /\ 3 + 4 * PppDlci < 2 * LenBase
      /\ AtDlci \in Byte /\ PppDlci \in Byte /\ Control \in Byte /\ 0 \in Byte
  BY <1>1 DEF AtDlci, PppDlci, Control
<1> QED
  BY <1>1, <1>2, <1>3

-----------------------------------------------------------------------------
(* The line                                                                 *)

(* A fault takes bytes away or turns one into a plain byte: no mark comes.  *)
LEMMA DamagedIs ==
    ASSUME NEW bytes \in Seq(AnyByte), NEW b \in Damaged(bytes)
    PROVE  b \in Seq(AnyByte) /\ \A k : Within(MarksOf(k, b), MarksOf(k, bytes))
<1>1. CASE \E i \in DOMAIN bytes : b = RemoveAt(bytes, i)
  BY <1>1, MarksLost
<1>2. CASE \E i \in DOMAIN bytes, v \in Noise : b = ReplaceAt(bytes, i, Plain(v))
  <2>1. PICK i \in DOMAIN bytes, v \in Noise : b = ReplaceAt(bytes, i, Plain(v))
    BY <1>2
  <2>2. Plain(v) \in PlainByte
    BY PathConstants, ByteIs
  <2> QED
    BY <2>1, <2>2, MarksAltered
<1> QED
  BY <1>1, <1>2 DEF Damaged

LEMMA OnWireIs ==
    ASSUME faults \in 0 .. MaxFaults, NEW bytes \in Seq(AnyByte), OnWire(bytes)
    PROVE  /\ faults' \in 0 .. MaxFaults
           /\ \E b \in Seq(AnyByte) :
                  wire' = wire \o b /\ \A k : Within(MarksOf(k, b), MarksOf(k, bytes))
<1>1. CASE wire' = wire \o bytes /\ UNCHANGED faults
  <2>1. \A k : Within(MarksOf(k, bytes), MarksOf(k, bytes))
    <3> TAKE k
    <3>1. MarksOf(k, bytes) \in Seq(Mark)
      BY MarksType
    <3> QED
      BY <3>1, WithinSelf
  <2> QED
    BY <1>1, <2>1
<1>2. CASE /\ faults < MaxFaults /\ faults' = faults + 1
           /\ wire' \in {wire \o b : b \in Damaged(bytes)}
  <2>1. PICK b \in Damaged(bytes) : wire' = wire \o b
    BY <1>2
  <2>2. b \in Seq(AnyByte) /\ \A k : Within(MarksOf(k, b), MarksOf(k, bytes))
    BY DamagedIs
  <2>3. faults' \in 0 .. MaxFaults
    BY <1>2, PathConstants
  <2> QED
    BY <2>1, <2>2, <2>3
<1> QED
  BY <1>1, <1>2 DEF OnWire

(* A frame of the multiplexer names its header, and carries its data's      *)
(* marks.                                                                   *)
LEMMA UihIs ==
    ASSUME faults \in 0 .. MaxFaults, NEW dlci \in {AtDlci, PppDlci},
           NEW info \in Seq(PppByte), Len(info) <= N1, Uih(dlci, info)
    PROVE  /\ faults' \in 0 .. MaxFaults
           /\ Header(dlci, info) \in LineHead
           /\ \E b \in Seq(AnyByte) :
                  /\ wire' = wire \o b
                  /\ Within(MarksOf("head", b), <<{Header(dlci, info)}>>)
                  /\ Within(MarksOf("packet", b), MarksOf("packet", info))
<1> DEFINE cr == IF way.dir = "tx" THEN 1 ELSE 0
<1>1. PICK v \in FcsValues : OnWire(MakeFrame(dlci, cr, Control, info, v))
  BY DEF Uih
<1> DEFINE m == MakeFrame(dlci, cr, Control, info, v)
           h == Header(dlci, info)
<1>2. /\ dlci \in Nat /\ cr \in {0, 1} /\ Control \in Byte /\ 3 + 4 * dlci < 2 * LenBase
      /\ Len(info) < 2 * LenBase * LenBase /\ v \in Byte
  <2>1. dlci \in Byte /\ Byte \subseteq Nat /\ 3 + 4 * dlci < 2 * LenBase
    BY PathConstants, ByteIs
  <2>2. Len(info) < 2 * LenBase * LenBase
    <3> DEFINE top == 2 * LenBase * LenBase
    <3>1. top \in Nat
      BY PathConstants, Product
    <3>2. N1 < top /\ N1 \in Nat /\ Len(info) \in Nat
      BY PathConstants
    <3> HIDE DEF top
    <3>3. Len(info) < top
      BY <3>1, <3>2
    <3> QED
      BY <3>3 DEF top
  <2> QED
    BY <2>1, <2>2, PathConstants
<1>3. h = [dlci |-> dlci, len |-> Len(info)]
  BY DEF Header
<1> HIDE DEF cr
<1>4. /\ m \in Seq(AnyByte) /\ Within(MarksOf("head", m), <<{h}>>)
      /\ Within(MarksOf("packet", m), MarksOf("packet", info))
  BY <1>2, <1>3, MakeFrameMarks
<1>5. h \in LineHead
  <2>1. dlci \in Int /\ Len(info) \in Int
    BY <1>2
  <2> QED
    BY <1>3, <2>1, LineHeadIs
<1> HIDE DEF m, h
<1>6. faults' \in 0 .. MaxFaults
  BY <1>1, <1>4, OnWireIs DEF m
<1>7. PICK b \in Seq(AnyByte) :
          wire' = wire \o b /\ \A k : Within(MarksOf(k, b), MarksOf(k, m))
  BY <1>1, <1>4, OnWireIs DEF m
<1>8. /\ MarksOf("head", b) \in Seq(Mark) /\ MarksOf("head", m) \in Seq(Mark)
      /\ MarksOf("packet", b) \in Seq(Mark) /\ MarksOf("packet", m) \in Seq(Mark)
      /\ MarksOf("packet", info) \in Seq(Mark)
  BY <1>4, <1>7, MarksType
<1>9. <<{h}>> \in Seq(Mark)
  <2>1. {h} \in Mark
    BY <1>5, LineHeadIs DEF Mark
  <2> QED
    BY <2>1
<1> DEFINE y == <<{h}>>
<1>10. Within(MarksOf("head", b), y)
  <2>1. y \in Seq(Mark) /\ Within(MarksOf("head", m), y) /\ Within(MarksOf("head", b), MarksOf("head", m))
    BY <1>4, <1>7, <1>9
  <2> HIDE DEF y
  <2> QED
    BY <1>8, <2>1, WithinTrans
<1>11. Within(MarksOf("packet", b), MarksOf("packet", info))
  <2>1. Within(MarksOf("packet", b), MarksOf("packet", m))
    BY <1>7
  <2> QED
    BY <1>4, <1>8, <2>1, WithinTrans
<1> QED
  BY <1>5, <1>6, <1>7, <1>10, <1>11 DEF h

LEMMA MarksNone ==
    ASSUME NEW k
    PROVE  MarksOf(k, <<>>) = <<>> /\ <<>> \in Seq(AnyByte) /\ <<>> \in Seq(Mark)
BY DEF MarksOf

Sends(w, bytes, b, hs, rest) ==
    /\ wire' = wire \o b
    /\ left' = [left EXCEPT ![w] = rest]
    /\ way.dir = "serial" => rest = <<>>
    /\ sent'.frames = sent.frames \o hs
    /\ hs = <<>> \/ \E x \in LineHead : hs = <<x>>
    /\ Within(MarksOf("head", b), Labels(hs))
    /\ Within(MarksOf("packet", b) \o MarksOf("packet", rest), MarksOf("packet", bytes))

(* One call of send() in _send_ppp(): b goes on the line, hs is recorded,   *)
(* rest is left; the marks of b and rest are marks of bytes, in order.      *)
LEMMA SendChunkIs ==
    ASSUME TypeInv, NEW w \in Writer, NEW bytes \in Seq(PppByte), NEW packets \in Seq(Packet),
           NEW mixed \in BOOLEAN, way.dir = "serial" => left[w] = <<>>,
           SendChunk(w, bytes, packets, mixed)
    PROVE  /\ faults' \in 0 .. MaxFaults
           /\ sent' \in Sent /\ sent'.packets = packets
           /\ \E b \in Seq(AnyByte), hs \in Seq(LineHead), rest \in Seq(PppByte) :
                  Sends(w, bytes, b, hs, rest)
<1> DEFINE none == <<>>
<1>1. /\ wire \in Seq(AnyByte) /\ left \in [Writer -> Seq(PppByte)] /\ faults \in 0 .. MaxFaults
      /\ sent \in Sent /\ sent.frames \in Seq(LineHead)
  BY DEF TypeInv, Underway, Bounded, Sent
<1>2. /\ none \in Seq(AnyByte) /\ none \in Seq(LineHead) /\ none \in Seq(PppByte) /\ none \in Seq(Mark)
      /\ Labels(none) = none /\ \A k : MarksOf(k, none) = none
  BY MarksNone DEF Labels
<1>3. bytes \in Seq(AnyByte) /\ Within(MarksOf("head", bytes), none)
  <2>1. bytes \in Seq(AnyByte)
    BY PppByteIs
  <2>2. \A i \in 1 .. Len(bytes) : MarkOf("head", bytes[i]) = {}
    BY PppByteIs
  <2> HIDE DEF none
  <2> QED
    BY <2>1, <2>2, MarksBlank
<1>4. CASE way.dir = "serial"
  <2>1. OnWire(bytes) /\ sent' = [sent EXCEPT !.packets = packets] /\ left' = left
    BY <1>4 DEF SendChunk
  <2>2. faults' \in 0 .. MaxFaults
    BY <1>1, <1>3, <2>1, OnWireIs
  <2>3. PICK b \in Seq(AnyByte) :
            wire' = wire \o b /\ \A k : Within(MarksOf(k, b), MarksOf(k, bytes))
    BY <1>1, <1>3, <2>1, OnWireIs
  <2>4. sent' \in Sent /\ sent'.packets = packets /\ sent'.frames = sent.frames
    BY <1>1, <2>1 DEF Sent
  <2>5. left' = [left EXCEPT ![w] = none]
    BY <1>1, <1>4, <2>1
  <2>6. sent.frames \o none = sent.frames
    BY <1>1, Regroup
  <2>7. /\ MarksOf("head", b) \in Seq(Mark) /\ MarksOf("head", bytes) \in Seq(Mark)
        /\ MarksOf("packet", b) \in Seq(Mark)
    BY <1>3, <2>3, MarksType
  <2> HIDE DEF none
  <2>8. Within(MarksOf("head", b), none)
    BY <1>2, <1>3, <2>3, <2>7, WithinTrans
  <2>9. Within(MarksOf("packet", b) \o MarksOf("packet", none), MarksOf("packet", bytes))
    <3>1. MarksOf("packet", b) \o none = MarksOf("packet", b)
      BY <2>7, Regroup DEF none
    <3> QED
      BY <1>2, <2>3, <3>1
  <2>10. none = <<>>
    BY DEF none
  <2>11. Sends(w, bytes, b, none, none)
    BY <1>2, <2>3, <2>4, <2>5, <2>6, <2>8, <2>9, <2>10 DEF Sends
  <2> QED
    BY <1>2, <2>2, <2>3, <2>4, <2>11
<1>5. CASE way.dir # "serial"
  <2> DEFINE n == IF Len(bytes) < N1 THEN Len(bytes) ELSE N1
             chunk == SubSeq(bytes, 1, n)
             rest == SubSeq(bytes, n + 1, Len(bytes))
             h == Header(PppDlci, chunk)
             one == <<h>>
  <2>1. /\ left' = [left EXCEPT ![w] = rest]
        /\ \/ /\ Uih(PppDlci, chunk)
              /\ sent' = [sent EXCEPT !.packets = packets, !.mixed = mixed,
                                      !.frames = Append(@, h)]
           \/ /\ faults < MaxFaults /\ faults' = faults + 1
              /\ sent' = [sent EXCEPT !.packets = packets, !.mixed = mixed]
              /\ UNCHANGED wire
    BY <1>5 DEF SendChunk
  <2>2. n \in 0 .. Len(bytes) /\ n <= N1
    BY PathConstants
  <2>3. /\ chunk \in Seq(PppByte) /\ rest \in Seq(PppByte) /\ bytes = chunk \o rest
        /\ Len(chunk) = n
    <3>1. n + 1 \in 1 .. Len(bytes) + 1 /\ (n + 1) - 1 = n /\ Len(bytes) \in Nat
      <4> HIDE DEF n
      <4> QED
        BY <2>2
    <3> HIDE DEF n
    <3>2. SubSeq(bytes, 1, Len(bytes)) = SubSeq(bytes, 1, (n + 1) - 1) \o SubSeq(bytes, n + 1, Len(bytes))
      <4> DEFINE a == n + 1
      <4>1. 1 \in 1 .. Len(bytes) + 1 /\ a \in 1 .. Len(bytes) + 1
        BY <3>1
      <4> HIDE DEF a
      <4>2. SubSeq(bytes, 1, Len(bytes)) = SubSeq(bytes, 1, a - 1) \o SubSeq(bytes, a, Len(bytes))
        BY <4>1, Tails
      <4> QED
        BY <4>2 DEF a
    <3>3. SubSeq(bytes, 1, Len(bytes)) = bytes
      BY SubSeqFull
    <3>4. chunk \in Seq(PppByte) /\ rest \in Seq(PppByte) /\ Len(chunk) = n
      BY <2>2, <3>1
    <3> QED
      BY <3>1, <3>2, <3>3, <3>4
  <2> HIDE DEF n, chunk, rest, h, none
  <2>4. chunk \in Seq(AnyByte) /\ rest \in Seq(AnyByte)
    BY <2>3, PppByteIs
  <2> DEFINE c == MarksOf("packet", chunk)
             r == MarksOf("packet", rest)
  <2>5. MarksOf("packet", bytes) = c \o r /\ c \in Seq(Mark) /\ r \in Seq(Mark) /\ Within(r, r)
    <3>1. MarksOf("packet", bytes) = c \o r
      BY <2>3, <2>4, MarksConcat
    <3>2. c \in Seq(Mark) /\ r \in Seq(Mark)
      BY <2>4, MarksType
    <3> HIDE DEF c, r
    <3> QED
      BY <3>1, <3>2, WithinSelf
  <2>6. CASE /\ Uih(PppDlci, chunk)
             /\ sent' = [sent EXCEPT !.packets = packets, !.mixed = mixed, !.frames = Append(@, h)]
    <3>1. /\ faults' \in 0 .. MaxFaults /\ h \in LineHead
          /\ \E b \in Seq(AnyByte) :
                 /\ wire' = wire \o b
                 /\ Within(MarksOf("head", b), <<{h}>>)
                 /\ Within(MarksOf("packet", b), c)
      BY <1>1, <2>2, <2>3, <2>6, UihIs DEF h
    <3>2. PICK b \in Seq(AnyByte) :
                 /\ wire' = wire \o b
                 /\ Within(MarksOf("head", b), <<{h}>>)
                 /\ Within(MarksOf("packet", b), c)
      BY <3>1
    <3>3. sent' \in Sent /\ sent'.packets = packets /\ sent'.frames = Append(sent.frames, h)
      <4>1. Append(sent.frames, h) \in Seq(LineHead)
        BY <1>1, <3>1
      <4> QED
        BY <1>1, <2>6, <4>1 DEF Sent
    <3>4. one \in Seq(LineHead) /\ Labels(one) = <<{h}>>
      BY <3>1, LabelsOne
    <3>5. Append(sent.frames, h) = sent.frames \o one
      BY <1>1, <3>1, AppendIsConcat
    <3>6. MarksOf("packet", b) \in Seq(Mark)
      BY <3>2, MarksType
    <3>8. Within(MarksOf("packet", b) \o r, c \o r)
      <4> DEFINE x == MarksOf("packet", b)
      <4>1. x \in Seq(Mark) /\ Within(x, c)
        BY <3>2, <3>6
      <4> HIDE DEF x, c, r
      <4>2. Within(x \o r, c \o r)
        BY <2>5, <4>1, WithinConcat
      <4> QED
        BY <4>2 DEF x
    <3>9. Sends(w, bytes, b, one, rest)
      BY <1>5, <2>1, <2>5, <3>1, <3>2, <3>3, <3>4, <3>5, <3>8 DEF Sends
    <3> QED
      BY <2>3, <3>1, <3>3, <3>4, <3>9
  <2>7. CASE /\ faults < MaxFaults /\ faults' = faults + 1
             /\ sent' = [sent EXCEPT !.packets = packets, !.mixed = mixed]
             /\ UNCHANGED wire
    <3>1. faults' \in 0 .. MaxFaults
      BY <1>1, <2>7, PathConstants, SMTT(20)
    <3>2. sent' \in Sent /\ sent'.packets = packets /\ sent'.frames = sent.frames
      BY <1>1, <2>7 DEF Sent
    <3>3. wire' = wire \o none /\ sent.frames \o none = sent.frames
      BY <1>1, <2>7, Regroup DEF none
    <3>4. Within(none, none) /\ Within(none, c)
      BY WithinNone DEF none
    <3>5. Within(none \o r, c \o r)
      <4> HIDE DEF c, r
      <4> QED
        BY <1>2, <2>5, <3>4, WithinConcat
    <3>6. /\ Within(MarksOf("head", none), Labels(none))
          /\ Within(MarksOf("packet", none) \o r, c \o r)
      BY <1>2, <3>4, <3>5
    <3>7. none = <<>>
      BY DEF none
    <3>8. Sends(w, bytes, none, none, rest)
      BY <1>5, <2>1, <2>5, <3>2, <3>3, <3>6, <3>7 DEF Sends
    <3> QED
      BY <1>2, <2>3, <3>1, <3>2, <3>8
  <2> QED
    BY <2>1, <2>6, <2>7
<1> QED
  BY <1>4, <1>5

(* A step of the line's near end: b goes on the line, hs and ps are sent,   *)
(* rest is what the thread has left.                                        *)
Puts(w, b, hs, ps, rest) ==
    /\ wire' = wire \o b
    /\ left' = [left EXCEPT ![w] = rest]
    /\ w = "two" => way.dir = "tx"
    /\ way.dir = "serial" => rest = <<>>
    /\ sent'.frames = sent.frames \o hs /\ sent'.packets = sent.packets \o ps
    /\ hs = <<>> \/ \E x \in LineHead : hs = <<x>>
    /\ ps = <<>> \/ \E x \in Packet : ps = <<x>>
    /\ Within(MarksOf("head", b), Labels(hs))
    /\ Within(MarksOf("packet", b) \o MarksOf("packet", rest),
              MarksOf("packet", left[w]) \o Labels(ps))

Puttable(w) ==
    /\ faults' \in 0 .. MaxFaults /\ sent' \in Sent /\ sends' \in 0 .. MaxSends
    /\ \E b \in Seq(AnyByte), hs \in Seq(LineHead), ps \in Seq(Packet), rest \in Seq(PppByte) :
           Puts(w, b, hs, ps, rest)

LEMMA SendPacketPuts ==
    ASSUME TypeInv, NEW w \in Writer, SendPacket(w)
    PROVE  Puttable(w)
<1> DEFINE mixed == sent.mixed \/ \E o \in Writer : left[o] # <<>>
           none == <<>>
<1>1. /\ sends < MaxSends
      /\ w = "two" => way.dir = "tx"
      /\ left[w] = none /\ sends' = sends + 1
  BY DEF SendPacket
<1>2. PICK p \in Packets :
          SendChunk(w, MakePppFrame(p.packet, p.compressed), Append(sent.packets, p.packet), mixed)
  BY DEF SendPacket
<1>3. sent \in Sent /\ sent.packets \in Seq(Packet) /\ sent.mixed \in BOOLEAN /\ mixed \in BOOLEAN
  BY DEF TypeInv, Sent
<1> DEFINE x == p.packet
           c == p.compressed
           bytes == MakePppFrame(x, c)
           one == <<x>>
           packets == Append(sent.packets, x)
<1>4. x \in Packet /\ Fit(x, c)
  BY PathAssumption DEF Sendable, Packet, Fit
<1> HIDE DEF x, c
<1>5. bytes \in Seq(PppByte) /\ Within(MarksOf("packet", bytes), <<{x}>>)
  BY <1>4, MakePppFrameMarks
<1>6. SendChunk(w, bytes, packets, mixed)
  BY <1>2 DEF x, c
<1>7. packets \in Seq(Packet) /\ packets = sent.packets \o one /\ one \in Seq(Packet)
  BY <1>3, <1>4, AppendIsConcat
<1> HIDE DEF mixed, bytes, packets, none
<1>8. /\ faults' \in 0 .. MaxFaults /\ sent' \in Sent /\ sent'.packets = packets
      /\ \E b \in Seq(AnyByte), hs \in Seq(LineHead), rest \in Seq(PppByte) :
             Sends(w, bytes, b, hs, rest)
  <2>1. way.dir = "serial" => left[w] = <<>>
    BY <1>1 DEF none
  <2> QED
    BY <1>3, <1>5, <1>6, <1>7, <2>1, SendChunkIs
<1>9. PICK b \in Seq(AnyByte), hs \in Seq(LineHead), rest \in Seq(PppByte) :
          Sends(w, bytes, b, hs, rest)
  BY <1>8
<1> DEFINE m == MarksOf("packet", b) \o MarksOf("packet", rest)
           mb == MarksOf("packet", bytes)
<1>10. m \in Seq(Mark) /\ mb \in Seq(Mark)
  <2>1. MarksOf("packet", b) \in Seq(Mark) /\ MarksOf("packet", rest) \in Seq(Mark)
    BY MarksType
  <2>2. mb \in Seq(Mark)
    BY <1>5, MarksType
  <2> QED
    BY <2>1, <2>2, Regroup
<1>11. Labels(one) = <<{x}>> /\ Labels(one) \in Seq(Mark)
  <2>1. one \in Seq(Label)
    BY <1>4, PacketLabel
  <2> QED
    BY <2>1, LabelsType, LabelsOne
<1> DEFINE y == Labels(one)
<1>12. Within(m, y)
  <2>1. Within(m, mb) /\ Within(mb, y)
    BY <1>5, <1>9, <1>11 DEF Sends
  <2>2. y \in Seq(Mark)
    BY <1>11
  <2> HIDE DEF m, mb, y
  <2> QED
    BY <1>10, <2>1, <2>2, WithinTrans
<1>13. MarksOf("packet", left[w]) \o y = y
  <2>1. MarksOf("packet", left[w]) = <<>>
    BY <1>1, MarksNone DEF none
  <2>2. y \in Seq(Mark)
    BY <1>11
  <2> HIDE DEF y
  <2> QED
    BY <2>1, <2>2, Regroup
<1>14. sends' \in 0 .. MaxSends
  <2>1. MaxSends \in Nat
    BY PathConstants
  <2>2. sends \in 0 .. MaxSends /\ sends < MaxSends /\ sends' = sends + 1
    BY <1>1 DEF TypeInv, Bounded
  <2> QED
    BY <2>1, <2>2
<1>15. Puts(w, b, hs, one, rest)
  <2>1. \E z \in Packet : one = <<z>>
    BY <1>4
  <2>2. Within(MarksOf("packet", b) \o MarksOf("packet", rest), MarksOf("packet", left[w]) \o Labels(one))
    BY <1>12, <1>13
  <2>3. sent'.packets = sent.packets \o one
    BY <1>7, <1>8
  <2> HIDE DEF one
  <2> QED
    BY <1>1, <1>9, <2>1, <2>2, <2>3 DEF Puts, Sends
<1> QED
  BY <1>7, <1>8, <1>14, <1>15 DEF Puttable

LEMMA NextChunkPuts ==
    ASSUME TypeInv, NEW w \in Writer, NextChunk(w)
    PROVE  Puttable(w)
<1> DEFINE bytes == left[w]
           none == <<>>
<1>1. /\ bytes # <<>> /\ sends' = sends
      /\ SendChunk(w, bytes, sent.packets, sent.mixed)
  BY DEF NextChunk
<1>2. /\ sent \in Sent /\ sent.packets \in Seq(Packet) /\ sent.mixed \in BOOLEAN
      /\ bytes \in Seq(PppByte)
      /\ w = "two" => way.dir = "tx"
      /\ way.dir = "serial" => bytes = <<>>
      /\ sends' \in 0 .. MaxSends
  BY <1>1 DEF TypeInv, Sent, Underway, Bounded
<1>3. /\ faults' \in 0 .. MaxFaults /\ sent' \in Sent /\ sent'.packets = sent.packets
      /\ \E b \in Seq(AnyByte), hs \in Seq(LineHead), rest \in Seq(PppByte) :
             Sends(w, bytes, b, hs, rest)
  <2> HIDE DEF bytes
  <2>1. way.dir = "serial" => left[w] = <<>>
    BY <1>2 DEF bytes
  <2> QED
    BY <1>1, <1>2, <2>1, SendChunkIs
<1>4. PICK b \in Seq(AnyByte), hs \in Seq(LineHead), rest \in Seq(PppByte) :
          Sends(w, bytes, b, hs, rest)
  BY <1>3
<1>5. none \in Seq(Packet) /\ sent.packets \o none = sent.packets /\ Labels(none) = <<>>
  <2>1. sent.packets \o <<>> = sent.packets
    BY <1>2, Regroup
  <2>2. Labels(<<>>) = <<>>
    BY LabelsOne
  <2> QED
    BY <2>1, <2>2
<1>6. MarksOf("packet", bytes) \o Labels(none) = MarksOf("packet", bytes)
  <2>1. MarksOf("packet", bytes) \in Seq(Mark)
    BY <1>2, MarksType
  <2> QED
    BY <1>5, <2>1, Regroup
<1>7. none = <<>>
  OBVIOUS
<1> HIDE DEF none
<1>8. Puts(w, b, hs, none, rest)
  BY <1>2, <1>3, <1>4, <1>5, <1>6, <1>7 DEF Puts, Sends
<1> QED
  BY <1>2, <1>3, <1>5, <1>8 DEF Puttable

(* A text carries no packet.                                                *)
LEMMA ModemTextPuts ==
    ASSUME TypeInv, ModemText
    PROVE  Puttable("one")
<1> DEFINE none == <<>>
           l == left["one"]
<1>1. /\ wire \in Seq(AnyByte) /\ left \in [Writer -> Seq(PppByte)] /\ faults \in 0 .. MaxFaults
      /\ sent \in Sent /\ sent.frames \in Seq(LineHead) /\ sent.packets \in Seq(Packet)
      /\ l \in Seq(PppByte) /\ l \in Seq(AnyByte) /\ "one" \in Writer
      /\ way.dir = "serial" => l = <<>>
      /\ sends' \in 0 .. MaxSends /\ left' = [left EXCEPT !["one"] = l]
  <2>1. /\ wire \in Seq(AnyByte) /\ left \in [Writer -> Seq(PppByte)] /\ faults \in 0 .. MaxFaults
        /\ sent \in Sent /\ "one" \in Writer
        /\ way.dir = "serial" => l = <<>>
    BY DEF TypeInv, Underway, Bounded, Writer
  <2>2. sent.frames \in Seq(LineHead) /\ sent.packets \in Seq(Packet)
    BY <2>1 DEF Sent
  <2>3. l \in Seq(PppByte) /\ l \in Seq(AnyByte)
    BY <2>1, PppByteIs
  <2>4. sends' \in 0 .. MaxSends
    BY PathConstants, SMTT(20) DEF ModemText, TypeInv, Bounded
  <2>5. left' = [left EXCEPT !["one"] = l]
    BY <2>1 DEF ModemText
  <2> QED
    BY <2>1, <2>2, <2>3, <2>4, <2>5
<1>2. PICK t \in Texts :
          LET info == [i \in DOMAIN t |-> Plain(t[i])] IN
          IF way.dir = "serial"
          THEN OnWire(info) /\ UNCHANGED sent
          ELSE /\ Uih(AtDlci, info)
               /\ sent' = [sent EXCEPT !.frames = Append(@, Header(AtDlci, info))]
  BY DEF ModemText
<1> DEFINE info == [i \in DOMAIN t |-> Plain(t[i])]
<1>3. /\ info \in Seq(PlainByte) /\ info \in Seq(PppByte) /\ info \in Seq(AnyByte)
      /\ Len(info) <= N1
      /\ \A k : Within(MarksOf(k, info), none)
  <2>1. t \in Seq(Byte) /\ Len(t) \in 1 .. N1
    BY PathAssumption
  <2>2. DOMAIN t = 1 .. Len(t) /\ Len(t) \in Nat /\ \A i \in 1 .. Len(t) : t[i] \in Byte
    BY <2>1
  <2>3. info \in Seq(PlainByte) /\ Len(info) = Len(t) /\ \A i \in 1 .. Len(info) : info[i] \in PlainByte
    <3> DEFINE n == Len(t)
    <3>1. info = [i \in 1 .. n |-> Plain(t[i])] /\ n \in Nat
      BY <2>2
    <3>2. \A i \in 1 .. n : Plain(t[i]) \in PlainByte
      BY <2>2 DEF PlainByte
    <3> HIDE DEF n, info
    <3>3. info \in Seq(PlainByte) /\ Len(info) = n /\ \A i \in 1 .. n : info[i] \in PlainByte
      BY <3>1, <3>2
    <3> QED
      BY <3>3 DEF n
  <2>4. info \in Seq(PppByte)
    BY <2>2, <2>3 DEF PppByte
  <2>5. info \in Seq(AnyByte)
    BY <2>2, <2>3, ByteIs
  <2> HIDE DEF info, none
  <2>6. ASSUME NEW k
        PROVE  Within(MarksOf(k, info), none)
    <3>1. \A i \in 1 .. Len(info) : MarkOf(k, info[i]) = {}
      BY <2>3, MarkIs
    <3> QED
      BY <2>3, <3>1, MarksBlank
  <2>7. Len(info) <= N1
    BY <2>1, <2>2, <2>3, PathConstants
  <2> QED
    BY <2>3, <2>4, <2>5, <2>6, <2>7
<1>4. /\ none \in Seq(AnyByte) /\ none \in Seq(LineHead) /\ none \in Seq(Packet) /\ none \in Seq(Mark)
      /\ Labels(none) = none /\ none = <<>>
      /\ sent.packets \o none = sent.packets /\ sent.frames \o none = sent.frames
  <2>1. sent.packets \o <<>> = sent.packets
    BY <1>1, Regroup
  <2>2. sent.frames \o <<>> = sent.frames
    BY <1>1, Regroup
  <2>3. Labels(<<>>) = <<>>
    BY LabelsOne
  <2>4. none \in Seq(AnyByte) /\ none \in Seq(LineHead) /\ none \in Seq(Packet) /\ none \in Seq(Mark)
    OBVIOUS
  <2> QED
    BY <2>1, <2>2, <2>3, <2>4
<1>5. /\ MarksOf("packet", info) \in Seq(Mark) /\ MarksOf("head", info) \in Seq(Mark)
      /\ MarksOf("packet", l) \in Seq(Mark)
      /\ MarksOf("packet", l) \o none = MarksOf("packet", l)
      /\ Within(MarksOf("packet", l), MarksOf("packet", l))
  <2>1. MarksOf("packet", info) \in Seq(Mark) /\ MarksOf("head", info) \in Seq(Mark)
    BY <1>3, MarksType
  <2>2. MarksOf("packet", l) \in Seq(Mark)
    BY <1>1, MarksType
  <2> QED
    BY <2>1, <2>2, Regroup, WithinSelf
<1> HIDE DEF info, none, l
<1>6. ASSUME NEW b \in Seq(AnyByte), Within(MarksOf("packet", b), MarksOf("packet", info))
      PROVE  Within(MarksOf("packet", b) \o MarksOf("packet", l), MarksOf("packet", l) \o Labels(none))
  <2> DEFINE m == MarksOf("packet", b)
             i == MarksOf("packet", info)
             r == MarksOf("packet", l)
  <2>1. m \in Seq(Mark)
    BY MarksType
  <2>2. Within(m, i) /\ Within(i, none) /\ i \in Seq(Mark) /\ r \in Seq(Mark) /\ Within(r, r)
    BY <1>3, <1>5, <1>6
  <2> HIDE DEF m, i, r
  <2>3. Within(m, none)
    BY <1>4, <2>1, <2>2, WithinTrans
  <2>4. Within(m \o r, none \o r)
    BY <1>4, <2>1, <2>2, <2>3, WithinConcat
  <2>5. none \o r = r /\ r \o none = r
    BY <1>4, <2>2, Regroup
  <2> QED
    BY <1>4, <2>4, <2>5 DEF m, r
<1>7. CASE way.dir = "serial"
  <2>1. OnWire(info) /\ sent' = sent
    BY <1>2, <1>7 DEF info
  <2>2. faults' \in 0 .. MaxFaults
    BY <1>1, <1>3, <2>1, OnWireIs
  <2>3. PICK b \in Seq(AnyByte) :
            wire' = wire \o b /\ \A k : Within(MarksOf(k, b), MarksOf(k, info))
    BY <1>1, <1>3, <2>1, OnWireIs
  <2>4. Within(MarksOf("head", b), none)
    <3>1. MarksOf("head", b) \in Seq(Mark)
      BY MarksType
    <3>2. Within(MarksOf("head", info), none)
      BY <1>3
    <3> QED
      BY <1>4, <1>5, <2>3, <3>1, <3>2, WithinTrans
  <2>5. Within(MarksOf("packet", b) \o MarksOf("packet", l), MarksOf("packet", l) \o Labels(none))
    BY <1>6, <2>3
  <2>6. MarksOf("packet", left["one"]) = MarksOf("packet", l) /\ (way.dir = "serial" => l = <<>>)
    BY <1>1 DEF l
  <2>7. Puts("one", b, none, none, l)
    BY <1>1, <1>4, <2>1, <2>3, <2>4, <2>5, <2>6 DEF Puts
  <2> QED
    BY <1>1, <1>4, <2>1, <2>2, <2>7 DEF Puttable
<1>8. CASE way.dir # "serial"
  <2> DEFINE h == Header(AtDlci, info)
             one == <<h>>
  <2>1. Uih(AtDlci, info) /\ sent' = [sent EXCEPT !.frames = Append(@, h)]
    BY <1>2, <1>8 DEF info
  <2>2. /\ faults' \in 0 .. MaxFaults /\ h \in LineHead
        /\ \E b \in Seq(AnyByte) :
               /\ wire' = wire \o b
               /\ Within(MarksOf("head", b), <<{h}>>)
               /\ Within(MarksOf("packet", b), MarksOf("packet", info))
    BY <1>1, <1>3, <2>1, UihIs
  <2> HIDE DEF h
  <2>3. PICK b \in Seq(AnyByte) :
               /\ wire' = wire \o b
               /\ Within(MarksOf("head", b), <<{h}>>)
               /\ Within(MarksOf("packet", b), MarksOf("packet", info))
    BY <2>2
  <2>4. /\ sent' \in Sent /\ sent'.frames = sent.frames \o one /\ sent'.packets = sent.packets
        /\ one \in Seq(LineHead) /\ Labels(one) = <<{h}>>
    <3>1. Append(sent.frames, h) \in Seq(LineHead) /\ Append(sent.frames, h) = sent.frames \o one
      BY <1>1, <2>2, AppendIsConcat
    <3>2. sent' \in Sent /\ sent'.frames = Append(sent.frames, h) /\ sent'.packets = sent.packets
      BY <1>1, <2>1, <3>1 DEF Sent
    <3>3. one \in Seq(LineHead) /\ Labels(one) = <<{h}>>
      BY <2>2, LabelsOne
    <3> QED
      BY <3>1, <3>2, <3>3
  <2>5. Within(MarksOf("packet", b) \o MarksOf("packet", l), MarksOf("packet", l) \o Labels(none))
    BY <1>6, <2>3
  <2>6. MarksOf("packet", left["one"]) = MarksOf("packet", l) /\ (way.dir = "serial" => l = <<>>)
    BY <1>1 DEF l
  <2>7. Puts("one", b, one, none, l)
    BY <1>1, <1>4, <2>2, <2>3, <2>4, <2>5, <2>6 DEF Puts
  <2> QED
    BY <1>1, <1>4, <2>2, <2>4, <2>7 DEF Puttable
<1> QED
  BY <1>7, <1>8

-----------------------------------------------------------------------------
(* The far end                                                              *)

(* A read: the heads of the new frames and what stays in the buffer are of  *)
(* what was there and raw, in that order.                                   *)
Reads(raw, hs) ==
    /\ wire = raw \o wire'
    /\ got'.frames = got.frames \o hs /\ got'.packets = got.packets
    /\ got'.fed = got.fed /\ got'.told = got.told /\ got'.mark = got.mark
    /\ Within(Labels(hs) \o MarksOf("head", buf'), MarksOf("head", buf \o raw))
    /\ Within(MarksOf("packet", FlattenSeq(InfosOf(queue')) \o buf'), MarksOf("packet", buf \o raw))

Readable ==
    /\ splits' \in 0 .. MaxSplits
    /\ wire' \in Seq(AnyByte) /\ buf' \in Seq(AnyByte) /\ queue' \in Seq(Frame) /\ got' \in Got
    /\ way.dir = "serial" => buf' = <<>>
    /\ \E raw \in Seq(AnyByte), hs \in Seq(LineHead) : Reads(raw, hs)

LEMMA HeadsAreLabels ==
    ASSUME NEW q \in Seq(Frame)
    PROVE  LET hs == [i \in DOMAIN q |-> Header(q[i].dlci, q[i].info)] IN
           hs \in Seq(LineHead) /\ Labels(hs) = HeadsOf(q)
<1> DEFINE hs == [i \in DOMAIN q |-> Header(q[i].dlci, q[i].info)]
           n == Len(q)
<1>1. n \in Nat /\ DOMAIN q = 1 .. n /\ \A i \in 1 .. n : q[i] \in Frame
  OBVIOUS
<1>2. \A f \in Frame : Header(f.dlci, f.info) \in LineHead /\ Header(f.dlci, f.info) = HeadOf(f)
  <2>1. \A f \in Frame : f.dlci \in Byte /\ f.info \in Seq(AnyByte)
    BY DEF Frame
  <2>2. \A f \in Frame : f.dlci \in Int /\ Len(f.info) \in Int
    <3>1. Byte \subseteq Int
      BY ByteIs
    <3>2. \A s \in Seq(AnyByte) : Len(s) \in Int
      OBVIOUS
    <3> QED
      BY <2>1, <3>1, <3>2
  <2> QED
    BY <2>2, LineHeadIs DEF Header, HeadOf
<1>3. hs = [i \in 1 .. n |-> Header(q[i].dlci, q[i].info)]
  BY <1>1
<1>4. hs \in Seq(LineHead) /\ DOMAIN hs = 1 .. n
  BY <1>1, <1>2, <1>3
<1>5. Labels(hs) = [i \in 1 .. n |-> {Header(q[i].dlci, q[i].info)}]
  BY <1>3, <1>4 DEF Labels
<1>6. HeadsOf(q) = [i \in 1 .. n |-> {HeadOf(q[i])}]
  BY <1>1 DEF HeadsOf
<1>7. \A i \in 1 .. n : {Header(q[i].dlci, q[i].info)} = {HeadOf(q[i])}
  BY <1>1, <1>2
<1> HIDE DEF n
<1> QED
  BY <1>4, <1>5, <1>6, <1>7

LEMMA ReadReads ==
    ASSUME TypeInv, Read
    PROVE  Readable
<1>1. /\ wire \in Seq(AnyByte) /\ buf \in Seq(AnyByte) /\ got \in Got
      /\ way.dir = "serial" => buf = <<>>
      /\ got.frames \in Seq(LineHead) /\ splits \in 0 .. MaxSplits
  BY DEF TypeInv, Underway, Got, Bounded
<1>2. PICK n \in 1 .. Len(wire) :
        LET raw == SubSeq(wire, 1, n)
            parsed == Parse(buf \o raw)
            frames == parsed.frames
        IN  /\ n < Len(wire) => splits < MaxSplits
            /\ splits' = splits + IF n < Len(wire) THEN 1 ELSE 0
            /\ wire' = SubSeq(wire, n + 1, Len(wire))
            /\ IF way.dir = "serial"
               THEN /\ queue' = <<[dlci |-> 0, info |-> raw]>>
                    /\ UNCHANGED <<buf, got>>
               ELSE /\ buf' = parsed.buffer
                    /\ queue' = frames
                    /\ got' = [got EXCEPT !.frames = @ \o
                           [i \in DOMAIN frames |-> Header(frames[i].dlci, frames[i].info)]]
  BY DEF Read
<1> DEFINE raw == SubSeq(wire, 1, n)
           none == <<>>
<1>3. splits' \in 0 .. MaxSplits
  <2>1. MaxSplits \in Nat
    BY PathConstants
  <2>2. \/ n < Len(wire) /\ splits < MaxSplits /\ splits' = splits + 1
        \/ splits' = splits
    BY <1>1, <1>2
  <2> QED
    BY <1>1, <2>1, <2>2
<1>4. raw \in Seq(AnyByte) /\ wire' \in Seq(AnyByte) /\ wire = raw \o wire'
  <2> DEFINE a == n + 1
  <2>1. 1 \in 1 .. Len(wire) + 1 /\ a \in 1 .. Len(wire) + 1 /\ a - 1 = n /\ Len(wire) \in Nat
    BY <1>1, <1>2, SMTT(20)
  <2> HIDE DEF a
  <2>2. /\ SubSeq(wire, a, Len(wire)) \in Seq(AnyByte) /\ SubSeq(wire, 1, a - 1) \in Seq(AnyByte)
        /\ SubSeq(wire, 1, Len(wire)) = SubSeq(wire, 1, a - 1) \o SubSeq(wire, a, Len(wire))
    BY <1>1, <2>1, Tails
  <2>3. SubSeq(wire, 1, Len(wire)) = wire
    BY <1>1, SubSeqFull
  <2>4. wire' = SubSeq(wire, a, Len(wire))
    BY <1>2 DEF a
  <2> QED
    BY <2>1, <2>2, <2>3, <2>4
<1> HIDE DEF raw
<1>5. CASE way.dir = "serial"
  <2> DEFINE f == [dlci |-> 0, info |-> raw]
             one == <<f>>
  <2>1. queue' = one /\ buf' = buf /\ got' = got
    BY <1>2, <1>5 DEF raw
  <2>2. f \in Frame /\ one \in Seq(Frame) /\ f.info = raw
    BY <1>4, PathConstants DEF Frame
  <2>3. InfosOf(queue') = <<raw>>
    <3>1. InfosOf(<<f>>) = <<f.info>>
      BY <2>2, HeadsOne
    <3> QED
      BY <2>1, <2>2, <3>1
  <2>4. FlattenSeq(InfosOf(queue')) = raw
    BY <1>4, <2>3, FlattenOne
  <2>5. buf = <<>> /\ buf \o raw = raw /\ raw \o buf = raw
    BY <1>1, <1>4, <1>5, Regroup
  <2>6. got.frames \o none = got.frames /\ Labels(none) \o MarksOf("head", buf) = none
    <3>1. MarksOf("head", buf) = none /\ Labels(none) = none
      BY <2>5, MarksNone, LabelsOne
    <3> QED
      BY <1>1, <3>1, Regroup
  <2>7. Within(none, MarksOf("head", raw))
    BY WithinNone
  <2>8. Within(MarksOf("packet", raw), MarksOf("packet", raw))
    BY <1>4, MarksType, WithinSelf
  <2>9. none \in Seq(LineHead)
    OBVIOUS
  <2> HIDE DEF none, one
  <2>10. Reads(raw, none)
    BY <1>4, <2>1, <2>4, <2>5, <2>6, <2>7, <2>8 DEF Reads
  <2> QED
    BY <1>1, <1>3, <1>4, <2>1, <2>2, <2>5, <2>9, <2>10 DEF Readable
<1>6. CASE way.dir # "serial"
  <2> DEFINE s == buf \o raw
             parsed == Parse(s)
             frames == parsed.frames
             hs == [i \in DOMAIN frames |-> Header(frames[i].dlci, frames[i].info)]
  <2>1. /\ buf' = parsed.buffer /\ queue' = frames
        /\ got' = [got EXCEPT !.frames = @ \o hs]
    BY <1>2, <1>6 DEF raw
  <2>2. s \in Seq(AnyByte)
    BY <1>1, <1>4
  <2> HIDE DEF s
  <2>3. /\ parsed \in Results
        /\ Within(HeadsOf(frames) \o MarksOf("head", parsed.buffer), MarksOf("head", s))
        /\ Within(MarksOf("packet", FlattenSeq(InfosOf(frames)) \o parsed.buffer), MarksOf("packet", s))
    BY <2>2, ParseKeeps DEF MadeOf
  <2>4. parsed.buffer \in Seq(AnyByte) /\ frames \in Seq(Frame)
    BY <2>3 DEF Results
  <2> HIDE DEF parsed, frames
  <2>5. hs \in Seq(LineHead) /\ Labels(hs) = HeadsOf(frames)
    BY <2>4, HeadsAreLabels
  <2> HIDE DEF hs
  <2>6. got' \in Got /\ got'.frames = got.frames \o hs /\ got'.packets = got.packets
        /\ got'.fed = got.fed /\ got'.told = got.told /\ got'.mark = got.mark
    <3>1. got.frames \o hs \in Seq(LineHead)
      BY <1>1, <2>5
    <3> QED
      BY <1>1, <2>1, <3>1 DEF Got
  <2>7. Reads(raw, hs)
    BY <1>4, <2>1, <2>3, <2>5, <2>6 DEF Reads, s
  <2> QED
    BY <1>3, <1>4, <1>6, <2>1, <2>4, <2>5, <2>6, <2>7 DEF Readable
<1> QED
  BY <1>5, <1>6

(* A frame is dispatched: the packets it completes and what PPP keeps are   *)
(* of what PPP had and the frame's data, in that order.                     *)
Dispatches(f, ps) ==
    /\ queue = <<f>> \o queue'
    /\ got'.frames = got.frames /\ got'.packets = got.packets \o ps
    /\ Within(Labels(ps) \o MarksOf("packet", ppp'), MarksOf("packet", ppp \o f.info))

Dispatchable ==
    /\ queue' \in Seq(Frame) /\ ppp' \in Seq(AnyByte)
    /\ ppp' # <<>> => ppp'[1] = Plain(PppFlag)
    /\ at' \in Channel /\ got' \in Got
    /\ \E f \in Frame, ps \in Seq(Packet) : Dispatches(f, ps)

LEMMA DispatchDispatches ==
    ASSUME TypeInv, Dispatch
    PROVE  Dispatchable
<1> DEFINE f == Head(queue)
           none == <<>>
<1>1. /\ ppp \in Seq(AnyByte) /\ queue \in Seq(Frame) /\ at \in Channel /\ got \in Got
      /\ ppp # <<>> => ppp[1] = Plain(PppFlag)
      /\ queue # <<>> /\ queue' = Tail(queue)
  BY DEF TypeInv, Underway, Dispatch
<1>2. got.packets \in Seq(Packet) /\ got.fed \in Seq(AnyByte) /\ at.buffer \in Seq(AnyByte)
  BY <1>1 DEF Got, Channel
<1>3. f \in Frame /\ queue' \in Seq(Frame) /\ queue = <<f>> \o queue'
  BY <1>1
<1> HIDE DEF f
<1>4. f.info \in Seq(AnyByte)
  BY <1>3 DEF Frame
<1>5. /\ none \in Seq(Packet) /\ got.packets \o none = got.packets
      /\ Within(Labels(none) \o MarksOf("packet", ppp), MarksOf("packet", ppp \o f.info))
  <2> DEFINE m == MarksOf("packet", ppp)
             i == MarksOf("packet", f.info)
  <2>1. m \in Seq(Mark) /\ i \in Seq(Mark) /\ MarksOf("packet", ppp \o f.info) = m \o i
    <3>1. MarksOf("packet", ppp) \in Seq(Mark)
      BY <1>1, MarksType
    <3>2. MarksOf("packet", f.info) \in Seq(Mark)
      BY <1>4, MarksType
    <3>3. MarksOf("packet", ppp \o f.info) = MarksOf("packet", ppp) \o MarksOf("packet", f.info)
      <4> DEFINE d == f.info
      <4>1. d \in Seq(AnyByte) /\ ppp \in Seq(AnyByte)
        BY <1>1, <1>4
      <4> HIDE DEF d, m, i
      <4>2. MarksOf("packet", ppp \o d) = MarksOf("packet", ppp) \o MarksOf("packet", d)
        BY <4>1, MarksConcat
      <4> QED
        BY <4>2 DEF d
    <3> QED
      BY <3>1, <3>2, <3>3
  <2>2. Labels(none) = none /\ got.packets \o none = got.packets
    <3>1. Labels(<<>>) = <<>>
      BY LabelsOne
    <3>2. got.packets \o <<>> = got.packets
      BY <1>2, Regroup
    <3> QED
      BY <3>1, <3>2
  <2> HIDE DEF m, i
  <2>3. Within(m, m) /\ Within(none, i) /\ none \in Seq(Mark) /\ m \o none = m /\ none \o m = m
    BY <2>1, WithinSelf, WithinNone, Regroup
  <2>4. Within(m \o none, m \o i)
    BY <2>1, <2>3, WithinConcat
  <2>5. Within(Labels(none) \o m, MarksOf("packet", ppp \o f.info))
    BY <2>1, <2>2, <2>3, <2>4
  <2>6. none = <<>>
    BY DEF none
  <2>7. none \in Seq(Packet)
    BY <2>6
  <2> QED
    BY <2>2, <2>5, <2>7 DEF m
<1> HIDE DEF none
<1>6. CASE UNCHANGED <<ppp, at, got>>
  <2>1. Dispatches(f, none)
    BY <1>3, <1>5, <1>6 DEF Dispatches
  <2> QED
    BY <1>1, <1>3, <1>5, <1>6, <2>1 DEF Dispatchable
<1>7. CASE FeedPpp(f.info)
  <2> DEFINE s == ppp \o f.info
             parsed == PppParse(s)
             ps == parsed.packets
  <2>1. ppp' = parsed.buffer /\ got' = [got EXCEPT !.packets = @ \o ps] /\ at' = at
    BY <1>7 DEF FeedPpp
  <2>2. s \in Seq(AnyByte)
    BY <1>1, <1>4
  <2> HIDE DEF s
  <2>3. /\ parsed \in PppResults
        /\ parsed.buffer # <<>> => parsed.buffer[1] = Plain(PppFlag)
        /\ Within(Labels(ps) \o MarksOf("packet", parsed.buffer), MarksOf("packet", s))
    BY <2>2, PppParseKeeps DEF PacketsOf
  <2>4. parsed.buffer \in Seq(AnyByte) /\ ps \in Seq(Packet)
    BY <2>3 DEF PppResults
  <2> HIDE DEF parsed, ps
  <2>5. got' \in Got /\ got'.packets = got.packets \o ps /\ got'.frames = got.frames
    <3>1. got.packets \o ps \in Seq(Packet)
      BY <1>2, <2>4
    <3> QED
      BY <1>1, <2>1, <3>1 DEF Got
  <2>6. Dispatches(f, ps)
    BY <1>3, <2>1, <2>3, <2>5 DEF Dispatches, s
  <2> QED
    BY <1>1, <1>3, <2>1, <2>3, <2>4, <2>5, <2>6 DEF Dispatchable
<1>8. CASE FeedAt(f.info)
  <2>1. /\ at' = [buffer |-> at.buffer \o f.info, event |-> TRUE]
        /\ got' = [got EXCEPT !.fed = @ \o f.info] /\ ppp' = ppp
    BY <1>8 DEF FeedAt
  <2>2. at' \in Channel
    BY <1>2, <1>4, <2>1 DEF Channel
  <2>3. got' \in Got /\ got'.packets = got.packets /\ got'.frames = got.frames
    <3>1. got.fed \o f.info \in Seq(AnyByte)
      BY <1>2, <1>4
    <3> QED
      BY <1>1, <2>1, <3>1 DEF Got
  <2>4. Dispatches(f, none)
    BY <1>3, <1>5, <2>1, <2>3 DEF Dispatches
  <2> QED
    BY <1>1, <1>3, <1>5, <2>1, <2>2, <2>3, <2>4 DEF Dispatchable
<1> QED
  BY <1>6, <1>7, <1>8 DEF Dispatch, f

-----------------------------------------------------------------------------
(* Types                                                                    *)

LEMMA PutKeepsTypes ==
    ASSUME TypeInv, NEW w \in Writer, Puttable(w), Unread
    PROVE  TypeInv'
<1>1. /\ wire \in Seq(AnyByte) /\ left \in [Writer -> Seq(PppByte)]
      /\ way.dir = "serial" => \A o \in Writer : left[o] = <<>>
      /\ way.dir # "tx" => left["two"] = <<>>
  BY DEF TypeInv, Underway
<1>2. PICK b \in Seq(AnyByte), hs \in Seq(LineHead), ps \in Seq(Packet), rest \in Seq(PppByte) :
          Puts(w, b, hs, ps, rest)
  BY DEF Puttable
<1>3. wire' \in Seq(AnyByte)
  BY <1>1, <1>2 DEF Puts
<1>4. /\ left' = [left EXCEPT ![w] = rest]
      /\ way.dir = "serial" => rest = <<>>
      /\ w = "two" => way.dir = "tx"
  BY <1>2 DEF Puts
<1>5. /\ left' \in [Writer -> Seq(PppByte)]
      /\ way.dir = "serial" => \A o \in Writer : left'[o] = <<>>
      /\ way.dir # "tx" => left'["two"] = <<>>
  BY <1>1, <1>4 DEF Writer
<1>6. Underway'
  BY <1>3, <1>5 DEF TypeInv, Underway, Unread
<1>7. Bounded'
  BY DEF TypeInv, Bounded, Puttable, Unread
<1> QED
  BY <1>6, <1>7 DEF TypeInv, Puttable, Unread

LEMMA TypeInit == Init => TypeInv
<1> SUFFICES ASSUME Init PROVE TypeInv
  OBVIOUS
<1>1. Bounded
  BY PathConstants DEF Init, Bounded
<1>2. Underway
  BY DEF Init, Underway, Writer
<1>3. way \in Ways /\ running \in BOOLEAN /\ console \in {"idle", "reading"}
  BY DEF Init
<1>4. at \in Channel /\ sent \in Sent /\ got \in Got
  BY DEF Init, Channel, Sent, Got
<1> QED
  BY <1>1, <1>2, <1>3, <1>4 DEF TypeInv

LEMMA TypeNext == TypeInv /\ [Next]_vars => TypeInv'
<1> SUFFICES ASSUME TypeInv, [Next]_vars PROVE TypeInv'
  OBVIOUS
<1>1. ASSUME NEW w \in Writer, SendPacket(w) PROVE TypeInv'
  <2>1. Unread
    BY <1>1 DEF SendPacket
  <2> QED
    BY <1>1, <2>1, SendPacketPuts, PutKeepsTypes
<1>2. ASSUME NEW w \in Writer, NextChunk(w) PROVE TypeInv'
  <2>1. Unread
    BY <1>2 DEF NextChunk
  <2> QED
    BY <1>2, <2>1, NextChunkPuts, PutKeepsTypes
<1>3. CASE ModemText
  <2>1. Unread /\ "one" \in Writer
    BY <1>3 DEF ModemText, Writer
  <2> QED
    BY <1>3, <2>1, ModemTextPuts, PutKeepsTypes
<1>4. CASE Register
  BY <1>4 DEF Register, TypeInv, Bounded, Underway
<1>5. CASE Read
  <2>1. Readable
    BY <1>5, ReadReads
  <2>2. UNCHANGED <<way, running, left, ppp, at, console, sends, faults, commands, sent>>
    BY <1>5 DEF Read
  <2>3. Underway'
    BY <2>1, <2>2 DEF TypeInv, Underway, Readable
  <2>4. Bounded'
    BY <2>1, <2>2 DEF TypeInv, Bounded, Readable
  <2> QED
    BY <2>1, <2>2, <2>3, <2>4 DEF TypeInv, Readable
<1>6. CASE Dispatch
  <2>1. Dispatchable
    BY <1>6, DispatchDispatches
  <2>2. UNCHANGED <<way, running, left, wire, buf, console, sends, faults,
                    splits, commands, sent>>
    BY <1>6 DEF Dispatch
  <2>3. Underway'
    BY <2>1, <2>2 DEF TypeInv, Underway, Dispatchable
  <2>4. Bounded'
    BY <2>2 DEF TypeInv, Bounded
  <2> QED
    BY <2>1, <2>2, <2>3, <2>4 DEF TypeInv, Dispatchable
<1>7. at.buffer \in Seq(AnyByte) /\ got.told \o at.buffer \in Seq(AnyByte) /\ Len(got.fed) \in Nat
  <2>1. at.buffer \in Seq(AnyByte) /\ got.told \in Seq(AnyByte) /\ got.fed \in Seq(AnyByte)
    BY DEF TypeInv, Channel, Got
  <2> QED
    BY <2>1
<1>8. CASE Command
  <2>1. /\ console' = "reading" /\ commands' \in 0 .. MaxCommands
        /\ UNCHANGED <<way, running, left, wire, buf, queue, ppp, sends, faults, splits, sent>>
    BY <1>8, PathConstants, SMTT(20) DEF Command, TypeInv, Bounded
  <2>2. at' \in Channel
    <3>1. at \in Channel
      BY DEF TypeInv
    <3>2. at' = at \/ at' = [buffer |-> <<>>, event |-> FALSE]
      BY <1>8 DEF Command
    <3>3. [buffer |-> <<>>, event |-> FALSE] \in Channel
      BY DEF Channel
    <3> QED
      BY <3>1, <3>2, <3>3
  <2>3. got' \in Got
    BY <1>7, <1>8 DEF Command, TypeInv, Got
  <2>4. Underway' /\ Bounded'
    BY <2>1 DEF TypeInv, Underway, Bounded
  <2> QED
    BY <2>1, <2>2, <2>3, <2>4 DEF TypeInv
<1>9. CASE Take
  <2>1. UNCHANGED <<way, running, left, wire, buf, queue, ppp, console,
                    sends, faults, splits, commands, sent>>
    BY <1>9 DEF Take
  <2>2. at' \in Channel
    BY <1>9 DEF Take, Channel
  <2>3. got' \in Got
    BY <1>7, <1>9 DEF Take, TypeInv, Got
  <2>4. Underway' /\ Bounded'
    BY <2>1 DEF TypeInv, Underway, Bounded
  <2> QED
    BY <2>1, <2>2, <2>3, <2>4 DEF TypeInv
<1>10. CASE Answered
  BY <1>10 DEF Answered, TypeInv, Bounded, Underway
<1>11. CASE UNCHANGED vars
  BY <1>11 DEF vars, TypeInv, Bounded, Underway
<1> QED
  BY <1>1, <1>2, <1>3, <1>4, <1>5, <1>6, <1>8, <1>9, <1>10, <1>11 DEF Next

LEMMA TypeAlways == Spec => []TypeInv
<1> QED
  BY TypeInit, TypeNext, PTL DEF Spec

(* Buffers and queues always hold bytes, whatever is damaged and however    *)
(* the reads split it; the PPP buffer is empty or begins with a flag.       *)
THEOREM PathTypes == Spec => []TypeOK
<1>1. \A s \in Seq(AnyByte) : IsBytes(s)
  BY ByteIs DEF IsBytes
<1>2. ASSUME TypeInv PROVE TypeOK
  <2>1. /\ \A s \in {wire, buf, ppp} : IsBytes(s)
        /\ ppp # <<>> => ppp[1] = Plain(PppFlag)
        /\ \A w \in Writer : left[w] # <<>> => way.dir # "serial"
    BY <1>1, <1>2 DEF TypeInv, Underway
  <2>2. IsBytes(at.buffer) /\ at.event \in BOOLEAN
    BY <1>1, <1>2 DEF TypeInv, Channel
  <2>3. IsBytes(left["one"]) /\ IsBytes(left["two"])
    <3>1. left["one"] \in Seq(PppByte) /\ left["two"] \in Seq(PppByte)
      BY <1>2 DEF TypeInv, Underway, Writer
    <3>2. \A s \in Seq(PppByte) : s \in Seq(AnyByte)
      BY PppByteIs
    <3> QED
      BY <1>1, <3>1, <3>2
  <2>4. \A i \in DOMAIN queue : queue[i].dlci \in Byte /\ IsBytes(queue[i].info)
    <3>1. \A i \in DOMAIN queue : queue[i] \in Frame
      BY <1>2 DEF TypeInv, Underway
    <3> QED
      BY <1>1, <3>1 DEF Frame
  <2> QED
    BY <1>2, <2>1, <2>2, <2>3, <2>4 DEF TypeOK, TypeInv, Bounded
<1> QED
  BY <1>2, TypeAlways, PTL

-----------------------------------------------------------------------------
(* The AT channel                                                           *)

AnswersInv ==
    /\ got.fed = got.told \o at.buffer
    /\ at.event <=> at.buffer # <<>>
    /\ Len(got.told) >= got.mark

LEMMA AnswersNext == TypeInv /\ AnswersInv /\ [Next]_vars => AnswersInv'
<1> SUFFICES ASSUME TypeInv, AnswersInv, [Next]_vars PROVE AnswersInv'
  OBVIOUS
<1>1. /\ got \in Got /\ at \in Channel
      /\ got.fed \in Seq(AnyByte) /\ got.told \in Seq(AnyByte) /\ at.buffer \in Seq(AnyByte)
      /\ got.mark \in Nat
  BY DEF TypeInv, Got, Channel
<1>2. CASE at' = at /\ got'.fed = got.fed /\ got'.told = got.told /\ got'.mark = got.mark
  BY <1>2 DEF AnswersInv
<1>3. ASSUME NEW w \in Writer, SendPacket(w) \/ NextChunk(w) PROVE AnswersInv'
  BY <1>2, <1>3 DEF SendPacket, NextChunk, Unread
<1>4. CASE ModemText \/ Register \/ Answered
  BY <1>2, <1>4 DEF ModemText, Register, Answered, Unread
<1>5. CASE Read
  <2>1. got'.fed = got.fed /\ got'.told = got.told /\ got'.mark = got.mark
    BY <1>5, ReadReads DEF Readable, Reads
  <2> QED
    BY <1>2, <1>5, <2>1 DEF Read
<1>6. CASE Dispatch
  <2> DEFINE f == Head(queue)
             i == f.info
  <2>1. i \in Seq(AnyByte)
    <3>1. queue \in Seq(Frame) /\ queue # <<>>
      BY <1>6 DEF TypeInv, Underway, Dispatch
    <3>2. f \in Frame
      BY <3>1
    <3> HIDE DEF f
    <3> QED
      BY <3>2 DEF Frame
  <2>2. \/ UNCHANGED <<ppp, at, got>>
        \/ FeedPpp(i)
        \/ i # <<>> /\ FeedAt(i)
    BY <1>6 DEF Dispatch
  <2> HIDE DEF i
  <2>3. CASE UNCHANGED <<ppp, at, got>>
    BY <1>2, <2>3
  <2>4. CASE FeedPpp(i)
    <3>1. at' = at /\ got'.fed = got.fed /\ got'.told = got.told /\ got'.mark = got.mark
      BY <1>1, <2>4 DEF FeedPpp, Got
    <3> QED
      BY <1>2, <3>1
  <2>5. CASE i # <<>> /\ FeedAt(i)
    <3>1. /\ at'.buffer = at.buffer \o i /\ at'.event = TRUE
          /\ got'.fed = got.fed \o i /\ got'.told = got.told /\ got'.mark = got.mark
      BY <1>1, <2>5 DEF FeedAt, Got
    <3>2. got.fed \o i = got.told \o (at.buffer \o i)
      <4>1. got.fed = got.told \o at.buffer
        BY DEF AnswersInv
      <4>2. (got.told \o at.buffer) \o i = got.told \o (at.buffer \o i)
        <5> DEFINE a == got.told
                   b == at.buffer
        <5>1. a \in Seq(AnyByte) /\ b \in Seq(AnyByte) /\ i \in Seq(AnyByte)
          BY <1>1, <2>1
        <5> HIDE DEF a, b
        <5>2. (a \o b) \o i = a \o (b \o i)
          BY <5>1, Regroup
        <5> QED
          BY <5>2 DEF a, b
      <4> QED
        BY <4>1, <4>2
    <3>3. at.buffer \o i # <<>>
      BY <1>1, <2>1, <2>5
    <3> QED
      BY <3>1, <3>2, <3>3 DEF AnswersInv
  <2> QED
    BY <2>2, <2>3, <2>4, <2>5
<1>7. got.told \o at.buffer \in Seq(AnyByte) /\ (got.told \o at.buffer) \o <<>> = got.told \o at.buffer
      /\ Len(got.told \o at.buffer) = Len(got.told) + Len(at.buffer)
  <2>1. got.told \o at.buffer \in Seq(AnyByte) /\ Len(got.told \o at.buffer) = Len(got.told) + Len(at.buffer)
    BY <1>1
  <2>2. (got.told \o at.buffer) \o <<>> = got.told \o at.buffer
    BY <2>1, Regroup
  <2> QED
    BY <2>1, <2>2
<1>8. CASE Command
  <2>1. CASE way.dir = "serial"
    <3>1. /\ at'.buffer = <<>> /\ at'.event = FALSE
          /\ got'.told = got.told \o at.buffer /\ got'.fed = got.fed /\ got'.mark = Len(got.fed)
      <4>1. /\ at' = [buffer |-> <<>>, event |-> FALSE]
            /\ got' = [got EXCEPT !.told = @ \o at.buffer, !.mark = Len(got.fed)]
        BY <1>8, <2>1 DEF Command
      <4> QED
        BY <1>1, <4>1 DEF Got
    <3>2. Len(got'.told) >= got'.mark
      BY <1>1, <3>1 DEF AnswersInv
    <3>3. got'.fed = got'.told \o at'.buffer
      BY <1>7, <3>1 DEF AnswersInv
    <3> QED
      BY <3>1, <3>2, <3>3 DEF AnswersInv
  <2>2. CASE way.dir # "serial"
    BY <1>2, <1>8, <2>2 DEF Command
  <2> QED
    BY <2>1, <2>2
<1>9. CASE Take
  <2>1. /\ at'.buffer = <<>> /\ at'.event = FALSE
        /\ got'.told = got.told \o at.buffer /\ got'.fed = got.fed /\ got'.mark = got.mark
    BY <1>1, <1>9 DEF Take, Got
  <2>2. Len(got'.told) >= got'.mark
    <3>1. Len(got.told) \in Nat /\ Len(at.buffer) \in Nat /\ Len(got.told) >= got.mark
      BY <1>1 DEF AnswersInv
    <3>2. Len(got'.told) = Len(got.told) + Len(at.buffer) /\ got'.mark = got.mark
      BY <1>7, <2>1
    <3> DEFINE a == Len(got.told)
               b == Len(at.buffer)
               m == got.mark
    <3>3. a \in Nat /\ b \in Nat /\ m \in Nat /\ a >= m
      BY <1>1, <3>1
    <3> HIDE DEF a, b, m
    <3>4. a + b >= m
      BY <3>3
    <3> QED
      BY <3>2, <3>4 DEF a, b, m
  <2>3. got'.fed = got'.told \o at'.buffer
    BY <1>7, <2>1 DEF AnswersInv
  <2> QED
    BY <2>1, <2>2, <2>3 DEF AnswersInv
<1>10. CASE UNCHANGED vars
  BY <1>2, <1>10 DEF vars
<1> QED
  BY <1>3, <1>4, <1>5, <1>6, <1>8, <1>9, <1>10 DEF Next

(* Every byte fed to the AT channel is told once and in order or still      *)
(* there with the event set, and a serial answer holds nothing older than   *)
(* its command (feed_response(), read_all(), clear_buffer()).               *)
THEOREM AnswersStay == Spec => []AnswersKept
<1>1. Init => AnswersInv
  BY DEF Init, AnswersInv
<1>2. AnswersInv => AnswersKept
  BY DEF AnswersInv, AnswersKept
<1> QED
  BY <1>1, <1>2, AnswersNext, TypeAlways, PTL DEF Spec

-----------------------------------------------------------------------------
(* A lossy FIFO of frames                                                   *)

LEMMA Assoc ==
    ASSUME NEW S, NEW a \in Seq(S), NEW b \in Seq(S), NEW c \in Seq(S)
    PROVE  (a \o b) \o c = a \o (b \o c)
BY Regroup

LEMMA Prefixed ==
    ASSUME NEW S, NEW s \in Seq(S), NEW t \in Seq(S)
    PROVE  /\ Frames!IsPrefix(s, s \o t) /\ Packages!IsPrefix(s, s \o t)
           /\ IsPrefix(s, s \o t)
<1>1. Len(s \o t) = Len(s) + Len(t) /\ Len(s) \in Nat /\ Len(t) \in Nat
  BY Halves
<1>2. SubSeq(s \o t, 1, Len(s)) = s
  BY Halves
<1>3. SubSeq(s, 1, Len(s)) = s
  BY SubSeqFull
<1> QED
  BY <1>1, <1>2, <1>3 DEF IsPrefix, Frames!IsPrefix, Packages!IsPrefix

(* h and x replace y, of which they are made, between l and c.              *)
LEMMA Swapped ==
    ASSUME NEW S, NEW l \in Seq(S), NEW h \in Seq(S), NEW x \in Seq(S), NEW y \in Seq(S),
           NEW c \in Seq(S), NEW t \in Seq(S),
           Within(h \o x, y), Within(l \o (y \o c), t)
    PROVE  Within((l \o h) \o (x \o c), t)
<1> DEFINE m == h \o x
<1>1. m \in Seq(S) /\ x \o c \in Seq(S) /\ y \o c \in Seq(S) /\ m \o c \in Seq(S)
  BY Regroup
<1>2. (l \o h) \o (x \o c) = l \o (h \o (x \o c)) /\ h \o (x \o c) = m \o c
  <2>1. h \o (x \o c) = (h \o x) \o c
    <3>1. h \in Seq(S) /\ x \in Seq(S) /\ c \in Seq(S)
      OBVIOUS
    <3> QED
      BY ONLY <3>1, SMTT(20)
  <2> DEFINE r == x \o c
  <2>2. r \in Seq(S)
    BY <1>1
  <2> HIDE DEF r
  <2>3. (l \o h) \o r = l \o (h \o r)
    <3>1. l \in Seq(S) /\ h \in Seq(S) /\ r \in Seq(S)
      BY <2>2
    <3> QED
      BY ONLY <3>1, SMTT(20)
  <2> QED
    BY <2>1, <2>3 DEF r
<1> HIDE DEF m
<1>3. Within(m, y) /\ Within(c, c) /\ Within(l, l)
  BY WithinSelf DEF m
<1>4. Within(m \o c, y \o c)
  BY <1>1, <1>3, WithinConcat
<1> DEFINE a == m \o c
           b == y \o c
<1>5. a \in Seq(S) /\ b \in Seq(S) /\ Within(a, b) /\ Within(l \o b, t)
  BY <1>1, <1>4
<1> HIDE DEF a, b
<1>6. Within(l \o a, l \o b) /\ l \o a \in Seq(S) /\ l \o b \in Seq(S)
  BY <1>3, <1>5, WithinConcat, Regroup
<1> DEFINE la == l \o a
           lb == l \o b
<1>7. la \in Seq(S) /\ lb \in Seq(S) /\ Within(la, lb) /\ Within(lb, t)
  BY <1>5, <1>6
<1> HIDE DEF la, lb
<1>8. Within(la, t)
  BY <1>7, WithinTrans
<1> QED
  BY <1>2, <1>8 DEF la, a

(* More of both at the end.                                                 *)
LEMMA Extended ==
    ASSUME NEW S, NEW l \in Seq(S), NEW x \in Seq(S), NEW c \in Seq(S), NEW t \in Seq(S),
           NEW u \in Seq(S), Within(l \o x, t), Within(c, u)
    PROVE  Within(l \o (x \o c), t \o u)
<1> DEFINE lx == l \o x
<1>1. lx \in Seq(S) /\ lx \o c = l \o (x \o c) /\ Within(lx, t)
  BY Assoc, SMTT(20)
<1> HIDE DEF lx
<1>2. Within(lx \o c, t \o u)
  BY <1>1, WithinConcat
<1> QED
  BY <1>1, <1>2

(* The part in front.                                                       *)
LEMMA Ahead1 ==
    ASSUME NEW S, NEW l \in Seq(S), NEW x \in Seq(S), NEW t \in Seq(S), Within(l \o x, t)
    PROVE  Within(l, t)
<1> DEFINE z == l \o x
           n == Len(l)
<1>1. z \in Seq(S) /\ SubSeq(z, 1, n) = l /\ n \in Nat /\ n <= Len(z)
  BY Halves
<1>2. 1 \in 1 .. Len(z) + 1 /\ n \in 1 - 1 .. Len(z)
  BY <1>1
<1>3. Within(z, t)
  OBVIOUS
<1> HIDE DEF z, n
<1>4. Within(SubSeq(z, 1, n), z)
  BY <1>1, <1>2, WithinPart
<1> QED
  BY <1>1, <1>3, <1>4, WithinTrans

(* What is carried by labels is a subsequence.                              *)
LEMMA Ordered ==
    ASSUME NEW g \in Seq(Label), NEW s \in Seq(Label), Within(Labels(g), Labels(s))
    PROVE  \E at1 \in [DOMAIN g -> DOMAIN s] :
               /\ \A i \in DOMAIN g : g[i] = s[at1[i]]
               /\ \A i, j \in DOMAIN g : i < j => at1[i] < at1[j]
<1>1. /\ DOMAIN Labels(g) = DOMAIN g /\ \A i \in DOMAIN g : Labels(g)[i] = {g[i]}
      /\ DOMAIN Labels(s) = DOMAIN s /\ \A i \in DOMAIN s : Labels(s)[i] = {s[i]}
  BY DEF Labels
<1>2. PICK c : Carries(c, Labels(g), Labels(s))
  BY DEF Within
<1>3. c \in [DOMAIN g -> Int]
  BY <1>1, <1>2 DEF Carries
<1>4. \A i \in DOMAIN g : c[i] \in DOMAIN s /\ g[i] = s[c[i]]
  <2> TAKE i \in DOMAIN g
  <2>1. Labels(g)[i] = {g[i]} /\ Labels(g)[i] # {} /\ i \in DOMAIN Labels(g)
    BY <1>1
  <2>2. c[i] \in DOMAIN Labels(s) /\ Labels(s)[c[i]] = Labels(g)[i]
    BY <1>2, <2>1 DEF Carries
  <2>3. c[i] \in DOMAIN s /\ {s[c[i]]} = {g[i]}
    BY <1>1, <2>1, <2>2
  <2> QED
    BY <2>3
<1>5. \A i, j \in DOMAIN g : i < j => c[i] < c[j]
  <2> TAKE i, j \in DOMAIN g
  <2>1. /\ Labels(g)[i] # {} /\ Labels(g)[j] # {}
        /\ i \in DOMAIN Labels(g) /\ j \in DOMAIN Labels(g)
    BY <1>1
  <2> QED
    BY <1>2, <2>1 DEF Carries
<1>6. c \in [DOMAIN g -> DOMAIN s]
  BY <1>3, <1>4
<1> QED
  BY <1>4, <1>5, <1>6

HeadInv == Within(Labels(got.frames) \o MarksOf("head", buf \o wire), Labels(sent.frames))

LEMMA HeadTypes ==
    ASSUME TypeInv
    PROVE  /\ wire \in Seq(AnyByte) /\ buf \in Seq(AnyByte)
           /\ got.frames \in Seq(LineHead) /\ sent.frames \in Seq(LineHead)
           /\ Labels(got.frames) \in Seq(Mark) /\ Labels(sent.frames) \in Seq(Mark)
           /\ \A hs \in Seq(LineHead) : hs \in Seq(Label) /\ Labels(hs) \in Seq(Mark)
<1>1. /\ wire \in Seq(AnyByte) /\ buf \in Seq(AnyByte)
      /\ got.frames \in Seq(LineHead) /\ sent.frames \in Seq(LineHead)
  BY DEF TypeInv, Underway, Got, Sent
<1>2. \A hs \in Seq(LineHead) : hs \in Seq(Label)
  BY LineHeadIs
<1>3. \A hs \in Seq(Label) : Labels(hs) \in Seq(Mark)
  BY LabelsType
<1> QED
  BY <1>1, <1>2, <1>3

LEMMA PutKeepsHeads ==
    ASSUME TypeInv, HeadInv, NEW w \in Writer, Puttable(w), Unread
    PROVE  HeadInv' /\ (Frames!Send \/ UNCHANGED <<sent.frames, got.frames>>)
<1> DEFINE l == Labels(got.frames)
           s == buf \o wire
<1>1. PICK b \in Seq(AnyByte), hs \in Seq(LineHead), ps \in Seq(Packet), rest \in Seq(PppByte) :
          Puts(w, b, hs, ps, rest)
  BY DEF Puttable
<1>2. /\ wire' = wire \o b /\ sent'.frames = sent.frames \o hs
      /\ hs = <<>> \/ \E x \in LineHead : hs = <<x>>
      /\ Within(MarksOf("head", b), Labels(hs))
  BY <1>1 DEF Puts
<1>3. s \in Seq(AnyByte) /\ buf' = buf /\ got' = got /\ s \o b = buf' \o wire'
  <2>1. wire \in Seq(AnyByte) /\ buf \in Seq(AnyByte) /\ buf' = buf /\ got' = got
    BY HeadTypes DEF Unread
  <2>2. s \in Seq(AnyByte) /\ s \o b = buf \o (wire \o b)
    BY <2>1, Regroup, SMTT(20)
  <2> QED
    BY <1>2, <2>1, <2>2
<1>4. Labels(sent'.frames) = Labels(sent.frames) \o Labels(hs)
  <2>1. sent.frames \in Seq(Label) /\ hs \in Seq(Label)
    BY HeadTypes
  <2> QED
    BY <1>2, <2>1, LabelsConcat
<1>5. Within(l \o MarksOf("head", s), Labels(sent.frames))
  BY DEF HeadInv
<1>6. HeadInv'
  <2> DEFINE x == MarksOf("head", s)
             c == MarksOf("head", b)
             t == Labels(sent.frames)
             u == Labels(hs)
  <2>1. l \in Seq(Mark) /\ t \in Seq(Mark) /\ u \in Seq(Mark)
    BY HeadTypes
  <2> HIDE DEF s
  <2>2. x \in Seq(Mark) /\ c \in Seq(Mark) /\ MarksOf("head", s \o b) = x \o c
    BY <1>3, MarksType, MarksConcat
  <2>3. Within(l \o x, t) /\ Within(c, u)
    BY <1>2, <1>5
  <2> HIDE DEF l, x, c, t, u
  <2>4. Within(l \o (x \o c), t \o u)
    BY <2>1, <2>2, <2>3, Extended
  <2>5. MarksOf("head", buf' \o wire') = x \o c
    BY <1>3, <2>2
  <2>6. Labels(got'.frames) = l /\ Labels(sent'.frames) = t \o u
    BY <1>3, <1>4 DEF l, t, u
  <2> QED
    BY <2>4, <2>5, <2>6 DEF HeadInv
<1>7. sent.frames \in Seq(LineHead)
  BY HeadTypes
<1>8. CASE hs = <<>>
  <2>1. sent'.frames = sent.frames
    BY <1>2, <1>7, <1>8
  <2> QED
    BY <1>3, <1>6, <2>1
<1>9. CASE \E x \in LineHead : hs = <<x>>
  <2>1. Frames!IsPrefix(sent.frames, sent'.frames)
    BY <1>2, <1>7, Prefixed
  <2>2. Len(sent'.frames) = Len(sent.frames) + 1
    BY <1>2, <1>7, <1>9
  <2>3. UNCHANGED got.frames
    BY <1>3
  <2> QED
    BY <1>6, <2>1, <2>2, <2>3 DEF Frames!Send
<1> QED
  BY <1>2, <1>8, <1>9

LEMMA ReadKeepsHeads ==
    ASSUME TypeInv, TypeInv', HeadInv, Readable, UNCHANGED sent
    PROVE  HeadInv' /\ (Frames!Receive \/ UNCHANGED <<sent.frames, got.frames>>)
<1>1. PICK raw \in Seq(AnyByte), hs \in Seq(LineHead) : Reads(raw, hs)
  BY DEF Readable
<1>2. /\ wire = raw \o wire' /\ got'.frames = got.frames \o hs
      /\ Within(Labels(hs) \o MarksOf("head", buf'), MarksOf("head", buf \o raw))
  BY <1>1 DEF Reads
<1>3. wire' \in Seq(AnyByte) /\ buf' \in Seq(AnyByte) /\ buf \in Seq(AnyByte)
      /\ buf \o wire = (buf \o raw) \o wire' /\ buf \o raw \in Seq(AnyByte)
  <2>1. wire' \in Seq(AnyByte) /\ buf' \in Seq(AnyByte) /\ buf \in Seq(AnyByte)
    BY HeadTypes DEF Readable
  <2> DEFINE v == wire'
  <2>2. v \in Seq(AnyByte)
    BY <2>1
  <2> HIDE DEF v
  <2>3. (buf \o raw) \o v = buf \o (raw \o v) /\ buf \o raw \in Seq(AnyByte)
    <3>1. buf \in Seq(AnyByte) /\ raw \in Seq(AnyByte) /\ v \in Seq(AnyByte)
      BY <2>1, <2>2
    <3> QED
      BY ONLY <3>1, Assoc
  <2> QED
    BY <1>2, <2>1, <2>3 DEF v
<1>4. Labels(got'.frames) = Labels(got.frames) \o Labels(hs)
  <2>1. got.frames \in Seq(Label) /\ hs \in Seq(Label)
    BY HeadTypes
  <2> QED
    BY <1>2, <2>1, LabelsConcat
<1> DEFINE l == Labels(got.frames)
           h == Labels(hs)
           x == MarksOf("head", buf')
           y == MarksOf("head", buf \o raw)
           c == MarksOf("head", wire')
           t == Labels(sent.frames)
<1>5. l \in Seq(Mark) /\ h \in Seq(Mark) /\ t \in Seq(Mark)
  BY HeadTypes
<1>6. x \in Seq(Mark) /\ y \in Seq(Mark) /\ c \in Seq(Mark)
      /\ MarksOf("head", buf \o wire) = y \o c /\ MarksOf("head", buf' \o wire') = x \o c
  <2> DEFINE v == wire'
             e == buf'
             z == buf \o raw
  <2>1. v \in Seq(AnyByte) /\ e \in Seq(AnyByte) /\ z \in Seq(AnyByte) /\ buf \o wire = z \o v
    BY <1>3
  <2> HIDE DEF v, e, z
  <2>2. /\ MarksOf("head", e) \in Seq(Mark) /\ MarksOf("head", z) \in Seq(Mark)
        /\ MarksOf("head", v) \in Seq(Mark)
    BY <2>1, MarksType
  <2>3. /\ MarksOf("head", z \o v) = MarksOf("head", z) \o MarksOf("head", v)
        /\ MarksOf("head", e \o v) = MarksOf("head", e) \o MarksOf("head", v)
    BY <2>1, MarksConcat
  <2> QED
    BY <2>1, <2>2, <2>3 DEF v, e, z
<1>7. Within(h \o x, y) /\ Within(l \o (y \o c), t)
  BY <1>2, <1>6 DEF HeadInv
<1>8. Labels(got'.frames) = l \o h /\ Labels(sent'.frames) = t /\ l \o h \in Seq(Mark)
  BY <1>4, <1>5, Regroup
<1> DEFINE lh == l \o h
           xc == x \o c
<1>9. Within(lh \o xc, t)
  <2> HIDE DEF l, h, x, y, c, t
  <2>1. Within((l \o h) \o (x \o c), t)
    BY <1>5, <1>6, <1>7, Swapped
  <2> QED
    BY <2>1
<1>10. lh \in Seq(Mark) /\ xc \in Seq(Mark)
  BY <1>6, <1>8, Regroup
<1>11. HeadInv'
  BY <1>6, <1>8, <1>9 DEF HeadInv
<1>12. Within(Labels(got'.frames), Labels(sent.frames))
  <2> HIDE DEF lh, xc, t
  <2>1. Within(lh, t)
    BY <1>5, <1>9, <1>10, Ahead1
  <2> QED
    BY <1>8, <2>1 DEF lh, t
<1>13. got.frames \in Seq(LineHead) /\ got'.frames \in Seq(Label) /\ sent.frames \in Seq(Label)
  <2>1. got'.frames \in Seq(LineHead)
    BY DEF TypeInv, Got
  <2> QED
    BY <2>1, HeadTypes
<1>14. CASE got'.frames = got.frames
  BY <1>11, <1>14
<1>15. CASE got'.frames # got.frames
  <2>1. Frames!IsPrefix(got.frames, got'.frames)
    BY <1>2, <1>13, Prefixed
  <2> DEFINE g == got'.frames
             s == sent.frames
  <2>2. Frames!Subsequence(g, s)
    <3>1. g \in Seq(Label) /\ s \in Seq(Label) /\ Within(Labels(g), Labels(s))
      BY <1>12, <1>13
    <3> HIDE DEF g, s
    <3> QED
      BY <3>1, Ordered, ZenonT(40) DEF Frames!Subsequence
  <2> QED
    BY <1>11, <1>15, <2>1, <2>2 DEF Frames!Receive
<1> QED
  BY <1>14, <1>15

LEMMA FramesNext ==
    TypeInv /\ HeadInv /\ [Next]_vars
        => HeadInv' /\ [Frames!Next]_<<sent.frames, got.frames>>
<1> SUFFICES ASSUME TypeInv, HeadInv, [Next]_vars
             PROVE  HeadInv' /\ [Frames!Next]_<<sent.frames, got.frames>>
  OBVIOUS
<1>1. TypeInv'
  BY TypeNext
<1>2. ASSUME NEW w \in Writer, SendPacket(w)
      PROVE  HeadInv' /\ (Frames!Send \/ UNCHANGED <<sent.frames, got.frames>>)
  <2>1. Unread
    BY <1>2 DEF SendPacket
  <2> QED
    BY <1>2, <2>1, SendPacketPuts, PutKeepsHeads
<1>3. ASSUME NEW w \in Writer, NextChunk(w)
      PROVE  HeadInv' /\ (Frames!Send \/ UNCHANGED <<sent.frames, got.frames>>)
  <2>1. Unread
    BY <1>3 DEF NextChunk
  <2> QED
    BY <1>3, <2>1, NextChunkPuts, PutKeepsHeads
<1>4. CASE ModemText
  <2>1. Unread /\ "one" \in Writer
    BY <1>4 DEF ModemText, Writer
  <2>2. HeadInv' /\ (Frames!Send \/ UNCHANGED <<sent.frames, got.frames>>)
    BY <1>4, <2>1, ModemTextPuts, PutKeepsHeads
  <2> QED
    BY <2>2 DEF Frames!Next
<1>5. CASE Read
  <2>1. Readable /\ UNCHANGED sent
    BY <1>5, ReadReads DEF Read
  <2>2. HeadInv' /\ (Frames!Receive \/ UNCHANGED <<sent.frames, got.frames>>)
    BY <1>1, <2>1, ReadKeepsHeads
  <2> QED
    BY <2>2 DEF Frames!Next
<1>6. CASE UNCHANGED <<wire, buf, sent>> /\ got'.frames = got.frames
  BY <1>6 DEF HeadInv
<1>7. CASE Dispatch
  <2>1. got'.frames = got.frames
    BY <1>7, DispatchDispatches DEF Dispatchable, Dispatches
  <2> QED
    BY <1>6, <1>7, <2>1 DEF Dispatch
<1>8. CASE Command \/ Take
  <2>1. got'.frames = got.frames
    BY <1>8 DEF Command, Take, TypeInv, Got
  <2> QED
    BY <1>6, <1>8, <2>1 DEF Command, Take
<1>9. CASE Register \/ Answered
  BY <1>6, <1>9 DEF Register, Answered
<1>10. CASE UNCHANGED vars
  BY <1>6, <1>10 DEF vars
<1> QED
  BY <1>2, <1>3, <1>4, <1>5, <1>7, <1>8, <1>9, <1>10 DEF Next, Frames!Next

(* The frames that FrameParser yields are those of a lossy FIFO, for any    *)
(* number of damaged and lost bytes: no damage that leaves the checksum     *)
(* makes a frame of a channel and length that were not sent.                *)
THEOREM FramesAreKept == Spec => FramesKept
<1>1. Init => HeadInv /\ Frames!Init
  <2> SUFFICES ASSUME Init PROVE HeadInv /\ Frames!Init
    OBVIOUS
  <2> DEFINE none == <<>>
  <2>1. got.frames = none /\ sent.frames = none /\ buf \o wire = none
    BY DEF Init
  <2>2. Labels(none) = none /\ MarksOf("head", none) = none /\ none \o none = none
    <3>1. Labels(<<>>) = <<>>
      BY LabelsOne
    <3>2. MarksOf("head", <<>>) = <<>>
      BY MarksNone
    <3> QED
      BY <3>1, <3>2
  <2>3. Within(none, none)
    BY WithinNone
  <2>4. none = <<>>
    OBVIOUS
  <2> HIDE DEF none
  <2> QED
    BY <2>1, <2>2, <2>3, <2>4 DEF HeadInv, Frames!Init
<1> QED
  BY <1>1, FramesNext, TypeAlways, PTL DEF Spec, FramesKept, Frames!Spec

-----------------------------------------------------------------------------
(* A lossy FIFO of packets                                                  *)

(* The bytes between the senders and PppParser, in the order they come.     *)
Unsent == left["one"] \o left["two"]
Held == ppp \o (FlattenSeq(InfosOf(queue)) \o (buf \o wire))
StreamTo(x) == ppp \o (FlattenSeq(InfosOf(queue)) \o (buf \o (wire \o x)))
Stream == StreamTo(Unsent)

(* As long as no two threads sent at once.                                  *)
LineInv ==
    ~sent.mixed =>
        /\ left["one"] = <<>> \/ left["two"] = <<>>
        /\ Within(Labels(got.packets) \o MarksOf("packet", Stream), Labels(sent.packets))

(* y becomes x between l and c.                                             *)
LEMMA Middle ==
    ASSUME NEW S, NEW l \in Seq(S), NEW x \in Seq(S), NEW y \in Seq(S),
           NEW c \in Seq(S), NEW t \in Seq(S),
           Within(x, y), Within(l \o (y \o c), t)
    PROVE  Within(l \o (x \o c), t)
<1> DEFINE h == <<>>
<1>1. h \in Seq(S) /\ h \o x = x /\ l \o h = l
  <2>1. <<>> \o x = x /\ l \o <<>> = l
    BY Regroup
  <2> QED
    BY <2>1
<1> HIDE DEF h
<1>2. Within(h \o x, y)
  BY <1>1
<1>3. Within((l \o h) \o (x \o c), t)
  BY <1>1, <1>2, Swapped
<1> QED
  BY <1>1, <1>3

(* What a sender has left, e, becomes m, with something new, u, sent.       *)
LEMMA Renewed ==
    ASSUME NEW S, NEW l \in Seq(S), NEW g \in Seq(S), NEW e \in Seq(S), NEW m \in Seq(S),
           NEW t \in Seq(S), NEW u \in Seq(S),
           Within(m, e \o u), Within(l \o (g \o e), t)
    PROVE  Within(l \o (g \o m), t \o u)
<1> DEFINE ge == g \o e
<1>1. ge \in Seq(S) /\ ge \o u = g \o (e \o u)
  <2>1. g \in Seq(S) /\ e \in Seq(S) /\ u \in Seq(S)
    OBVIOUS
  <2> QED
    BY ONLY <2>1, SMTT(20)
<1>2. Within(l \o ge, t)
  OBVIOUS
<1> HIDE DEF ge
<1>3. Within(u, u)
  BY WithinSelf
<1>4. Within(l \o (ge \o u), t \o u)
  BY <1>1, <1>2, <1>3, Extended
<1> DEFINE eu == e \o u
           tu == t \o u
<1>5. eu \in Seq(S) /\ tu \in Seq(S) /\ Within(m, eu) /\ Within(l \o (g \o eu), tu)
  BY <1>1, <1>4
<1> HIDE DEF eu, tu
<1>6. Within(g, g)
  BY WithinSelf
<1>7. Within(g \o m, g \o eu) /\ g \o m \in Seq(S) /\ g \o eu \in Seq(S)
  BY <1>5, <1>6, WithinConcat, Regroup
<1> DEFINE gm == g \o m
           geu == g \o eu
<1>8. gm \in Seq(S) /\ geu \in Seq(S) /\ Within(gm, geu) /\ Within(l \o geu, tu)
  BY <1>5, <1>7
<1> HIDE DEF gm, geu
<1>9. Within(l, l)
  BY WithinSelf
<1>10. Within(l \o gm, l \o geu) /\ l \o gm \in Seq(S) /\ l \o geu \in Seq(S)
  BY <1>8, <1>9, WithinConcat, Regroup
<1> DEFINE lgm == l \o gm
           lgeu == l \o geu
<1>11. lgm \in Seq(S) /\ lgeu \in Seq(S) /\ Within(lgm, lgeu) /\ Within(lgeu, tu)
  BY <1>8, <1>10
<1> HIDE DEF lgm, lgeu
<1>12. Within(lgm, tu)
  BY <1>5, <1>11, WithinTrans
<1> QED
  BY <1>12 DEF lgm, gm, tu

LEMMA StreamTypes ==
    ASSUME TypeInv
    PROVE  /\ ppp \in Seq(AnyByte) /\ FlattenSeq(InfosOf(queue)) \in Seq(AnyByte)
           /\ wire \in Seq(AnyByte) /\ buf \in Seq(AnyByte)
           /\ left["one"] \in Seq(AnyByte) /\ left["two"] \in Seq(AnyByte)
           /\ Unsent \in Seq(AnyByte) /\ Stream \in Seq(AnyByte)
           /\ got.packets \in Seq(Packet) /\ sent.packets \in Seq(Packet)
           /\ \A ps \in Seq(Packet) : ps \in Seq(Label) /\ Labels(ps) \in Seq(Mark)
<1>1. /\ wire \in Seq(AnyByte) /\ buf \in Seq(AnyByte) /\ ppp \in Seq(AnyByte)
      /\ queue \in Seq(Frame)
      /\ got.packets \in Seq(Packet) /\ sent.packets \in Seq(Packet)
  BY DEF TypeInv, Underway, Got, Sent
<1>2. FlattenSeq(InfosOf(queue)) \in Seq(AnyByte)
  <2>1. InfosOf(queue) \in Seq(Seq(AnyByte))
    BY <1>1, HeadsType
  <2> QED
    BY <2>1, FlattenType
<1>3. left["one"] \in Seq(AnyByte) /\ left["two"] \in Seq(AnyByte)
  <2>1. left["one"] \in Seq(PppByte) /\ left["two"] \in Seq(PppByte)
    BY DEF TypeInv, Underway, Writer
  <2> QED
    BY <2>1, PppByteIs
<1>4. Unsent \in Seq(AnyByte)
  BY <1>3 DEF Unsent
<1>5. Stream \in Seq(AnyByte)
  <2> DEFINE q == FlattenSeq(InfosOf(queue))
             w == wire \o Unsent
  <2>1. q \in Seq(AnyByte) /\ w \in Seq(AnyByte)
    BY <1>1, <1>2, <1>4
  <2>2. Stream = ppp \o (q \o (buf \o w))
    BY DEF Stream, StreamTo
  <2> HIDE DEF q, w
  <2>3. ppp \o (q \o (buf \o w)) \in Seq(AnyByte)
    BY <1>1, <2>1
  <2> QED
    BY <2>2, <2>3
<1>6. \A ps \in Seq(Packet) : ps \in Seq(Label)
  BY PacketLabel
<1>7. \A ps \in Seq(Label) : Labels(ps) \in Seq(Mark)
  BY LabelsType
<1> QED
  BY <1>1, <1>2, <1>3, <1>4, <1>5, <1>6, <1>7

LEMMA StreamSplits ==
    ASSUME TypeInv, NEW x \in Seq(AnyByte)
    PROVE  StreamTo(x) = Held \o x /\ Held \in Seq(AnyByte)
<1> DEFINE q == FlattenSeq(InfosOf(queue))
           bw == buf \o wire
           qbw == q \o bw
           wx == wire \o x
           bwx == buf \o wx
           qbwx == q \o bwx
<1>1. ppp \in Seq(AnyByte) /\ q \in Seq(AnyByte) /\ buf \in Seq(AnyByte) /\ wire \in Seq(AnyByte)
  BY StreamTypes
<1>2. Held = ppp \o qbw /\ StreamTo(x) = ppp \o qbwx
  BY DEF Held, StreamTo
<1> HIDE DEF q
<1>3. bw \in Seq(AnyByte) /\ bwx = bw \o x
  <2>1. buf \in Seq(AnyByte) /\ wire \in Seq(AnyByte) /\ x \in Seq(AnyByte)
    BY <1>1
  <2> QED
    BY ONLY <2>1, Assoc
<1> HIDE DEF bw, bwx
<1>4. qbw \in Seq(AnyByte) /\ qbwx = qbw \o x
  <2>1. q \in Seq(AnyByte) /\ bw \in Seq(AnyByte) /\ x \in Seq(AnyByte)
    BY <1>1, <1>3
  <2>2. (q \o bw) \o x = q \o (bw \o x)
    BY ONLY <2>1, Assoc
  <2>3. q \o bw \in Seq(AnyByte)
    BY <2>1
  <2> QED
    BY <1>3, <2>2, <2>3
<1> HIDE DEF qbw, qbwx
<1>5. (ppp \o qbw) \o x = ppp \o (qbw \o x) /\ ppp \o qbw \in Seq(AnyByte)
  <2>1. ppp \in Seq(AnyByte) /\ qbw \in Seq(AnyByte) /\ x \in Seq(AnyByte)
    BY <1>1, <1>4
  <2> QED
    BY ONLY <2>1, Assoc, SMTT(20)
<1> QED
  BY <1>2, <1>4, <1>5

(* Only w is sending.                                                       *)
Alone(w) == \A o \in Writer : o # w => left[o] = <<>>

LEMMA OneOnly ==
    ASSUME NEW f \in [Writer -> Seq(PppByte)], NEW w \in Writer,
           \A o \in Writer : o # w => f[o] = <<>>
    PROVE  /\ f["one"] \o f["two"] = f[w] /\ f[w] \in Seq(AnyByte)
           /\ f["one"] = <<>> \/ f["two"] = <<>>
<1>1. f["one"] \in Seq(AnyByte) /\ f["two"] \in Seq(AnyByte)
  <2>1. f["one"] \in Seq(PppByte) /\ f["two"] \in Seq(PppByte)
    BY DEF Writer
  <2> QED
    BY <2>1, PppByteIs
<1>2. CASE w = "one"
  <2>1. f["two"] = <<>>
    BY <1>2 DEF Writer
  <2>2. f["one"] \o <<>> = f["one"]
    BY <1>1, Regroup
  <2> QED
    BY <1>1, <1>2, <2>1, <2>2
<1>3. CASE w = "two"
  <2>1. f["one"] = <<>>
    BY <1>3 DEF Writer
  <2>2. <<>> \o f["two"] = f["two"]
    BY <1>1, Regroup
  <2> QED
    BY <1>1, <1>3, <2>1, <2>2
<1> QED
  BY <1>2, <1>3 DEF Writer

LEMMA PutKeepsLine ==
    ASSUME TypeInv, TypeInv', LineInv, NEW w \in Writer, Puttable(w), Unread,
           ~sent'.mixed => ~sent.mixed /\ Alone(w)
    PROVE  LineInv' /\ (Packages!Send \/ sent'.mixed \/ UNCHANGED <<sent.packets, got.packets>>)
<1>1. CASE sent'.mixed
  BY <1>1 DEF LineInv
<1>2. CASE ~sent'.mixed
  <2>1. PICK b \in Seq(AnyByte), hs \in Seq(LineHead), ps \in Seq(Packet), rest \in Seq(PppByte) :
            Puts(w, b, hs, ps, rest)
    BY DEF Puttable
  <2>2. /\ wire' = wire \o b /\ left' = [left EXCEPT ![w] = rest]
        /\ sent'.packets = sent.packets \o ps
        /\ ps = <<>> \/ \E x \in Packet : ps = <<x>>
        /\ Within(MarksOf("packet", b) \o MarksOf("packet", rest),
                  MarksOf("packet", left[w]) \o Labels(ps))
    BY <2>1 DEF Puts
  <2>3. buf' = buf /\ queue' = queue /\ ppp' = ppp /\ got' = got
    BY DEF Unread
  <2>4. Alone(w) /\ ~sent.mixed
    BY <1>2
  <2>5. rest \in Seq(AnyByte)
    BY PppByteIs
  <2>6. Unsent' = rest /\ (left'["one"] = <<>> \/ left'["two"] = <<>>)
    <3>1. left \in [Writer -> Seq(PppByte)]
      BY DEF TypeInv, Underway
    <3> DEFINE f == left'
    <3>2. f \in [Writer -> Seq(PppByte)] /\ f[w] = rest /\ \A o \in Writer : o # w => f[o] = <<>>
      BY <2>2, <2>4, <3>1 DEF Alone
    <3> HIDE DEF f
    <3>3. f["one"] \o f["two"] = f[w] /\ (f["one"] = <<>> \/ f["two"] = <<>>)
      BY <3>2, OneOnly
    <3> QED
      BY <3>2, <3>3 DEF f, Unsent
  <2>7. Unsent = left[w] /\ left[w] \in Seq(AnyByte)
    <3>1. left \in [Writer -> Seq(PppByte)] /\ \A o \in Writer : o # w => left[o] = <<>>
      BY <2>4 DEF TypeInv, Underway, Alone
    <3> QED
      BY <3>1, OneOnly DEF Unsent
  <2> DEFINE e == left[w]
             m == b \o rest
             held == Held
  <2>8. e \in Seq(AnyByte) /\ m \in Seq(AnyByte) /\ wire \in Seq(AnyByte)
    BY <2>5, <2>7, StreamTypes
  <2>9. held \in Seq(AnyByte) /\ Stream = held \o e
    <3>1. Stream = StreamTo(e)
      BY <2>7 DEF Stream
    <3> HIDE DEF e
    <3>2. StreamTo(e) = Held \o e /\ Held \in Seq(AnyByte)
      BY <2>8, StreamSplits
    <3> QED
      BY <3>1, <3>2
  <2>10. Stream' = held \o m
    <3>1. (wire \o b) \o rest = wire \o m
      <4>1. wire \in Seq(AnyByte) /\ b \in Seq(AnyByte) /\ rest \in Seq(AnyByte)
        BY <2>5, <2>8
      <4> QED
        BY ONLY <4>1, Assoc, SMTT(20)
    <3>2. Stream' = ppp \o (FlattenSeq(InfosOf(queue)) \o (buf \o ((wire \o b) \o rest)))
      BY <2>2, <2>3, <2>6 DEF Stream, StreamTo
    <3>3. Stream' = StreamTo(m)
      BY <3>1, <3>2 DEF StreamTo
    <3> HIDE DEF m
    <3>4. StreamTo(m) = Held \o m
      BY <2>8, StreamSplits
    <3> QED
      BY <3>3, <3>4
  <2> HIDE DEF held
  <2> DEFINE l == Labels(got.packets)
             g == MarksOf("packet", held)
             me == MarksOf("packet", e)
             mm == MarksOf("packet", m)
             t == Labels(sent.packets)
             u == Labels(ps)
  <2>11. MarksOf("packet", Stream) = g \o me /\ g \in Seq(Mark) /\ me \in Seq(Mark)
    <3>1. MarksOf("packet", held) \in Seq(Mark)
      BY <2>9, MarksType
    <3>2. MarksOf("packet", left[w]) \in Seq(Mark)
      BY <2>7, MarksType
    <3>3. e \in Seq(AnyByte)
      BY <2>7
    <3> HIDE DEF e
    <3>4. MarksOf("packet", held \o e) = MarksOf("packet", held) \o MarksOf("packet", e)
      BY <2>9, <3>3, MarksConcat
    <3> QED
      BY <2>9, <3>1, <3>2, <3>4 DEF e
  <2>12. m \in Seq(AnyByte) /\ mm = MarksOf("packet", b) \o MarksOf("packet", rest)
    BY <2>5, MarksConcat
  <2>13. MarksOf("packet", Stream') = g \o mm /\ mm \in Seq(Mark)
    <3> HIDE DEF m
    <3>1. MarksOf("packet", held \o m) = MarksOf("packet", held) \o MarksOf("packet", m)
      BY <2>9, <2>12, MarksConcat
    <3>2. MarksOf("packet", m) \in Seq(Mark)
      BY <2>12, MarksType
    <3> QED
      BY <2>10, <3>1, <3>2
  <2>14. Within(mm, me \o u)
    BY <2>2, <2>12
  <2>15. Within(l \o (g \o me), t)
    BY <2>4, <2>11 DEF LineInv
  <2>16. l \in Seq(Mark) /\ t \in Seq(Mark) /\ u \in Seq(Mark)
    BY StreamTypes
  <2>17. Labels(sent'.packets) = t \o u
    <3>1. sent.packets \in Seq(Label) /\ ps \in Seq(Label)
      BY StreamTypes
    <3> QED
      BY <2>2, <3>1, LabelsConcat
  <2>18. LineInv'
    <3>1. Labels(got'.packets) = l
      BY <2>3
    <3> HIDE DEF l, g, me, mm, t, u
    <3>2. Within(l \o (g \o mm), t \o u)
      BY <2>11, <2>13, <2>14, <2>15, <2>16, Renewed
    <3>3. Within(Labels(got'.packets) \o MarksOf("packet", Stream'), Labels(sent'.packets))
      BY <2>13, <2>17, <3>1, <3>2
    <3> QED
      BY <2>6, <3>3 DEF LineInv
  <2>19. sent.packets \in Seq(Packet)
    BY StreamTypes
  <2>20. CASE ps = <<>>
    <3>1. sent'.packets = sent.packets
      BY <2>2, <2>19, <2>20
    <3> QED
      BY <2>3, <2>18, <3>1
  <2>21. CASE \E x \in Packet : ps = <<x>>
    <3>1. Packages!IsPrefix(sent.packets, sent'.packets)
      BY <2>2, <2>19, Prefixed
    <3>2. Len(sent'.packets) = Len(sent.packets) + 1
      BY <2>2, <2>19, <2>21
    <3>3. UNCHANGED got.packets
      BY <2>3
    <3> QED
      BY <2>18, <3>1, <3>2, <3>3 DEF Packages!Send
  <2> QED
    BY <2>2, <2>20, <2>21
<1> QED
  BY <1>1, <1>2

(* In a stream, x takes the place of y, of which it is made.                *)
LEMMA Between ==
    ASSUME NEW p \in Seq(AnyByte), NEW x \in Seq(AnyByte), NEW y \in Seq(AnyByte),
           NEW v \in Seq(AnyByte), NEW l \in Seq(Mark), NEW t \in Seq(Mark),
           Within(MarksOf("packet", x), MarksOf("packet", y)),
           Within(l \o MarksOf("packet", p \o (y \o v)), t)
    PROVE  Within(l \o MarksOf("packet", p \o (x \o v)), t)
<1> DEFINE mp == MarksOf("packet", p)
           mx == MarksOf("packet", x)
           my == MarksOf("packet", y)
           mv == MarksOf("packet", v)
           lp == l \o mp
<1>1. mp \in Seq(Mark) /\ mx \in Seq(Mark) /\ my \in Seq(Mark) /\ mv \in Seq(Mark)
  BY MarksType
<1>2. ASSUME NEW z \in Seq(AnyByte)
      PROVE  l \o MarksOf("packet", p \o (z \o v)) = lp \o (MarksOf("packet", z) \o mv)
  <2> DEFINE zv == z \o v
             mz == MarksOf("packet", z)
             mzv == mz \o mv
  <2>1. zv \in Seq(AnyByte) /\ mz \in Seq(Mark)
    BY MarksType
  <2>2. MarksOf("packet", z \o v) = mzv
    BY MarksConcat
  <2>3. mzv \in Seq(Mark)
    BY <1>1, <2>1, Regroup
  <2> HIDE DEF zv, mzv, mp
  <2>4. MarksOf("packet", p \o zv) = MarksOf("packet", p) \o MarksOf("packet", zv)
    BY <2>1, MarksConcat
  <2>5. (l \o mp) \o mzv = l \o (mp \o mzv)
    <3>1. l \in Seq(Mark) /\ mp \in Seq(Mark) /\ mzv \in Seq(Mark)
      BY <1>1, <2>3
    <3> QED
      BY ONLY <3>1, SMTT(20)
  <2>6. MarksOf("packet", zv) = mzv
    BY <2>2 DEF zv
  <2>7. l \o MarksOf("packet", p \o zv) = (l \o mp) \o mzv
    BY <2>4, <2>5, <2>6 DEF mp
  <2> QED
    BY <2>7 DEF zv, mzv
<1>3. lp \in Seq(Mark) /\ Within(mx, my) /\ Within(lp \o (my \o mv), t)
  BY <1>1, <1>2, Regroup
<1>4. l \o MarksOf("packet", p \o (x \o v)) = lp \o (mx \o mv)
  BY <1>2
<1> HIDE DEF mp, mx, my, mv, lp
<1>5. Within(lp \o (mx \o mv), t)
  BY <1>1, <1>3, Middle
<1> QED
  BY <1>4, <1>5

(* From the head of a stream, y, come the packets of h, and x stays.        *)
LEMMA Drawn ==
    ASSUME NEW x \in Seq(AnyByte), NEW y \in Seq(AnyByte), NEW r \in Seq(AnyByte),
           NEW l \in Seq(Mark), NEW h \in Seq(Mark), NEW t \in Seq(Mark),
           Within(h \o MarksOf("packet", x), MarksOf("packet", y)),
           Within(l \o MarksOf("packet", y \o r), t)
    PROVE  Within((l \o h) \o MarksOf("packet", x \o r), t) /\ Within(l \o h, t)
<1> DEFINE mx == MarksOf("packet", x)
           my == MarksOf("packet", y)
           mr == MarksOf("packet", r)
           lh == l \o h
           xr == mx \o mr
<1>1. mx \in Seq(Mark) /\ my \in Seq(Mark) /\ mr \in Seq(Mark)
  BY MarksType
<1>2. MarksOf("packet", x \o r) = mx \o mr
  BY MarksConcat
<1>3. MarksOf("packet", y \o r) = my \o mr
  BY MarksConcat
<1>4. Within(h \o mx, my) /\ Within(l \o (my \o mr), t)
  BY <1>3
<1>5. lh \in Seq(Mark) /\ xr \in Seq(Mark)
  BY <1>1, Regroup
<1>6. Within((l \o h) \o (mx \o mr), t)
  <2> HIDE DEF mx, my, mr, lh, xr
  <2> QED
    BY <1>1, <1>4, Swapped
<1>7. Within(lh \o xr, t)
  BY <1>6
<1> HIDE DEF mx, my, mr, lh, xr
<1>8. Within(lh, t)
  BY <1>5, <1>7, Ahead1
<1> QED
  BY <1>2, <1>6, <1>8 DEF lh

LEMMA ReadKeepsLine ==
    ASSUME TypeInv, TypeInv', LineInv, Readable, queue = <<>>, UNCHANGED <<left, ppp, sent>>
    PROVE  LineInv' /\ UNCHANGED <<sent.packets, got.packets>>
<1>1. PICK raw \in Seq(AnyByte), hs \in Seq(LineHead) : Reads(raw, hs)
  BY DEF Readable
<1>2. /\ wire = raw \o wire' /\ got'.packets = got.packets
      /\ Within(MarksOf("packet", FlattenSeq(InfosOf(queue')) \o buf'), MarksOf("packet", buf \o raw))
  BY <1>1 DEF Reads
<1>3. CASE sent.mixed
  BY <1>2, <1>3 DEF LineInv
<1>4. CASE ~sent.mixed
  <2> DEFINE q == FlattenSeq(InfosOf(queue'))
             b == buf'
             u == Unsent
             w == wire'
             v == w \o u
             x == q \o b
             y == buf \o raw
             l == Labels(got.packets)
             t == Labels(sent.packets)
  <2>1. /\ ppp \in Seq(AnyByte) /\ buf \in Seq(AnyByte) /\ b \in Seq(AnyByte) /\ w \in Seq(AnyByte)
        /\ u \in Seq(AnyByte) /\ l \in Seq(Mark) /\ t \in Seq(Mark)
    BY StreamTypes DEF Readable
  <2>2. q \in Seq(AnyByte)
    <3>1. queue' \in Seq(Frame)
      BY DEF Readable
    <3>2. InfosOf(queue') \in Seq(Seq(AnyByte))
      BY <3>1, HeadsType
    <3> QED
      BY <3>2, FlattenType
  <2>3. Unsent' = u
    BY DEF Unsent
  <2>4. Stream = ppp \o (buf \o ((raw \o w) \o u))
    <3>1. FlattenSeq(InfosOf(queue)) = <<>>
      BY HeadsNone
    <3> DEFINE e == buf \o (wire \o u)
    <3>2. e \in Seq(AnyByte)
      <4>1. wire \in Seq(AnyByte)
        BY StreamTypes
      <4> QED
        BY <2>1, <4>1
    <3>3. Stream = ppp \o (<<>> \o e)
      BY <3>1 DEF Stream, StreamTo
    <3> HIDE DEF e
    <3>4. <<>> \o e = e
      BY <3>2, Regroup
    <3>5. wire = raw \o w
      BY <1>2
    <3> QED
      BY <3>3, <3>4, <3>5 DEF e
  <2>5. Stream' = ppp \o (q \o (b \o v))
    BY <2>3 DEF Stream, StreamTo
  <2> HIDE DEF q, b, u, w
  <2>6. v \in Seq(AnyByte) /\ x \in Seq(AnyByte) /\ y \in Seq(AnyByte)
    BY <2>1, <2>2
  <2>7. (raw \o w) \o u = raw \o v
    <3>1. raw \in Seq(AnyByte) /\ w \in Seq(AnyByte) /\ u \in Seq(AnyByte)
      BY <2>1
    <3> QED
      BY ONLY <3>1, Assoc
  <2> HIDE DEF v
  <2>8. y \o v = buf \o (raw \o v)
    <3>1. buf \in Seq(AnyByte) /\ raw \in Seq(AnyByte) /\ v \in Seq(AnyByte)
      BY <2>1, <2>6
    <3> QED
      BY ONLY <3>1, Assoc, SMTT(20)
  <2>9. x \o v = q \o (b \o v)
    <3>1. q \in Seq(AnyByte) /\ b \in Seq(AnyByte) /\ v \in Seq(AnyByte)
      BY <2>1, <2>2, <2>6
    <3> QED
      BY ONLY <3>1, Assoc, SMTT(20)
  <2>10. Within(MarksOf("packet", x), MarksOf("packet", y))
    BY <1>2 DEF q, b
  <2> HIDE DEF x, y
  <2>11. Stream = ppp \o (y \o v) /\ Stream' = ppp \o (x \o v)
    BY <2>4, <2>5, <2>7, <2>8, <2>9
  <2>12. Within(l \o MarksOf("packet", ppp \o (y \o v)), t)
    BY <1>4, <2>11 DEF LineInv
  <2> HIDE DEF l, t
  <2>13. Within(l \o MarksOf("packet", ppp \o (x \o v)), t)
    BY <2>1, <2>6, <2>10, <2>12, Between
  <2>14. Within(Labels(got'.packets) \o MarksOf("packet", Stream'), Labels(sent'.packets))
    BY <1>2, <2>11, <2>13 DEF l, t
  <2>15. left'["one"] = <<>> \/ left'["two"] = <<>>
    BY <1>4 DEF LineInv
  <2> QED
    BY <1>2, <2>14, <2>15 DEF LineInv
<1> QED
  BY <1>3, <1>4

LEMMA DispatchKeepsLine ==
    ASSUME TypeInv, TypeInv', LineInv, Dispatchable, UNCHANGED <<left, wire, buf, sent>>
    PROVE  LineInv' /\ (Packages!Receive \/ sent'.mixed \/ UNCHANGED <<sent.packets, got.packets>>)
<1>1. PICK f \in Frame, ps \in Seq(Packet) : Dispatches(f, ps)
  BY DEF Dispatchable
<1> DEFINE d == f.info
<1>2. /\ queue = <<f>> \o queue' /\ got'.packets = got.packets \o ps
      /\ Within(Labels(ps) \o MarksOf("packet", ppp'), MarksOf("packet", ppp \o d))
      /\ queue' \in Seq(Frame) /\ d \in Seq(AnyByte) /\ ppp' \in Seq(AnyByte)
  BY <1>1 DEF Dispatches, Dispatchable, Frame
<1>3. CASE sent.mixed
  BY <1>3 DEF LineInv
<1>4. CASE ~sent.mixed
  <2> DEFINE q == FlattenSeq(InfosOf(queue'))
             x == ppp'
             y == ppp \o d
             e == buf \o (wire \o Unsent)
             r == q \o e
             l == Labels(got.packets)
             h == Labels(ps)
             t == Labels(sent.packets)
  <2>1. /\ ppp \in Seq(AnyByte) /\ x \in Seq(AnyByte) /\ d \in Seq(AnyByte) /\ e \in Seq(AnyByte)
        /\ l \in Seq(Mark) /\ h \in Seq(Mark) /\ t \in Seq(Mark)
    <3>1. wire \o Unsent \in Seq(AnyByte) /\ buf \in Seq(AnyByte)
      BY StreamTypes
    <3>2. e \in Seq(AnyByte)
      BY <3>1
    <3> QED
      BY <1>2, <3>2, StreamTypes
  <2>2. q \in Seq(AnyByte) /\ FlattenSeq(InfosOf(queue)) = d \o q
    <3> DEFINE one == <<f>>
               rest == queue'
    <3>1. one \in Seq(Frame) /\ rest \in Seq(Frame) /\ queue = one \o rest
      BY <1>2
    <3>2. InfosOf(one) = <<d>>
      BY HeadsOne
    <3> HIDE DEF one, rest
    <3>3. InfosOf(queue) = InfosOf(one) \o InfosOf(rest)
      BY <3>1, HeadsConcat
    <3>4. InfosOf(one) \in Seq(Seq(AnyByte)) /\ InfosOf(rest) \in Seq(Seq(AnyByte))
      BY <3>1, HeadsType
    <3> DEFINE a == InfosOf(one)
               c == InfosOf(rest)
    <3>5. a \in Seq(Seq(AnyByte)) /\ c \in Seq(Seq(AnyByte))
      BY <3>4
    <3> HIDE DEF a, c
    <3>6. FlattenSeq(a \o c) = FlattenSeq(a) \o FlattenSeq(c) /\ FlattenSeq(c) \in Seq(AnyByte)
      BY <3>5, FlattenConcat, FlattenType
    <3>7. FlattenSeq(<<d>>) = d
      <4> HIDE DEF d
      <4> QED
        BY <2>1, FlattenOne
    <3> QED
      BY <3>2, <3>3, <3>6, <3>7 DEF a, c, rest
  <2>3. Stream = ppp \o ((d \o q) \o e)
    BY <2>2 DEF Stream, StreamTo
  <2>4. Stream' = x \o r
    <3>1. Unsent' = Unsent
      BY DEF Unsent
    <3> QED
      BY <3>1 DEF Stream, StreamTo
  <2> HIDE DEF d, q, e
  <2>5. (d \o q) \o e = d \o r /\ r \in Seq(AnyByte)
    <3>1. d \in Seq(AnyByte) /\ q \in Seq(AnyByte) /\ e \in Seq(AnyByte)
      BY <2>1, <2>2
    <3> QED
      BY ONLY <3>1, Assoc, SMTT(20)
  <2> HIDE DEF r
  <2>6. y \o r = ppp \o (d \o r) /\ y \in Seq(AnyByte)
    <3>1. ppp \in Seq(AnyByte) /\ d \in Seq(AnyByte) /\ r \in Seq(AnyByte)
      BY <2>1, <2>5
    <3> QED
      BY ONLY <3>1, Assoc
  <2>7. Within(h \o MarksOf("packet", x), MarksOf("packet", y))
    BY <1>2 DEF d
  <2> HIDE DEF y
  <2>8. Stream = y \o r
    BY <2>3, <2>5, <2>6
  <2>9. Within(l \o MarksOf("packet", y \o r), t)
    BY <1>4, <2>8 DEF LineInv
  <2>10. Labels(got'.packets) = l \o h
    <3>1. got.packets \in Seq(Label) /\ ps \in Seq(Label)
      BY StreamTypes
    <3> QED
      BY <1>2, <3>1, LabelsConcat
  <2> HIDE DEF x, l, h, t
  <2>11. Within((l \o h) \o MarksOf("packet", x \o r), t) /\ Within(l \o h, t)
    BY <2>1, <2>5, <2>6, <2>7, <2>9, Drawn
  <2>12. LineInv'
    <3>1. Within(Labels(got'.packets) \o MarksOf("packet", Stream'), Labels(sent'.packets))
      BY <2>4, <2>10, <2>11 DEF t
    <3>2. left'["one"] = <<>> \/ left'["two"] = <<>>
      BY <1>4 DEF LineInv
    <3> QED
      BY <3>1, <3>2 DEF LineInv
  <2>13. CASE got'.packets = got.packets
    BY <2>12, <2>13
  <2>14. CASE got'.packets # got.packets
    <3> DEFINE g == got'.packets
               s == sent.packets
    <3>1. g \in Seq(Label) /\ s \in Seq(Label) /\ got.packets \in Seq(Packet)
      <4>1. got'.packets \in Seq(Packet)
        BY DEF TypeInv, Got
      <4> QED
        BY <4>1, StreamTypes
    <3>2. Packages!IsPrefix(got.packets, got'.packets)
      BY <1>2, <3>1, Prefixed
    <3>3. Within(Labels(g), Labels(s))
      BY <2>10, <2>11 DEF t
    <3>4. Packages!Subsequence(g, s)
      <4> HIDE DEF g, s
      <4> QED
        BY <3>1, <3>3, Ordered DEF Packages!Subsequence
    <3> QED
      BY <2>12, <2>14, <3>2, <3>4 DEF Packages!Receive
  <2> QED
    BY <2>13, <2>14
<1> QED
  BY <1>3, <1>4

LEMMA SendPacketAlone ==
    ASSUME TypeInv, NEW w \in Writer, SendPacket(w), ~sent'.mixed
    PROVE  ~sent.mixed /\ Alone(w)
<1>1. sent \in Sent
  BY DEF TypeInv
<1> DEFINE mixed == sent.mixed \/ \E o \in Writer : left[o] # <<>>
<1>2. PICK p \in Packets :
          SendChunk(w, MakePppFrame(p.packet, p.compressed), Append(sent.packets, p.packet), mixed)
  BY DEF SendPacket
<1>3. CASE way.dir = "serial"
  <2>1. sent'.mixed = sent.mixed
    BY <1>1, <1>2, <1>3 DEF SendChunk, Sent
  <2>2. \A o \in Writer : left[o] = <<>>
    BY <1>3 DEF TypeInv, Underway
  <2> QED
    BY <2>1, <2>2 DEF Alone
<1>4. CASE way.dir # "serial"
  <2>1. sent'.mixed = mixed
    BY <1>1, <1>2, <1>4 DEF SendChunk, Sent
  <2> QED
    BY <2>1 DEF Alone
<1> QED
  BY <1>3, <1>4

LEMMA NextChunkAlone ==
    ASSUME TypeInv, LineInv, NEW w \in Writer, NextChunk(w)
    PROVE  sent'.mixed = sent.mixed /\ (~sent'.mixed => Alone(w))
<1>1. sent \in Sent /\ left[w] # <<>>
  BY DEF TypeInv, NextChunk
<1>2. SendChunk(w, left[w], sent.packets, sent.mixed)
  BY DEF NextChunk
<1>3. sent'.mixed = sent.mixed
  BY <1>1, <1>2 DEF SendChunk, Sent
<1>4. ~sent.mixed => left["one"] = <<>> \/ left["two"] = <<>>
  BY DEF LineInv
<1> QED
  BY <1>1, <1>3, <1>4 DEF Alone, Writer

LEMMA ModemTextAlone ==
    ASSUME TypeInv, ModemText
    PROVE  sent'.mixed = sent.mixed /\ Alone("one")
<1>1. sent \in Sent /\ left["two"] = <<>>
  BY DEF TypeInv, Underway, ModemText
<1>2. sent'.mixed = sent.mixed
  BY <1>1 DEF ModemText, Sent
<1> QED
  BY <1>1, <1>2 DEF Alone, Writer

LEMMA PacketsNext ==
    TypeInv /\ LineInv /\ [Next]_vars
        => LineInv' /\ (sent'.mixed \/ [Packages!Next]_<<sent.packets, got.packets>>)
<1> SUFFICES ASSUME TypeInv, LineInv, [Next]_vars
             PROVE  LineInv' /\ (sent'.mixed \/ [Packages!Next]_<<sent.packets, got.packets>>)
  OBVIOUS
<1> DEFINE Same == UNCHANGED <<sent.packets, got.packets>>
<1>1. TypeInv'
  BY TypeNext
<1>2. ASSUME NEW w \in Writer, SendPacket(w)
      PROVE  LineInv' /\ (Packages!Send \/ sent'.mixed \/ Same)
  <2>1. Unread
    BY <1>2 DEF SendPacket
  <2>2. ~sent'.mixed => ~sent.mixed /\ Alone(w)
    BY <1>2, SendPacketAlone
  <2> QED
    BY <1>1, <1>2, <2>1, <2>2, SendPacketPuts, PutKeepsLine
<1>3. ASSUME NEW w \in Writer, NextChunk(w)
      PROVE  LineInv' /\ (Packages!Send \/ sent'.mixed \/ Same)
  <2>1. Unread
    BY <1>3 DEF NextChunk
  <2>2. ~sent'.mixed => ~sent.mixed /\ Alone(w)
    BY <1>3, NextChunkAlone
  <2> QED
    BY <1>1, <1>3, <2>1, <2>2, NextChunkPuts, PutKeepsLine
<1>4. CASE ModemText
  <2>1. Unread /\ "one" \in Writer
    BY <1>4 DEF ModemText, Writer
  <2>2. ~sent'.mixed => ~sent.mixed /\ Alone("one")
    BY <1>4, ModemTextAlone
  <2>3. LineInv' /\ (Packages!Send \/ sent'.mixed \/ Same)
    BY <1>1, <1>4, <2>1, <2>2, ModemTextPuts, PutKeepsLine
  <2> QED
    BY <2>3 DEF Packages!Next
<1>5. CASE Read
  <2>1. Readable /\ UNCHANGED <<left, ppp, sent>> /\ queue = <<>>
    BY <1>5, ReadReads DEF Read
  <2> QED
    BY <1>1, <2>1, ReadKeepsLine
<1>6. CASE Dispatch
  <2>1. Dispatchable /\ UNCHANGED <<left, wire, buf, sent>>
    BY <1>6, DispatchDispatches DEF Dispatch
  <2> QED
    BY <1>1, <2>1, DispatchKeepsLine DEF Packages!Next
<1>7. CASE UNCHANGED <<left, wire, buf, queue, ppp, sent>> /\ got'.packets = got.packets
  <2>1. Stream' = Stream
    BY <1>7 DEF Stream, StreamTo, Unsent
  <2> QED
    BY <1>7, <2>1 DEF LineInv
<1>8. CASE Command \/ Take
  <2>1. got'.packets = got.packets
    BY <1>8 DEF Command, Take, TypeInv, Got
  <2> QED
    BY <1>7, <1>8, <2>1 DEF Command, Take
<1>9. CASE Register \/ Answered
  BY <1>7, <1>9 DEF Register, Answered
<1>10. CASE UNCHANGED vars
  BY <1>7, <1>10 DEF vars
<1> QED
  BY <1>2, <1>3, <1>4, <1>5, <1>6, <1>8, <1>9, <1>10 DEF Next, Packages!Next

LEMMA LineInit == Init => LineInv /\ Packages!Init
<1> SUFFICES ASSUME Init PROVE LineInv /\ Packages!Init
  OBVIOUS
<1> DEFINE none == <<>>
<1>1. /\ got.packets = none /\ sent.packets = none /\ left["one"] = none /\ left["two"] = none
      /\ ppp = none /\ buf = none /\ wire = none /\ queue = none
  BY DEF Init, Writer
<1>2. Unsent = none
  BY <1>1 DEF Unsent
<1>3. Stream = none
  <2>1. FlattenSeq(InfosOf(queue)) = none
    BY <1>1, HeadsNone
  <2> QED
    BY <1>1, <1>2, <2>1 DEF Stream, StreamTo
<1>4. Labels(none) = none /\ MarksOf("packet", none) = none /\ none \o none = none
  <2>1. Labels(<<>>) = <<>>
    BY LabelsOne
  <2>2. MarksOf("packet", <<>>) = <<>>
    BY MarksNone
  <2> QED
    BY <2>1, <2>2
<1>5. Within(none, none) /\ none = <<>>
  BY WithinNone
<1> HIDE DEF none
<1> QED
  BY <1>1, <1>3, <1>4, <1>5 DEF LineInv, Packages!Init

(* Up to the first packet that a thread begins while another is sending,    *)
(* in every way and whatever the line damages or send() drops: a packet     *)
(* that arrives was sent, unaltered, once and in order (PppParser).         *)
THEOREM PacketsInStep ==
    Spec => [][~sent'.mixed => Packages!Send \/ Packages!Receive]_<<sent.packets, got.packets>>
<1>1. TypeInv /\ LineInv /\ [Next]_vars
          => [~sent'.mixed => Packages!Send \/ Packages!Receive]_<<sent.packets, got.packets>>
  BY PacketsNext DEF Packages!Next
<1> QED
  BY <1>1, LineInit, PacketsNext, TypeAlways, PTL DEF Spec

(* Only the host has two threads that send.                                 *)
LEMMA NeverMixed ==
    TypeInv /\ way.dir # "tx" /\ ~sent.mixed /\ LineInv /\ [Next]_vars
        => way'.dir # "tx" /\ ~sent'.mixed
<1> SUFFICES ASSUME TypeInv, way.dir # "tx", ~sent.mixed, LineInv, [Next]_vars
             PROVE  way'.dir # "tx" /\ ~sent'.mixed
  OBVIOUS
<1>0. sent \in Sent
  BY DEF TypeInv
<1>1. way' = way
  <2>1. ASSUME NEW w \in Writer, SendPacket(w) \/ NextChunk(w) PROVE way' = way
    BY <2>1 DEF SendPacket, NextChunk, Unread
  <2>2. CASE ModemText \/ Register \/ Read \/ Dispatch \/ Command \/ Take \/ Answered
    BY <2>2 DEF ModemText, Register, Read, Dispatch, Command, Take, Answered, Unread
  <2>3. CASE UNCHANGED vars
    BY <2>3 DEF vars
  <2> QED
    BY <2>1, <2>2, <2>3 DEF Next
<1>2. ASSUME NEW w \in Writer, SendPacket(w) PROVE ~sent'.mixed
  <2>1. w = "one" /\ left[w] = <<>> /\ left["two"] = <<>>
    BY <1>2 DEF SendPacket, Writer, TypeInv, Underway
  <2>2. ~(\E o \in Writer : left[o] # <<>>)
    BY <2>1 DEF Writer
  <2> DEFINE mixed == sent.mixed \/ \E o \in Writer : left[o] # <<>>
  <2>3. PICK p \in Packets :
            SendChunk(w, MakePppFrame(p.packet, p.compressed), Append(sent.packets, p.packet), mixed)
    BY <1>2 DEF SendPacket
  <2>4. mixed = FALSE /\ sent.mixed = FALSE
    BY <1>0, <2>2 DEF Sent
  <2> HIDE DEF mixed
  <2>5. sent'.mixed = FALSE
    BY <1>0, <2>3, <2>4 DEF SendChunk, Sent
  <2> QED
    BY <2>5
<1>3. ASSUME NEW w \in Writer, NextChunk(w) PROVE ~sent'.mixed
  BY <1>3, NextChunkAlone
<1>4. CASE ModemText
  <2>1. sent'.mixed = sent.mixed
    BY <1>4, ModemTextAlone
  <2>2. sent.mixed = FALSE
    BY <1>0 DEF Sent
  <2>3. sent'.mixed = FALSE
    BY <2>1, <2>2
  <2> QED
    BY <1>1, <2>3
<1>5. CASE Register \/ Read \/ Dispatch \/ Command \/ Take \/ Answered
  BY <1>5 DEF Register, Read, Dispatch, Command, Take, Answered
<1>6. CASE UNCHANGED vars
  BY <1>6 DEF vars
<1> QED
  BY <1>1, <1>2, <1>3, <1>4, <1>5, <1>6 DEF Next

(* From the modem to the host, over the multiplexer or without it, the PPP  *)
(* packets that arrive are those of a lossy FIFO, for any number of         *)
(* damaged and lost bytes (CmuxHarness._handle_frame(), PppParser).         *)
THEOREM PacketsAreKept ==
    ASSUME \A w \in Ways : w.dir # "tx"
    PROVE  Spec => PacketsKept
<1> DEFINE I == LineInv /\ way.dir # "tx" /\ ~sent.mixed
<1>1. Init => I /\ Packages!Init
  BY LineInit DEF Init
<1>2. TypeInv /\ I /\ [Next]_vars => I' /\ [Packages!Next]_<<sent.packets, got.packets>>
  BY PacketsNext, NeverMixed
<1> QED
  BY <1>1, <1>2, TypeAlways, PTL DEF Spec, PacketsKept, Packages!Spec
=============================================================================
