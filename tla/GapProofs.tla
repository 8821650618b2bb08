----------------------------- MODULE GapProofs ------------------------------
(***************************************************************************)
(* A fault costs frames that follow each other and no others, for every    *)
(* value of the constants.  What is on the line after a fault is text: the *)
(* codes of frames sent before it, scrap in which the parser finds no      *)
(* frame, or the frame that was meant, and the codes of frames sent since. *)
(* The scrap may make the parser wait for bytes of those, and it loses     *)
(* them then; a frame it accepts ends its search.                          *)
(***************************************************************************)
EXTENDS CleanLineProofs

-----------------------------------------------------------------------------
(* Checksums on the line.                                                   *)

(* A checksum of the multiplexer, and the length of the frame it ends.      *)
IsHead(b) == Len(b) = 2 /\ Len(b[2]) \in {3, 4}
Span(b) == Len(b[2]) + HeaderIn(b[2]).len + 3

(* A frame is accepted at a checksum of its own header, which is no closer  *)
(* to the beginning than the header says.                                   *)
LEMMA SoundEnds ==
    ASSUME NEW r \in Seq(AnyByte), r # <<>>, Complete(r), Sound(r)
    PROVE  LET e == FrameEnd(r) IN
           /\ FrameOf(r) \in Frame /\ e \in 2 .. Len(r) /\ Len(r) \in Nat
           /\ IsHead(r[e - 1])
           /\ HeaderIn(r[e - 1][2]) = Header(FrameOf(r).dlci, FrameOf(r).info)
           /\ Span(r[e - 1]) \in Int /\ Span(r[e - 1]) <= e
<1> DEFINE s == FrameStart(r)
           e == FrameEnd(r)
           b == r[FrameEnd(r) - 1]
           h == SubSeq(r, s, InfoStart(r) - 1)
           d == IF LongForm(r) THEN 4 ELSE 3
           n == InfoLen(r)
<1>0. Len(r) \in Nat
  OBVIOUS
<1>1. /\ s \in 2 .. Len(r) - 4 /\ InfoStart(r) = s + d /\ n \in Nat
      /\ e = InfoStart(r) + n + 1 /\ e \in 1 .. Len(r)
      /\ FrameOf(r) \in Frame
  BY FrameShape
<1>2. Len(b) = 2 /\ b[2] = h
  BY DEF Sound, Fits
<1>3. n = Val(r[s + 2]) \div 2 + IF LongForm(r) THEN Val(r[s + 3]) * LenBase ELSE 0
  BY DEF InfoLen
<1>4. FrameOf(r) = [dlci |-> Val(r[s]) \div 4, info |-> SubSeq(r, InfoStart(r), e - 2)]
  BY DEF FrameOf
<1>5. d \in {3, 4} /\ (d = 4 <=> LongForm(r))
  OBVIOUS
<1> HIDE DEF s, b, d, n, e
<1>6. s + d \in 1 .. Len(r) /\ e - 2 = s + d + n - 1 /\ e - 2 \in 1 .. Len(r)
  BY <1>0, <1>1, <1>5
<1>7. Len(h) = d /\ h[1] = r[s] /\ h[3] = r[s + 2] /\ (d = 4 => h[4] = r[s + 3])
  BY <1>0, <1>1, <1>5, <1>6
<1>8. Len(FrameOf(r).info) = n
  BY <1>0, <1>1, <1>4, <1>6, SMTT(20)
<1> HIDE DEF h
<1>9. HeaderIn(h).len = n /\ HeaderIn(h).dlci = FrameOf(r).dlci
  <2>1. HeaderIn(h).len = n
    BY <1>3, <1>5, <1>7 DEF HeaderIn
  <2>2. HeaderIn(h).dlci = FrameOf(r).dlci
    BY <1>4, <1>7 DEF HeaderIn
  <2> QED
    BY <2>1, <2>2
<1>10. HeaderIn(h) = Header(FrameOf(r).dlci, FrameOf(r).info)
  <2>1. HeaderIn(h) = [dlci |-> HeaderIn(h).dlci, len |-> HeaderIn(h).len]
    BY DEF HeaderIn
  <2> QED
    BY <1>8, <1>9, <2>1 DEF Header
<1>11. IsHead(b)
  BY <1>2, <1>5, <1>7 DEF IsHead
<1>12. Span(b) = d + n + 3
  BY <1>2, <1>7, <1>9 DEF Span
<1>13. e \in 2 .. Len(r) /\ d + n + 3 <= e /\ d + n + 3 \in Int
  BY <1>0, <1>1, <1>5
<1> QED
  BY <1>0, <1>1, <1>2, <1>10, <1>11, <1>12, <1>13 DEF b, e

(* b is the code of f, and its one checksum is where it has to be.          *)
OneHead(b, f) ==
    \A p \in 1 .. Len(b) : IsHead(b[p]) =>
        /\ p = Len(b) - 1
        /\ HeaderIn(b[p][2]) = Header(f.dlci, f.info) /\ Span(b[p]) = Len(b)

MarkedCodes == {c \in FrameCodes : OneHead(c[1], c[2])}

LEMMA NoHead ==
    /\ \A v : ~IsHead(Plain(v))
    /\ \A b \in PppByte : ~IsHead(b)
<1>1. \A v : ~IsHead(Plain(v))
  BY DEF IsHead, Plain
<1>2. ASSUME NEW b \in PppByte PROVE ~IsHead(b)
  <2>1. CASE b \in PlainByte
    BY <1>1, <2>1 DEF PlainByte
  <2>2. CASE \E v \in Byte, c \in Contents : b = Check(v, <<c>>)
    BY <2>2 DEF IsHead, Check
  <2> QED
    BY <2>1, <2>2 DEF PppByte
<1> QED
  BY <1>1, <1>2

(* Flags at both ends.                                                      *)
LEMMA MakeFrameEnds ==
    ASSUME NEW dlci, NEW cr, NEW ctrl, NEW data \in Seq(AnyByte), NEW v,
           HeaderFor(dlci, cr, ctrl, Len(data)) \in Seq(PlainByte)
    PROVE  LET m == MakeFrame(dlci, cr, ctrl, data, v) IN
           m[1] = Plain(Flag) /\ m[Len(m)] = Plain(Flag)
<1> DEFINE h == HeaderFor(dlci, cr, ctrl, Len(data))
           chk == Check(v, h)
           S == AnyByte \union {Plain(Flag), chk}
           a == <<Plain(Flag)>>
           z == <<chk, Plain(Flag)>>
           c == a \o h
           d == c \o data
           m == d \o z
<1>1. m = MakeFrame(dlci, cr, ctrl, data, v)
  BY DEF MakeFrame, HeaderFor
<1>2. /\ a \in Seq(S) /\ Len(a) = 1 /\ a[1] = Plain(Flag)
      /\ z \in Seq(S) /\ Len(z) = 2 /\ z[2] = Plain(Flag)
  OBVIOUS
<1>3. h \in Seq(S) /\ data \in Seq(S)
  <2>1. PlainByte \subseteq S /\ AnyByte \subseteq S
    BY ByteIs
  <2>2. h \in Seq(PlainByte) /\ data \in Seq(AnyByte)
    OBVIOUS
  <2> HIDE DEF h, S
  <2> QED
    BY <2>1, <2>2
<1> HIDE DEF S, a, z, h, chk
<1>4. c \in Seq(S) /\ Len(c) \in Nat \ {0} /\ c[1] = Plain(Flag)
  <2>1. c \in Seq(S) /\ Len(c) = Len(a) + Len(h) /\ Len(h) \in Nat
        /\ \A i \in 1 .. Len(a) + Len(h) : c[i] = IF i <= Len(a) THEN a[i] ELSE h[i - Len(a)]
    BY <1>2, <1>3, ConcatProperties, LenProperties
  <2> HIDE DEF c
  <2> QED
    BY <1>2, <2>1
<1> HIDE DEF c
<1>5. d \in Seq(S) /\ Len(d) \in Nat \ {0} /\ d[1] = Plain(Flag)
  BY <1>3, <1>4
<1> HIDE DEF d
<1>6. m[1] = Plain(Flag) /\ m[Len(m)] = Plain(Flag)
  <2> DEFINE l == Len(d)
             y == d \o z
  <2>1. y \in Seq(S) /\ Len(y) = l + Len(z)
        /\ \A i \in 1 .. l + Len(z) : y[i] = IF i <= l THEN d[i] ELSE z[i - l]
    BY <1>2, <1>5, ConcatProperties
  <2>2. l \in Nat \ {0}
    BY <1>5
  <2> HIDE DEF l, y
  <2>3. Len(y) = l + 2 /\ y[1] = d[1]
    BY <1>2, <2>1, <2>2
  <2>4. y[l + 2] = z[2]
    <3> DEFINE k == l + 2
    <3>1. k \in 1 .. l + Len(z) /\ ~(k <= l) /\ k - l = 2
      BY <1>2, <2>2
    <3> HIDE DEF k
    <3>2. y[k] = z[2]
      BY <2>1, <3>1
    <3> QED
      BY <3>2 DEF k
  <2> QED
    BY <1>2, <1>5, <2>3, <2>4 DEF y
<1> QED
  BY <1>1, <1>6

LEMMA MakeFrameIsMarked ==
    ASSUME NEW dlci \in Nat, NEW cr \in {0, 1}, NEW ctrl \in Byte,
           3 + 4 * dlci < 2 * LenBase, Flag # Val(Address(dlci, cr)),
           NEW data \in Seq(PppByte), Len(data) < 2 * LenBase * LenBase, NEW v \in Byte
    PROVE  LET m == MakeFrame(dlci, cr, ctrl, data, v)
               f == [dlci |-> dlci, info |-> data]
           IN  m \in Seq(AnyByte) /\ f \in Frame /\ <<m, f>> \in MarkedCodes
<1> DEFINE h == HeaderFor(dlci, cr, ctrl, Len(data))
           m == MakeFrame(dlci, cr, ctrl, data, v)
           f == [dlci |-> dlci, info |-> data]
           chk == Check(v, h)
           n == Len(data)
<1>0. data \in Seq(AnyByte) /\ n \in Nat /\ \A i \in 1 .. n : data[i] \in PppByte
  BY PppByteIs
<1>1. m \in Seq(AnyByte) /\ f \in Frame /\ <<m, f>> \in FrameCodes
  BY <1>0, MakeFrameIsCode
<1>2. /\ h \in Headers /\ h \in Seq(PlainByte)
      /\ HeaderIn(h) = [dlci |-> dlci, len |-> n]
  <2> HIDE DEF n
  <2> QED
    BY <1>0, HeaderBack DEF n
<1>3. chk \in AnyByte
  BY <1>2 DEF AnyByte
<1>4. Layout(m, h, data, chk)
  BY <1>0, <1>2, <1>3, MakeFrameLayout
<1>5. m[1] = Plain(Flag) /\ m[Len(m)] = Plain(Flag)
  BY <1>0, <1>2, MakeFrameEnds
<1>6. HeaderIn(h) = Header(f.dlci, f.info) /\ HeaderIn(h).len = n
  BY <1>2 DEF Header
<1>7. chk[2] = h
  BY DEF Check
<1> HIDE DEF h, m, f, chk
<1> DEFINE k == Len(h)
           e == Len(m)
<1>8. k \in {3, 4} /\ e = k + n + 3
  BY <1>2, <1>4 DEF Layout, Headers
<1>9. /\ m[e - 1] = chk
      /\ \A j \in 2 .. k + 1 : m[j] = h[j - 1]
      /\ \A j \in k + 2 .. k + n + 1 : m[j] = data[j - k - 1]
  BY <1>4 DEF Layout
<1>10. ASSUME NEW p \in 1 .. e, IsHead(m[p]) PROVE p = e - 1
  <2> SUFFICES ASSUME p # e - 1 PROVE FALSE
    OBVIOUS
  <2>0. /\ \A j \in 1 .. k : h[j] \in PlainByte
        /\ \A b \in PlainByte : ~IsHead(b)
    BY <1>2, NoHead DEF PlainByte
  <2> HIDE DEF n, k, e
  <2>1. p = 1 \/ p = e \/ p \in 2 .. k + 1 \/ p \in k + 2 .. k + n + 1
    BY <1>0, <1>8
  <2>2. CASE p = 1 \/ p = e
    BY <1>5, <1>10, <2>2, NoHead DEF e
  <2>3. CASE p \in 2 .. k + 1
    <3>1. p - 1 \in 1 .. k /\ m[p] = h[p - 1]
      BY <1>8, <1>9, <2>3
    <3> QED
      BY <1>10, <2>0, <3>1
  <2>4. CASE p \in k + 2 .. k + n + 1
    <3>1. p - k - 1 \in 1 .. n /\ m[p] = data[p - k - 1]
      BY <1>0, <1>8, <1>9, <2>4
    <3> QED
      BY <1>0, <1>10, <3>1, NoHead
  <2> QED
    BY <2>1, <2>2, <2>3, <2>4
<1>11. Span(chk) = e
  BY <1>6, <1>7, <1>8 DEF Span
<1>12. OneHead(m, f)
  BY <1>6, <1>7, <1>9, <1>10, <1>11 DEF OneHead
<1> QED
  BY <1>1, <1>12 DEF MarkedCodes, m, f

-----------------------------------------------------------------------------
(* Parts of a concatenation.                                                *)

LEMMA PartOfConcat ==
    ASSUME NEW S, NEW b \in Seq(S), NEW t \in Seq(S), NEW m \in 1 .. Len(b) + Len(t) + 1
    PROVE  /\ Len(b \o t) = Len(b) + Len(t)
           /\ m <= Len(b) + 1 => SubSeq(b \o t, m, Len(b \o t)) = SubSeq(b, m, Len(b)) \o t
           /\ m >= Len(b) + 1 => SubSeq(b \o t, m, Len(b \o t)) = SubSeq(t, m - Len(b), Len(t))
<1> DEFINE e == b \o t
           n == Len(b)
           l == Len(t)
<1>1. e \in Seq(S) /\ Len(e) = n + l /\ n \in Nat /\ l \in Nat
  BY ConcatProperties, LenProperties
<1>2. SubSeq(e, 1, Len(e)) = e
  BY <1>1, SubSeqFull
<1>3. ASSUME NEW p \in Seq(S), NEW v \in Seq(S), e = p \o v, 1 + Len(p) = m
      PROVE  SubSeq(e, m, Len(e)) = v
  <2>1. 1 \in 1 .. Len(e) + 1
    BY <1>1
  <2> HIDE DEF e
  <2> QED
    BY <1>1, <1>2, <1>3, <2>1, Skip
<1>4. ASSUME m <= n + 1 PROVE SubSeq(e, m, Len(e)) = SubSeq(b, m, n) \o t
  <2> DEFINE p == SubSeq(b, 1, m - 1)
             v == SubSeq(b, m, n)
             w == v \o t
  <2>1. m \in 1 .. n + 1 /\ 1 \in 1 .. n + 1 /\ m - 1 \in 0 .. n
    BY <1>1, <1>4
  <2>2. p \in Seq(S) /\ v \in Seq(S) /\ b = p \o v
    <3>1. SubSeq(b, 1, n) = b
      BY SubSeqFull
    <3> QED
      BY <2>1, <3>1, Tails
  <2>3. Len(p) = m - 1
    BY <2>1
  <2> HIDE DEF p, v
  <2>4. w \in Seq(S)
    BY <2>2, ConcatProperties
  <2>5. e = p \o w
    <3>1. p \in Seq(S) /\ v \in Seq(S) /\ t \in Seq(S)
      BY <2>2
    <3>2. (p \o v) \o t = p \o (v \o t)
      BY ONLY <3>1, Assoc, SMTT(30)
    <3> QED
      BY <2>2, <3>2
  <2>6. 1 + Len(p) = m
    BY <1>1, <2>3
  <2> HIDE DEF w, e
  <2>7. SubSeq(e, m, Len(e)) = w
    BY <1>3, <2>2, <2>4, <2>5, <2>6
  <2> QED
    BY <2>7 DEF v, w
<1>5. ASSUME m >= n + 1 PROVE SubSeq(e, m, Len(e)) = SubSeq(t, m - n, l)
  <2> DEFINE k == m - n
             p == SubSeq(t, 1, k - 1)
             v == SubSeq(t, k, l)
             w == b \o p
  <2>1. k \in 1 .. l + 1 /\ 1 \in 1 .. l + 1 /\ k - 1 \in 0 .. l /\ n + k = m
    BY <1>1, <1>5
  <2> HIDE DEF k
  <2>2. p \in Seq(S) /\ v \in Seq(S) /\ t = p \o v
    <3>1. SubSeq(t, 1, l) = t
      BY SubSeqFull
    <3> QED
      BY <2>1, <3>1, Tails
  <2>3. Len(p) = k - 1
    BY <2>1
  <2> HIDE DEF p, v
  <2>4. w \in Seq(S) /\ Len(w) = n + Len(p)
    BY <2>2, ConcatProperties
  <2>5. e = w \o v
    <3>1. b \in Seq(S) /\ p \in Seq(S) /\ v \in Seq(S)
      BY <2>2
    <3>2. (b \o p) \o v = b \o (p \o v)
      BY ONLY <3>1, Assoc, SMTT(30)
    <3> QED
      BY <2>2, <3>2
  <2>6. 1 + Len(w) = m
    BY <1>1, <2>1, <2>3, <2>4
  <2> HIDE DEF w, e
  <2>7. SubSeq(e, m, Len(e)) = v
    BY <1>3, <2>2, <2>4, <2>5, <2>6
  <2> QED
    BY <2>7 DEF v, k
<1> QED
  BY <1>1, <1>4, <1>5

-----------------------------------------------------------------------------
(* A text of frames, cut anywhere or read at one of its checksums.          *)

(* No frame can end in c: its checksums ask for more before them.           *)
Early(c) == \A p \in 1 .. Len(c) : IsHead(c[p]) => p + 1 < Span(c[p])

(* s ends with the codes of the last of the frames q, and no frame ends     *)
(* before them.                                                             *)
CutFrom(s, q) ==
    \E c \in Seq(AnyByte), t \in Seq(AnyByte), q1 \in Seq(Frame), q2 \in Seq(Frame) :
        s = c \o t /\ q = q1 \o q2 /\ Early(c) /\ Encodes(MarkedCodes, t, q2)

LEMMA NothingEarly == Early(<<>>)
BY DEF Early

LEMMA CodeCut ==
    ASSUME NEW b \in Seq(AnyByte), NEW f \in Frame, <<b, f>> \in MarkedCodes,
           NEW m \in 2 .. Len(b) + 1
    PROVE  SubSeq(b, m, Len(b)) \in Seq(AnyByte) /\ Early(SubSeq(b, m, Len(b)))
<1> DEFINE c == SubSeq(b, m, Len(b))
           l == Len(b)
<1>1. c \in Seq(AnyByte) /\ Len(c) = l - m + 1 /\ l \in Nat
      /\ \A j \in 1 .. l - m + 1 : c[j] = b[m + j - 1]
  BY FromIs
<1> HIDE DEF c
<1>2. OneHead(b, f)
  BY DEF MarkedCodes
<1>3. ASSUME NEW p \in 1 .. Len(c), IsHead(c[p]) PROVE p + 1 < Span(c[p])
  <2> DEFINE k == m + p - 1
  <2>1. k \in 1 .. l /\ c[p] = b[k]
    BY <1>1, <1>3
  <2>2. k = l - 1 /\ Span(b[k]) = l
    <3> HIDE DEF k
    <3> QED
      BY <1>2, <1>3, <2>1 DEF OneHead
  <2>3. p + 1 < l
    BY <1>1, <2>1, <2>2
  <2> QED
    BY <2>1, <2>2, <2>3
<1> QED
  BY <1>1, <1>3 DEF Early, c

LEMMA CutMore ==
    ASSUME NEW s, NEW f \in Frame, NEW r \in Seq(Frame), CutFrom(s, r)
    PROVE  CutFrom(s, <<f>> \o r)
<1> DEFINE one == <<f>>
<1>1. PICK c \in Seq(AnyByte), t \in Seq(AnyByte), q1 \in Seq(Frame), q2 \in Seq(Frame) :
          s = c \o t /\ r = q1 \o q2 /\ Early(c) /\ Encodes(MarkedCodes, t, q2)
  BY DEF CutFrom
<1>2. one \in Seq(Frame) /\ q1 \in Seq(Frame) /\ q2 \in Seq(Frame)
  BY <1>1
<1> HIDE DEF one
<1> DEFINE q == one \o q1
<1>3. (one \o q1) \o q2 = one \o (q1 \o q2)
  BY ONLY <1>2, Assoc, SMTT(30)
<1>4. q \in Seq(Frame) /\ one \o r = q \o q2
  <2>1. q \in Seq(Frame)
    BY <1>2, ConcatProperties
  <2> QED
    BY <1>1, <1>3, <2>1
<1> HIDE DEF q
<1>5. CutFrom(s, one \o r)
  BY <1>1, <1>4 DEF CutFrom
<1> QED
  BY <1>5 DEF one

LEMMA CutStep ==
    ASSUME NEW b \in Seq(AnyByte), NEW f \in Frame, <<b, f>> \in MarkedCodes,
           NEW u \in Seq(AnyByte), NEW r \in Seq(Frame), Encodes(MarkedCodes, u, r),
           NEW m \in 1 .. Len(b \o u) + 1,
           \A k \in 1 .. Len(u) + 1 : CutFrom(SubSeq(u, k, Len(u)), r)
    PROVE  CutFrom(SubSeq(b \o u, m, Len(b \o u)), <<f>> \o r)
<1> DEFINE one == <<f>>
           e == b \o u
           s == SubSeq(b \o u, m, Len(b \o u))
           none == <<>>
           fr == one \o r
<1>1. /\ e \in Seq(AnyByte) /\ Len(e) = Len(b) + Len(u) /\ Len(b) \in Nat /\ Len(u) \in Nat
  BY ConcatProperties, LenProperties
<1>2. m \in 1 .. Len(b) + Len(u) + 1
  BY <1>1
<1>3. /\ m <= Len(b) + 1 => s = SubSeq(b, m, Len(b)) \o u
      /\ m >= Len(b) + 1 => s = SubSeq(u, m - Len(b), Len(u))
  BY <1>2, PartOfConcat
<1>4. one \in Seq(Frame) /\ fr \in Seq(Frame) /\ none \in Seq(Frame) /\ none \in Seq(AnyByte)
  OBVIOUS
<1>5. Encodes(MarkedCodes, e, fr)
  <2>1. Encodes(MarkedCodes, b, one)
    BY EncodesOne
  <2> HIDE DEF one
  <2> QED
    BY <1>4, <2>1, EncodesConcat
<1>6. CASE m = 1
  <2>1. s = e
    <3> HIDE DEF e
    <3> QED
      BY <1>1, <1>6, SubSeqFull DEF e
  <2>2. none \o e = e /\ none \o fr = fr
    <3> HIDE DEF e, fr
    <3>1. none \o e = e
      BY <1>1, Regroup
    <3>2. none \o fr = fr
      BY <1>4, Regroup
    <3> QED
      BY <3>1, <3>2
  <2> HIDE DEF e, fr, s
  <2>3. s = none \o e /\ fr = none \o fr /\ Early(none)
    BY <2>1, <2>2, NothingEarly
  <2> HIDE DEF none
  <2>4. CutFrom(s, fr)
    BY <1>1, <1>4, <1>5, <2>3 DEF CutFrom
  <2> QED
    BY <2>4 DEF s, fr, one
<1>7. CASE m \in 2 .. Len(b) + 1
  <2> DEFINE c == SubSeq(b, m, Len(b))
  <2>1. c \in Seq(AnyByte) /\ Early(c)
    BY <1>7, CodeCut
  <2>2. s = c \o u
    <3> HIDE DEF s, e
    <3>1. m <= Len(b) + 1
      BY <1>1, <1>7
    <3> QED
      BY <1>3, <3>1
  <2>3. fr = one \o r
    OBVIOUS
  <2> HIDE DEF c, s, fr, one
  <2>4. CutFrom(s, fr)
    BY <1>4, <2>1, <2>2, <2>3 DEF CutFrom
  <2> QED
    BY <2>4 DEF s, fr, one
<1>8. CASE m > Len(b) + 1
  <2> DEFINE k == m - Len(b)
  <2>1. k \in 1 .. Len(u) + 1
    BY <1>1, <1>2, <1>8
  <2>2. s = SubSeq(u, k, Len(u))
    BY <1>1, <1>2, <1>3, <1>8
  <2> HIDE DEF k, s
  <2>3. CutFrom(s, r)
    BY <2>1, <2>2
  <2>4. CutFrom(s, fr)
    BY <2>3, CutMore
  <2> QED
    BY <2>4 DEF s
<1> QED
  BY <1>1, <1>2, <1>6, <1>7, <1>8

(* However many frames the text is of, by their number.                     *)
LEMMA TextCut ==
    ASSUME NEW t \in Seq(AnyByte), NEW q \in Seq(Frame), Encodes(MarkedCodes, t, q),
           NEW m \in 1 .. Len(t) + 1
    PROVE  CutFrom(SubSeq(t, m, Len(t)), q)
<1> DEFINE n == Len(q) + 1
           Cuts(v, r) == \A k \in 1 .. Len(v) + 1 : CutFrom(SubSeq(v, k, Len(v)), r)
           P == {i \in 1 .. n : \A v \in Seq(AnyByte) : \A r \in Seq(Frame) :
                     Len(r) = i - 1 /\ Encodes(MarkedCodes, v, r) => Cuts(v, r)}
<1>0. n \in Nat /\ Len(q) \in Nat /\ n \in 1 .. n /\ Len(q) = n - 1
  OBVIOUS
<1>1. ASSUME NEW i \in 1 .. n, 1 .. i - 1 \subseteq P PROVE i \in P
  <2> SUFFICES ASSUME NEW v \in Seq(AnyByte), NEW r \in Seq(Frame),
                      Len(r) = i - 1, Encodes(MarkedCodes, v, r)
               PROVE  Cuts(v, r)
    OBVIOUS
  <2>1. CASE r = <<>>
    <3>1. v = <<>>
      BY <2>1, EncodesNone
    <3> SUFFICES ASSUME NEW k \in 1 .. Len(v) + 1 PROVE CutFrom(SubSeq(v, k, Len(v)), r)
      OBVIOUS
    <3> DEFINE none == <<>>
    <3>2. SubSeq(v, k, Len(v)) = none
      BY <3>1
    <3>3. none \in Seq(AnyByte) /\ none \in Seq(Frame) /\ none = none \o none
      OBVIOUS
    <3>4. Encodes(MarkedCodes, none, none) /\ Early(none) /\ r = none
      BY <2>1, EncodesNone, NothingEarly
    <3> HIDE DEF none
    <3> QED
      BY <3>2, <3>3, <3>4 DEF CutFrom
  <2>2. CASE r # <<>>
    <3> DEFINE f == Head(r)
               z == Tail(r)
    <3>1. f \in Frame /\ z \in Seq(Frame) /\ r = <<f>> \o z /\ Begins(MarkedCodes, v, f, z)
      BY <2>2, EncodesFirst
    <3>2. Len(z) = (i - 1) - 1 /\ i - 1 \in 1 .. i - 1
      <4>1. Len(r) \in Nat /\ Len(r) # 0 /\ Len(z) = Len(r) - 1
        BY <2>2, HeadTailProperties
      <4> QED
        BY <4>1
    <3> HIDE DEF f, z
    <3>3. PICK b \in Seq(AnyByte), u \in Seq(AnyByte) :
              v = b \o u /\ <<b, f>> \in MarkedCodes /\ Encodes(MarkedCodes, u, z)
      BY <3>1 DEF Begins
    <3>4. Cuts(u, z)
      <4>1. i - 1 \in P
        BY <1>1, <3>2
      <4> HIDE DEF Cuts
      <4> QED
        BY <3>1, <3>2, <3>3, <4>1
    <3> SUFFICES ASSUME NEW k \in 1 .. Len(v) + 1 PROVE CutFrom(SubSeq(v, k, Len(v)), r)
      OBVIOUS
    <3>5. CutFrom(SubSeq(b \o u, k, Len(b \o u)), <<f>> \o z)
      <4>1. k \in 1 .. Len(b \o u) + 1
        BY <3>3
      <4> QED
        BY <3>1, <3>3, <3>4, <4>1, CutStep
    <3> QED
      BY <3>1, <3>3, <3>5
  <2> QED
    BY <2>1, <2>2
<1>2. 1 .. n \subseteq P
  <2> HIDE DEF P, n
  <2> QED
    BY <1>0, <1>1, Upward
<1>3. Cuts(t, q)
  <2>1. n \in P
    BY <1>0, <1>2
  <2> HIDE DEF Cuts
  <2> QED
    BY <1>0, <2>1
<1> QED
  BY <1>3

(* The checksum at p is that of one of the frames q of t, and what follows  *)
(* its flag is the code of the next ones.                                   *)
ReadAt(t, q, p) ==
    /\ p + 1 <= Len(t)
    /\ \E q1 \in Seq(Frame), f \in Frame, q2 \in Seq(Frame) :
           /\ q = q1 \o (<<f>> \o q2) /\ Header(f.dlci, f.info) = HeaderIn(t[p][2])
           /\ Encodes(MarkedCodes, SubSeq(t, p + 2, Len(t)), q2)

LEMMA ReadStep ==
    ASSUME NEW b \in Seq(AnyByte), NEW f \in Frame, <<b, f>> \in MarkedCodes,
           NEW u \in Seq(AnyByte), NEW r \in Seq(Frame), Encodes(MarkedCodes, u, r),
           NEW p \in 1 .. Len(b \o u), IsHead((b \o u)[p]),
           \A k \in 1 .. Len(u) : IsHead(u[k]) => ReadAt(u, r, k)
    PROVE  ReadAt(b \o u, <<f>> \o r, p)
<1> DEFINE one == <<f>>
           e == b \o u
           none == <<>>
           fr == one \o r
           m == p + 2
           s == SubSeq(e, m, Len(e))
           l == Len(b)
<1>1. /\ e \in Seq(AnyByte) /\ Len(e) = l + Len(u) /\ l \in Nat /\ Len(u) \in Nat
      /\ \A i \in 1 .. l + Len(u) : e[i] = IF i <= l THEN b[i] ELSE u[i - l]
  BY ConcatProperties, LenProperties
<1>2. p \in 1 .. l + Len(u)
  BY <1>1
<1>3. m <= l + Len(u) + 1 =>
          /\ m <= l + 1 => s = SubSeq(b, m, l) \o u
          /\ m >= l + 1 => s = SubSeq(u, m - l, Len(u))
  <2>1. ASSUME m <= l + Len(u) + 1 PROVE m \in 1 .. Len(b) + Len(u) + 1
    BY <1>1, <1>2, <2>1
  <2> HIDE DEF m
  <2> QED
    BY <2>1, PartOfConcat DEF s, l, e
<1>4. one \in Seq(Frame) /\ fr \in Seq(Frame) /\ none \in Seq(Frame)
  OBVIOUS
<1>5. CASE p <= l
  <2>1. e[p] = b[p] /\ p \in 1 .. l
    BY <1>1, <1>2, <1>5
  <2>2. p = l - 1 /\ HeaderIn(b[p][2]) = Header(f.dlci, f.info)
    <3>1. OneHead(b, f) /\ IsHead(b[p])
      BY <2>1 DEF MarkedCodes
    <3> QED
      BY <2>1, <3>1 DEF OneHead
  <2>3. p + 1 <= Len(e) /\ m = l + 1 /\ m <= l + Len(u) + 1 /\ m - l = 1
    BY <1>1, <2>2
  <2>4. s = u
    <3>1. s = SubSeq(u, 1, Len(u))
      <4>1. m <= l + Len(u) + 1 /\ m >= l + 1 /\ m - l = 1
        BY <1>1, <2>3
      <4> HIDE DEF s, m, l
      <4> QED
        BY <1>3, <4>1
    <3> QED
      BY <3>1, SubSeqFull
  <2>5. fr = none \o fr
    <3> HIDE DEF fr
    <3> QED
      BY <1>4, Regroup
  <2>6. fr = none \o (one \o r)
    BY <2>5
  <2> HIDE DEF fr, none, e, l, m
  <2>7. Encodes(MarkedCodes, SubSeq(e, p + 2, Len(e)), r)
    BY <2>4 DEF m
  <2>8. Header(f.dlci, f.info) = HeaderIn(e[p][2])
    BY <2>1, <2>2
  <2>9. ReadAt(e, fr, p)
    BY <1>4, <2>3, <2>6, <2>7, <2>8 DEF ReadAt
  <2> QED
    BY <2>9 DEF e, fr
<1>6. CASE p > l
  <2> DEFINE k == p - l
  <2>1. e[p] = u[k] /\ k \in 1 .. Len(u)
    BY <1>1, <1>2, <1>6
  <2> HIDE DEF k
  <2>2. ReadAt(u, r, k)
    BY <2>1
  <2>3. PICK q1 \in Seq(Frame), g \in Frame, q2 \in Seq(Frame) :
           /\ r = q1 \o (<<g>> \o q2) /\ Header(g.dlci, g.info) = HeaderIn(u[k][2])
           /\ Encodes(MarkedCodes, SubSeq(u, k + 2, Len(u)), q2)
    BY <2>2 DEF ReadAt
  <2>4. k + 1 <= Len(u)
    BY <2>2 DEF ReadAt
  <2>5. p + 1 <= Len(e) /\ m >= l + 1 /\ m <= l + Len(u) + 1 /\ m - l = k + 2
    BY <1>1, <1>2, <1>6, <2>4 DEF k
  <2>6. s = SubSeq(u, k + 2, Len(u))
    <3> HIDE DEF s, m, l
    <3> QED
      BY <1>3, <2>5
  <2> DEFINE gq == <<g>> \o q2
             z == one \o q1
  <2>7. gq \in Seq(Frame) /\ q1 \in Seq(Frame) /\ r = q1 \o gq
    BY <2>3
  <2> HIDE DEF one
  <2>8. z \in Seq(Frame)
    BY <1>4, ConcatProperties
  <2>9. fr = z \o gq
    <3> HIDE DEF gq
    <3>1. (one \o q1) \o gq = one \o (q1 \o gq)
      BY ONLY <1>4, <2>7, Assoc, SMTT(30)
    <3> QED
      BY <2>7, <3>1
  <2> HIDE DEF z, fr, e, m, l
  <2>10. fr = z \o (<<g>> \o q2)
    BY <2>9
  <2>11. Encodes(MarkedCodes, SubSeq(e, p + 2, Len(e)), q2)
    BY <2>3, <2>6 DEF s, m
  <2>12. Header(g.dlci, g.info) = HeaderIn(e[p][2])
    BY <2>1, <2>3
  <2>13. ReadAt(e, fr, p)
    BY <2>5, <2>8, <2>10, <2>11, <2>12 DEF ReadAt
  <2> QED
    BY <2>13 DEF e, fr, one
<1> QED
  BY <1>1, <1>2, <1>5, <1>6

(* Again by the number of frames.                                           *)
LEMMA TextMark ==
    ASSUME NEW t \in Seq(AnyByte), NEW q \in Seq(Frame), Encodes(MarkedCodes, t, q),
           NEW p \in 1 .. Len(t), IsHead(t[p])
    PROVE  ReadAt(t, q, p)
<1> DEFINE n == Len(q) + 1
           Reads1(v, r) == \A k \in 1 .. Len(v) : IsHead(v[k]) => ReadAt(v, r, k)
           P == {i \in 1 .. n : \A v \in Seq(AnyByte) : \A r \in Seq(Frame) :
                     Len(r) = i - 1 /\ Encodes(MarkedCodes, v, r) => Reads1(v, r)}
<1>0. n \in Nat /\ Len(q) \in Nat /\ n \in 1 .. n /\ Len(q) = n - 1
  OBVIOUS
<1>1. ASSUME NEW i \in 1 .. n, 1 .. i - 1 \subseteq P PROVE i \in P
  <2> SUFFICES ASSUME NEW v \in Seq(AnyByte), NEW r \in Seq(Frame),
                      Len(r) = i - 1, Encodes(MarkedCodes, v, r)
               PROVE  Reads1(v, r)
    OBVIOUS
  <2>1. CASE r = <<>>
    <3>1. v = <<>>
      BY <2>1, EncodesNone
    <3> QED
      BY <3>1
  <2>2. CASE r # <<>>
    <3> DEFINE f == Head(r)
               z == Tail(r)
    <3>1. f \in Frame /\ z \in Seq(Frame) /\ r = <<f>> \o z /\ Begins(MarkedCodes, v, f, z)
      BY <2>2, EncodesFirst
    <3>2. Len(z) = (i - 1) - 1 /\ i - 1 \in 1 .. i - 1
      <4>1. Len(r) \in Nat /\ Len(r) # 0 /\ Len(z) = Len(r) - 1
        BY <2>2, HeadTailProperties
      <4> QED
        BY <4>1
    <3> HIDE DEF f, z
    <3>3. PICK b \in Seq(AnyByte), u \in Seq(AnyByte) :
              v = b \o u /\ <<b, f>> \in MarkedCodes /\ Encodes(MarkedCodes, u, z)
      BY <3>1 DEF Begins
    <3>4. Reads1(u, z)
      <4>1. i - 1 \in P
        BY <1>1, <3>2
      <4> HIDE DEF Reads1
      <4> QED
        BY <3>1, <3>2, <3>3, <4>1
    <3> SUFFICES ASSUME NEW k \in 1 .. Len(v), IsHead(v[k]) PROVE ReadAt(v, r, k)
      OBVIOUS
    <3>5. ReadAt(b \o u, <<f>> \o z, k)
      <4>1. k \in 1 .. Len(b \o u) /\ IsHead((b \o u)[k])
        BY <3>3
      <4> QED
        BY <3>1, <3>3, <3>4, <4>1, ReadStep
    <3> QED
      BY <3>1, <3>3, <3>5
  <2> QED
    BY <2>1, <2>2
<1>2. 1 .. n \subseteq P
  <2> HIDE DEF P, n
  <2> QED
    BY <1>0, <1>1, Upward
<1>3. Reads1(t, q)
  <2>1. n \in P
    BY <1>0, <1>2
  <2> HIDE DEF Reads1
  <2> QED
    BY <1>0, <2>1
<1> QED
  BY <1>3

-----------------------------------------------------------------------------
(* What is left of a damaged code.                                          *)

LEMMA HeadIs ==
    ASSUME NEW b \in AnyByte, IsHead(b)
    PROVE  Span(b) \in Int /\ HeaderIn(b[2]) \in LineHead
<1>1. PICK v \in Byte, h \in Headers : b = Check(v, h)
  <2>1. b \in {Check(v, h) : v \in Byte, h \in Headers}
    BY NoHead DEF AnyByte, PppByte
  <2> QED
    BY <2>1
<1>2. b[2] = h /\ Len(h) \in {3, 4} /\ h \in Seq(PlainByte)
  BY <1>1 DEF Check, Headers
<1>3. /\ Val(h[1]) \in Nat /\ Val(h[3]) \in Nat /\ (Len(h) = 4 => Val(h[4]) \in Nat)
  <2>1. \A i \in 1 .. Len(h) : h[i] \in PlainByte
    BY <1>2
  <2>2. \A c \in PlainByte : Val(c) \in Nat
    BY ByteIs
  <2>3. 1 \in 1 .. Len(h) /\ 3 \in 1 .. Len(h) /\ (Len(h) = 4 => 4 \in 1 .. Len(h))
    <3> DEFINE k == Len(h)
    <3>1. k = 3 \/ k = 4
      BY <1>2
    <3> HIDE DEF k
    <3>2. 1 \in 1 .. k /\ 3 \in 1 .. k /\ (k = 4 => 4 \in 1 .. k)
      BY <3>1
    <3> QED
      BY <3>2 DEF k
  <2> QED
    BY <2>1, <2>2, <2>3
<1>4. HeaderIn(h).len \in Int /\ HeaderIn(h).dlci \in Int
  <2> DEFINE k == Val(h[4]) * LenBase
  <2>1. Len(h) = 4 => k \in Nat
    BY <1>3, PathConstants, Product
  <2> HIDE DEF k
  <2>2. HeaderIn(h).len = Val(h[3]) \div 2 + IF Len(h) = 4 THEN k ELSE 0
    BY DEF HeaderIn, k
  <2>3. HeaderIn(h).dlci = Val(h[1]) \div 4
    BY DEF HeaderIn
  <2>4. Val(h[3]) \div 2 \in Int /\ Val(h[1]) \div 4 \in Int
    BY <1>3
  <2> QED
    BY <1>2, <2>1, <2>2, <2>3, <2>4
<1>5. HeaderIn(h) = [dlci |-> HeaderIn(h).dlci, len |-> HeaderIn(h).len]
  BY DEF HeaderIn
<1>6. HeaderIn(h) \in LineHead
  BY <1>4, <1>5, LineHeadIs
<1>7. Span(b) \in Int
  BY <1>2, <1>4 DEF Span
<1> QED
  BY <1>2, <1>6, <1>7

(* The checksums of c name x and are at its end, where the flag may be lost.*)
Lone(c, x) ==
    \A p \in 1 .. Len(c) : IsHead(c[p]) => HeaderIn(c[p][2]) = x /\ p + 1 >= Len(c)

(* No frame is found in c, unless it is the one of mid.                     *)
Scrap(c, mid) == Early(c) \/ \E x \in LineHead : mid = <<x>> /\ Lone(c, x)

LEMMA ScrapPart ==
    ASSUME NEW c \in Seq(AnyByte), NEW m \in 1 .. Len(c) + 1, NEW mid, Scrap(c, mid)
    PROVE  LET d == SubSeq(c, m, Len(c)) IN d \in Seq(AnyByte) /\ Scrap(d, mid)
<1> DEFINE d == SubSeq(c, m, Len(c))
           l == Len(c)
<1>1. d \in Seq(AnyByte) /\ Len(d) = l - m + 1 /\ l \in Nat
      /\ \A j \in 1 .. l - m + 1 : d[j] = c[m + j - 1]
  BY FromIs
<1> HIDE DEF d
<1>2. ASSUME NEW p \in 1 .. Len(d)
      PROVE  /\ m + p - 1 \in 1 .. l /\ d[p] = c[m + p - 1] /\ c[m + p - 1] \in AnyByte
             /\ p \in Int
  <2>1. m + p - 1 \in 1 .. l /\ p \in Int /\ p \in 1 .. l - m + 1
    BY <1>1
  <2> QED
    BY <1>1, <2>1
<1>3. ASSUME Early(c) PROVE Early(d)
  <2> SUFFICES ASSUME NEW p \in 1 .. Len(d), IsHead(d[p]) PROVE p + 1 < Span(d[p])
    BY DEF Early
  <2> DEFINE k == m + p - 1
  <2>1. k \in 1 .. l /\ d[p] = c[k] /\ c[k] \in AnyByte
    BY <1>2
  <2>2. k + 1 < Span(c[k]) /\ Span(c[k]) \in Int
    <3> HIDE DEF k
    <3> QED
      BY <1>3, <2>1, HeadIs DEF Early
  <2> DEFINE y == Span(c[k])
  <2>3. p + 1 <= k + 1 /\ p \in Int /\ k \in Int
    BY <1>1
  <2>4. k + 1 < y /\ y \in Int
    BY <2>2
  <2> HIDE DEF y, k
  <2>5. p + 1 < y
    BY <2>3, <2>4
  <2> QED
    BY <2>1, <2>5 DEF y
<1>4. ASSUME NEW x \in LineHead, Lone(c, x) PROVE Lone(d, x)
  <2> SUFFICES ASSUME NEW p \in 1 .. Len(d), IsHead(d[p])
               PROVE  HeaderIn(d[p][2]) = x /\ p + 1 >= Len(d)
    BY DEF Lone
  <2> DEFINE k == m + p - 1
  <2>1. k \in 1 .. l /\ d[p] = c[k]
    BY <1>2
  <2>2. HeaderIn(c[k][2]) = x /\ k + 1 >= l
    <3> HIDE DEF k
    <3> QED
      BY <1>4, <2>1 DEF Lone
  <2>3. p + 1 >= Len(d)
    BY <1>1, <2>2
  <2> QED
    BY <2>1, <2>2, <2>3
<1> QED
  BY <1>1, <1>3, <1>4 DEF Scrap, d

LEMMA RemovedIs ==
    ASSUME NEW S, NEW s \in Seq(S), NEW i \in 1 .. Len(s)
    PROVE  LET r == RemoveAt(s, i) IN
           /\ r \in Seq(S) /\ Len(r) = Len(s) - 1 /\ Len(s) \in Nat
           /\ \A j \in 1 .. Len(r) : r[j] = IF j < i THEN s[j] ELSE s[j + 1]
<1> DEFINE n == Len(s)
           a == SubSeq(s, 1, i - 1)
           b == SubSeq(s, i + 1, n)
           r == RemoveAt(s, i)
<1>1. n \in Nat /\ i \in 1 .. n
  OBVIOUS
<1>2. r = a \o b
  BY DEF RemoveAt
<1>3. a \in Seq(S) /\ Len(a) = i - 1 /\ \A j \in 1 .. i - 1 : a[j] = s[j]
  OBVIOUS
<1>4. b \in Seq(S) /\ Len(b) = n - i /\ \A j \in 1 .. n - i : b[j] = s[i + j]
  BY <1>1
<1> HIDE DEF n, a, b, r
<1>5. /\ r \in Seq(S) /\ Len(r) = Len(a) + Len(b)
      /\ \A j \in 1 .. Len(a) + Len(b) : r[j] = IF j <= Len(a) THEN a[j] ELSE b[j - Len(a)]
  BY <1>2, <1>3, <1>4, ConcatProperties
<1>6. Len(r) = n - 1
  BY <1>1, <1>3, <1>4, <1>5
<1>7. ASSUME NEW j \in 1 .. Len(r) PROVE r[j] = IF j < i THEN s[j] ELSE s[j + 1]
  <2>1. CASE j < i
    <3>1. j \in 1 .. Len(a) + Len(b) /\ j <= Len(a) /\ j \in 1 .. i - 1
      BY <1>1, <1>3, <1>5, <2>1
    <3> QED
      BY <1>3, <1>5, <2>1, <3>1
  <2>2. CASE ~(j < i)
    <3> DEFINE k == j - Len(a)
    <3>1. j \in 1 .. Len(a) + Len(b) /\ ~(j <= Len(a)) /\ k \in 1 .. n - i /\ i + k = j + 1
      BY <1>1, <1>3, <1>6, <1>5, <2>2
    <3> HIDE DEF k
    <3>2. r[j] = b[k] /\ b[k] = s[i + k]
      BY <1>4, <1>5, <3>1 DEF k
    <3> QED
      BY <2>2, <3>1, <3>2
  <2> QED
    BY <2>1, <2>2
<1> QED
  BY <1>1, <1>5, <1>6, <1>7 DEF n, r

LEMMA ScrapDamaged ==
    ASSUME NEW m \in Seq(AnyByte), NEW f \in Frame, OneHead(m, f),
           Header(f.dlci, f.info) \in LineHead, NEW b \in Damaged(m)
    PROVE  b \in Seq(AnyByte) /\ Scrap(b, <<Header(f.dlci, f.info)>>)
<1> DEFINE x == Header(f.dlci, f.info)
           n == Len(m)
<1>0. n \in Nat /\ b \in Seq(AnyByte)
  BY DamagedIs
<1>1. \A p \in 1 .. n : IsHead(m[p]) => p = n - 1 /\ HeaderIn(m[p][2]) = x
  BY DEF OneHead
<1> HIDE DEF x
<1>2. ASSUME \E i \in DOMAIN m : b = RemoveAt(m, i) PROVE Lone(b, x)
  <2>1. PICK i \in 1 .. n : b = RemoveAt(m, i)
    BY <1>2
  <2>2. Len(b) = n - 1 /\ \A j \in 1 .. Len(b) : b[j] = IF j < i THEN m[j] ELSE m[j + 1]
    BY <2>1, RemovedIs
  <2> HIDE DEF n
  <2>3. ASSUME NEW p \in 1 .. Len(b), IsHead(b[p])
        PROVE  HeaderIn(b[p][2]) = x /\ p + 1 >= Len(b)
    <3>1. CASE p < i
      <4>1. p \in 1 .. n /\ b[p] = m[p]
        BY <1>0, <2>2, <3>1
      <4>2. p = n - 1 /\ HeaderIn(b[p][2]) = x
        BY <1>1, <2>3, <4>1
      <4> QED
        BY <1>0, <2>2, <4>2
    <3>2. CASE ~(p < i)
      <4> DEFINE k == p + 1
      <4>1. k \in 1 .. n /\ b[p] = m[k]
        BY <1>0, <2>2, <3>2
      <4>2. k = n - 1 /\ HeaderIn(b[p][2]) = x
        <5> HIDE DEF k
        <5> QED
          BY <1>1, <2>3, <4>1
      <4> QED
        BY <1>0, <2>2, <4>2
    <3> QED
      BY <3>1, <3>2
  <2> QED
    BY <2>3 DEF Lone
<1>3. ASSUME \E i \in DOMAIN m, v \in Noise : b = ReplaceAt(m, i, Plain(v)) PROVE Lone(b, x)
  <2>1. PICK i \in 1 .. n, v \in Noise : b = ReplaceAt(m, i, Plain(v))
    BY <1>3
  <2>2. Len(b) = n /\ \A j \in 1 .. n : b[j] = IF j = i THEN Plain(v) ELSE m[j]
    BY <2>1 DEF ReplaceAt
  <2> HIDE DEF n
  <2>3. ASSUME NEW p \in 1 .. Len(b), IsHead(b[p])
        PROVE  HeaderIn(b[p][2]) = x /\ p + 1 >= Len(b)
    <3>1. p \in 1 .. n /\ p # i
      BY <2>2, <2>3, NoHead
    <3>2. b[p] = m[p]
      BY <2>2, <3>1
    <3>3. p = n - 1 /\ HeaderIn(b[p][2]) = x
      BY <1>1, <2>3, <3>1, <3>2
    <3> QED
      BY <1>0, <2>2, <3>3
  <2> QED
    BY <2>3 DEF Lone
<1>4. Lone(b, x)
  <2>1. (\E i \in DOMAIN m : b = RemoveAt(m, i))
        \/ (\E i \in DOMAIN m, v \in Noise : b = ReplaceAt(m, i, Plain(v)))
    BY DEF Damaged
  <2> QED
    BY <1>2, <1>3, <2>1
<1> QED
  BY <1>0, <1>4 DEF Scrap, x

-----------------------------------------------------------------------------
(* The bytes under way after a fault.                                       *)

(* s is scrap and then the codes of the last of the frames H that have not  *)
(* arrived.                                                                 *)
Broken(s, H) ==
    \E c \in Seq(AnyByte), t \in Seq(AnyByte), mid \in Seq(LineHead), q \in Seq(Frame) :
        s = c \o t /\ H = mid \o HeadersOf(q) /\ Scrap(c, mid) /\ Encodes(MarkedCodes, t, q)

LEMMA HeadersType ==
    /\ \A q \in Seq(Frame) : HeadersOf(q) \in Seq(LineHead)
    /\ \A q, r \in Seq(Frame) : HeadersOf(q \o r) = HeadersOf(q) \o HeadersOf(r)
    /\ \A f \in Frame : /\ HeadersOf(<<f>>) = <<Header(f.dlci, f.info)>>
                        /\ Header(f.dlci, f.info) \in LineHead
                        /\ <<Header(f.dlci, f.info)>> \in Seq(LineHead)
    /\ HeadersOf(<<>>) = <<>>
<1>1. \A q \in Seq(Frame) : HeadersOf(q) \in Seq(LineHead)
  BY PartsType
<1>2. \A q, r \in Seq(Frame) : HeadersOf(q \o r) = HeadersOf(q) \o HeadersOf(r)
  BY PartsConcat
<1>3. ASSUME NEW f \in Frame
      PROVE  /\ HeadersOf(<<f>>) = <<Header(f.dlci, f.info)>>
             /\ Header(f.dlci, f.info) \in LineHead
             /\ <<Header(f.dlci, f.info)>> \in Seq(LineHead)
  <2>1. HeadersOf(<<f>>) = <<Header(f.dlci, f.info)>>
    BY PartsOne
  <2>2. Header(f.dlci, f.info) \in LineHead
    <3>1. f.dlci \in Int /\ Len(f.info) \in Int
      <4>1. f.dlci \in Byte /\ f.info \in Seq(AnyByte)
        BY DEF Frame
      <4>2. Len(f.info) \in Nat
        BY <4>1, LenProperties
      <4>3. f.dlci \in Nat
        BY <4>1, ByteIs
      <4> QED
        BY <4>2, <4>3
    <3> QED
      BY <3>1, LineHeadIs DEF Header
  <2> QED
    BY <2>1, <2>2
<1>4. HeadersOf(<<>>) = <<>>
  BY PartsNone
<1> QED
  BY <1>1, <1>2, <1>3, <1>4

LEMMA CutBroken ==
    ASSUME NEW s, NEW q \in Seq(Frame), CutFrom(s, q), NEW mid \in Seq(LineHead)
    PROVE  Broken(s, mid \o HeadersOf(q))
<1>1. PICK c \in Seq(AnyByte), t \in Seq(AnyByte), q1 \in Seq(Frame), q2 \in Seq(Frame) :
          s = c \o t /\ q = q1 \o q2 /\ Early(c) /\ Encodes(MarkedCodes, t, q2)
  BY DEF CutFrom
<1> DEFINE h1 == HeadersOf(q1)
           h2 == HeadersOf(q2)
           new == mid \o h1
<1>2. h1 \in Seq(LineHead) /\ h2 \in Seq(LineHead) /\ mid \in Seq(LineHead)
      /\ HeadersOf(q) = h1 \o h2
  BY <1>1, HeadersType
<1> HIDE DEF h1, h2
<1>3. new \in Seq(LineHead)
  BY <1>2, ConcatProperties
<1>4. mid \o (h1 \o h2) = new \o h2
  <2>1. (mid \o h1) \o h2 = mid \o (h1 \o h2)
    <3>1. mid \in Seq(LineHead) /\ h1 \in Seq(LineHead) /\ h2 \in Seq(LineHead)
      BY <1>2
    <3> QED
      BY ONLY <3>1, Assoc, SMTT(30)
  <2> QED
    BY <2>1
<1> HIDE DEF new
<1>5. mid \o HeadersOf(q) = new \o HeadersOf(q2)
  BY <1>2, <1>4 DEF h2
<1>6. Scrap(c, new)
  BY <1>1 DEF Scrap
<1> QED
  BY <1>1, <1>3, <1>5, <1>6 DEF Broken

(* Whatever is dropped in front.                                            *)
LEMMA BrokenPart ==
    ASSUME NEW s \in Seq(AnyByte), NEW H, Broken(s, H), NEW m \in 1 .. Len(s) + 1
    PROVE  Broken(SubSeq(s, m, Len(s)), H)
<1>1. PICK c \in Seq(AnyByte), t \in Seq(AnyByte), mid \in Seq(LineHead), q \in Seq(Frame) :
          s = c \o t /\ H = mid \o HeadersOf(q) /\ Scrap(c, mid) /\ Encodes(MarkedCodes, t, q)
  BY DEF Broken
<1> DEFINE v == SubSeq(s, m, Len(s))
           l == Len(c)
<1>2. Len(s) = l + Len(t) /\ l \in Nat /\ Len(t) \in Nat /\ m \in 1 .. l + Len(t) + 1
  <2>1. Len(c \o t) = l + Len(t) /\ l \in Nat /\ Len(t) \in Nat
    BY ConcatProperties, LenProperties
  <2>2. Len(s) = l + Len(t)
    BY <1>1, <2>1
  <2> QED
    BY <2>1, <2>2
<1>3. /\ m <= l + 1 => v = SubSeq(c, m, l) \o t
      /\ m >= l + 1 => v = SubSeq(t, m - l, Len(t))
  BY <1>1, <1>2, PartOfConcat
<1>4. CASE m <= l + 1
  <2> DEFINE d == SubSeq(c, m, l)
  <2>1. m \in 1 .. l + 1
    BY <1>2, <1>4
  <2>2. d \in Seq(AnyByte) /\ Scrap(d, mid)
    BY <1>1, <2>1, ScrapPart
  <2>3. v = d \o t
    BY <1>3, <1>4
  <2> HIDE DEF d, v
  <2>4. Broken(v, H)
    BY <1>1, <2>2, <2>3 DEF Broken
  <2> QED
    BY <2>4 DEF v
<1>5. CASE m > l + 1
  <2> DEFINE k == m - l
  <2>1. k \in 1 .. Len(t) + 1
    BY <1>2, <1>5
  <2>2. v = SubSeq(t, k, Len(t))
    BY <1>2, <1>3, <1>5
  <2> HIDE DEF k, v
  <2>3. CutFrom(v, q)
    BY <1>1, <2>1, <2>2, TextCut
  <2>4. Broken(v, H)
    BY <1>1, <2>3, CutBroken
  <2> QED
    BY <2>4 DEF v
<1> QED
  BY <1>2, <1>4, <1>5

(* Nothing is missing but what may be missing between G and the rest.       *)
Shows(s, H) == \E q \in Seq(Frame) : Encodes(FrameCodes, s, q) /\ H = HeadersOf(q)

LEMMA MarkedShow ==
    ASSUME NEW s, NEW q \in Seq(Frame), Encodes(MarkedCodes, s, q)
    PROVE  Encodes(FrameCodes, s, q) /\ Shows(s, HeadersOf(q))
<1>1. MarkedCodes \subseteq FrameCodes
  BY DEF MarkedCodes
<1>2. Encodes(FrameCodes, s, q)
  <2>1. PICK b \in Seq(Seq(AnyByte)) :
            /\ Len(b) = Len(q) /\ s = FlattenSeq(b)
            /\ \A i \in 1 .. Len(q) : <<b[i], q[i]>> \in MarkedCodes
    BY DEF Encodes
  <2>2. \A i \in 1 .. Len(q) : <<b[i], q[i]>> \in FrameCodes
    BY <1>1, <2>1
  <2> QED
    BY <2>1, <2>2 DEF Encodes
<1> QED
  BY <1>2 DEF Shows

(* A frame is found: the one that is scrap, or one behind it, and then the  *)
(* parser is in step again.                                                 *)
Found(s, H, h) ==
    \/ \E G \in Seq(LineHead) : H = h \o G /\ Broken(s, G)
    \/ \E G1 \in Seq(LineHead), G2 \in Seq(LineHead) : H = G1 \o (h \o G2) /\ Shows(s, G2)

LEMMA BrokenSound ==
    ASSUME NEW r \in Seq(AnyByte), r # <<>>, Complete(r), Sound(r),
           NEW w \in Seq(AnyByte), NEW H, Broken(r \o w, H)
    PROVE  Found(SubSeq(r \o w, FrameEnd(r) + 1, Len(r \o w)), H,
                 <<Header(FrameOf(r).dlci, FrameOf(r).info)>>)
<1> DEFINE s == r \o w
           e == FrameEnd(r)
           y == Header(FrameOf(r).dlci, FrameOf(r).info)
           h == <<y>>
           v == SubSeq(s, e + 1, Len(s))
           z == r[e - 1]
<1>1. /\ FrameOf(r) \in Frame /\ e \in 2 .. Len(r) /\ Len(r) \in Nat
      /\ IsHead(z) /\ HeaderIn(z[2]) = y /\ Span(z) \in Int /\ Span(z) <= e
  BY SoundEnds
<1>2. h \in Seq(LineHead)
  BY <1>1, HeadersType
<1> HIDE DEF e, y
<1>3. s \in Seq(AnyByte) /\ Len(s) = Len(r) + Len(w) /\ Len(w) \in Nat
      /\ \A i \in 1 .. Len(r) + Len(w) : s[i] = IF i <= Len(r) THEN r[i] ELSE w[i - Len(r)]
  BY ConcatProperties, LenProperties
<1>4. s[e - 1] = z
  <2>1. e - 1 \in 1 .. Len(r) + Len(w) /\ e - 1 <= Len(r)
    BY <1>1, <1>3
  <2> HIDE DEF s
  <2> QED
    BY <1>3, <2>1
<1>5. PICK c \in Seq(AnyByte), t \in Seq(AnyByte), mid \in Seq(LineHead), q \in Seq(Frame) :
          s = c \o t /\ H = mid \o HeadersOf(q) /\ Scrap(c, mid) /\ Encodes(MarkedCodes, t, q)
  BY DEF Broken
<1> HIDE DEF s
<1> DEFINE l == Len(c)
<1>6. /\ Len(s) = l + Len(t) /\ l \in Nat /\ Len(t) \in Nat
      /\ \A i \in 1 .. l + Len(t) : s[i] = IF i <= l THEN c[i] ELSE t[i - l]
  <2> DEFINE ct == c \o t
  <2>1. /\ Len(ct) = l + Len(t) /\ l \in Nat /\ Len(t) \in Nat
        /\ \A i \in 1 .. l + Len(t) : ct[i] = IF i <= l THEN c[i] ELSE t[i - l]
    BY ConcatProperties, LenProperties
  <2>2. s = ct
    BY <1>5
  <2> HIDE DEF ct
  <2> QED
    BY <2>1, <2>2
<1>7. e - 1 \in 1 .. l + Len(t) /\ e + 1 \in 1 .. l + Len(t) + 1 /\ e \in Nat
  BY <1>1, <1>3, <1>6
<1>8. e + 1 >= l + 1 => v = SubSeq(t, (e + 1) - l, Len(t))
  <2> DEFINE m == e + 1
  <2>1. m \in 1 .. Len(c) + Len(t) + 1
    BY <1>7
  <2> HIDE DEF m
  <2>2. m >= l + 1 => SubSeq(c \o t, m, Len(c \o t)) = SubSeq(t, m - l, Len(t))
    BY <2>1, PartOfConcat
  <2>3. m >= l + 1 => SubSeq(s, m, Len(s)) = SubSeq(t, m - l, Len(t))
    BY <1>5, <2>2
  <2> HIDE DEF l
  <2> QED
    BY <2>3 DEF m
<1>9. CASE e - 1 <= l
  <2>1. z = c[e - 1] /\ e - 1 \in 1 .. l
    <3> DEFINE k == e - 1
    <3>1. k \in 1 .. l + Len(t) /\ k \in 1 .. l /\ k <= l /\ s[k] = z
      BY <1>4, <1>6, <1>7, <1>9
    <3> HIDE DEF k, z, l
    <3>2. z = c[k]
      BY <1>6, <3>1
    <3> QED
      BY <3>1, <3>2 DEF k
  <2>2. ~Early(c)
    <3> SUFFICES ASSUME Early(c) PROVE FALSE
      OBVIOUS
    <3> DEFINE k == e - 1
               sp == Span(z)
    <3>1. k + 1 < sp
      <4> HIDE DEF k, sp
      <4>1. k \in 1 .. Len(c) /\ IsHead(c[k]) /\ c[k] = z
        BY <1>1, <2>1 DEF k
      <4>2. k + 1 < Span(c[k])
        BY <4>1 DEF Early
      <4> QED
        BY <4>1, <4>2 DEF sp
    <3>2. sp \in Int /\ sp <= e
      BY <1>1
    <3> HIDE DEF sp
    <3> QED
      BY <1>7, <3>1, <3>2
  <2>3. PICK x \in LineHead : mid = <<x>> /\ Lone(c, x)
    BY <1>5, <2>2 DEF Scrap
  <2>4. x = y /\ e >= l
    <3> DEFINE k == e - 1
    <3>1. HeaderIn(c[k][2]) = x /\ k + 1 >= l
      <4> HIDE DEF k
      <4>1. k \in 1 .. Len(c) /\ IsHead(c[k])
        BY <1>1, <2>1 DEF k
      <4> QED
        BY <2>3, <4>1 DEF Lone
    <3> QED
      BY <1>1, <1>7, <2>1, <3>1
  <2> DEFINE k == (e + 1) - l
             G == HeadersOf(q)
             none == <<>>
  <2>5. k \in 1 .. Len(t) + 1 /\ v = SubSeq(t, k, Len(t))
    BY <1>6, <1>7, <1>8, <2>4
  <2> HIDE DEF k, v
  <2>6. CutFrom(v, q)
    BY <1>5, <2>5, TextCut
  <2>7. none \in Seq(LineHead) /\ G \in Seq(LineHead) /\ none \o G = G
    <3>1. none \in Seq(LineHead) /\ G \in Seq(LineHead)
      BY HeadersType
    <3> HIDE DEF G
    <3> QED
      BY <3>1, Regroup
  <2>8. Broken(v, G)
    <3>1. Broken(v, none \o HeadersOf(q))
      BY <2>6, <2>7, CutBroken
    <3> QED
      BY <2>7, <3>1
  <2>9. H = h \o G
    BY <1>5, <2>3, <2>4
  <2> HIDE DEF G, h
  <2>10. Found(v, H, h)
    BY <2>7, <2>8, <2>9 DEF Found
  <2> QED
    BY <2>10 DEF v, h, s, e, y
<1>10. CASE e - 1 > l
  <2> DEFINE k == (e - 1) - l
  <2>1. k \in 1 .. Len(t) /\ z = t[k] /\ k + 2 = (e + 1) - l
    <3> DEFINE j == e - 1
    <3>1. /\ j \in 1 .. l + Len(t) /\ ~(j <= l) /\ s[j] = z /\ k = j - l
          /\ k \in 1 .. Len(t) /\ k + 2 = (e + 1) - l
      BY <1>4, <1>6, <1>7, <1>10
    <3> HIDE DEF j, z, l, k
    <3>2. z = t[k]
      BY <1>6, <3>1
    <3> QED
      BY <3>1, <3>2
  <2>2. v = SubSeq(t, k + 2, Len(t))
    <3>1. e + 1 >= l + 1
      BY <1>6, <1>7, <1>10
    <3> HIDE DEF v, k
    <3> QED
      BY <1>8, <2>1, <3>1
  <2> HIDE DEF k, v
  <2>3. ReadAt(t, q, k)
    BY <1>1, <1>5, <2>1, TextMark
  <2>4. PICK q1 \in Seq(Frame), f \in Frame, q2 \in Seq(Frame) :
           /\ q = q1 \o (<<f>> \o q2) /\ Header(f.dlci, f.info) = HeaderIn(t[k][2])
           /\ Encodes(MarkedCodes, SubSeq(t, k + 2, Len(t)), q2)
    BY <2>3 DEF ReadAt
  <2> DEFINE h1 == HeadersOf(q1)
             G2 == HeadersOf(q2)
             hG == h \o G2
             G1 == mid \o h1
             one == <<f>>
             oq == one \o q2
  <2>5. h1 \in Seq(LineHead) /\ G2 \in Seq(LineHead) /\ HeadersOf(one) = h
    <3>1. h1 \in Seq(LineHead) /\ G2 \in Seq(LineHead)
      BY HeadersType
    <3>2. HeadersOf(<<f>>) = <<Header(f.dlci, f.info)>>
      BY HeadersType
    <3>3. HeadersOf(<<f>>) = <<y>>
      BY <1>1, <2>1, <2>4, <3>2
    <3> QED
      BY <3>1, <3>3
  <2>6. one \in Seq(Frame) /\ oq \in Seq(Frame) /\ q = q1 \o oq
    <3>1. one \in Seq(Frame)
      BY <2>4
    <3>2. q = q1 \o oq
      BY <2>4
    <3> HIDE DEF one
    <3> QED
      BY <3>1, <3>2, ConcatProperties
  <2>7. HeadersOf(oq) = hG
    <3> HIDE DEF one
    <3> QED
      BY <2>5, <2>6, HeadersType
  <2> HIDE DEF oq, one
  <2>8. HeadersOf(q) = h1 \o hG
    BY <2>6, <2>7, HeadersType
  <2> HIDE DEF h1, G2, h
  <2>9. hG \in Seq(LineHead) /\ G1 \in Seq(LineHead) /\ mid \in Seq(LineHead) /\ h1 \in Seq(LineHead)
    BY <1>2, <2>5, ConcatProperties
  <2> HIDE DEF hG
  <2>10. H = G1 \o hG
    <3>1. (mid \o h1) \o hG = mid \o (h1 \o hG)
      <4>1. mid \in Seq(LineHead) /\ h1 \in Seq(LineHead) /\ hG \in Seq(LineHead)
        BY <2>9
      <4> QED
        BY ONLY <4>1, Assoc, SMTT(30)
    <3> QED
      BY <1>5, <2>8, <3>1
  <2> HIDE DEF G1
  <2>11. H = G1 \o (h \o G2)
    BY <2>10 DEF hG
  <2>12. Shows(v, G2)
    <3>1. Encodes(MarkedCodes, v, q2)
      BY <2>2, <2>4
    <3> QED
      BY <3>1, MarkedShow DEF G2
  <2>13. Found(v, H, h)
    BY <2>5, <2>9, <2>11, <2>12 DEF Found
  <2> QED
    BY <2>13 DEF v, h, s, e, y
<1> QED
  BY <1>7, <1>6, <1>9, <1>10

(* Before the scrap, the codes of frames sent earlier.                      *)
Torn(s, H) ==
    \E a \in Seq(AnyByte), u \in Seq(AnyByte), as \in Seq(Frame), G \in Seq(LineHead) :
        s = a \o u /\ H = HeadersOf(as) \o G /\ Encodes(FrameCodes, a, as) /\ Broken(u, G)

(* A code comes first.                                                      *)
CodeAhead(s, H) ==
    \E b \in Seq(AnyByte), t \in Seq(AnyByte), f \in Frame, G \in Seq(LineHead) :
        /\ s = b \o t /\ <<b, f>> \in FrameCodes
        /\ H = <<Header(f.dlci, f.info)>> \o G /\ Torn(t, G)

LEMMA BrokenTorn ==
    ASSUME NEW s \in Seq(AnyByte), NEW H \in Seq(LineHead), Broken(s, H)
    PROVE  Torn(s, H)
<1> DEFINE none == <<>>
<1>1. none \in Seq(AnyByte) /\ none \in Seq(Frame) /\ s = none \o s
  BY Regroup
<1>2. H = HeadersOf(none) \o H
  <2>1. none \o H = H /\ HeadersOf(none) = none
    BY HeadersType, Regroup
  <2> QED
    BY <2>1
<1>3. Encodes(FrameCodes, none, none)
  BY EncodesNone
<1> HIDE DEF none
<1> QED
  BY <1>1, <1>2, <1>3 DEF Torn

LEMMA TornSplit ==
    ASSUME NEW s \in Seq(AnyByte), NEW H \in Seq(LineHead), Torn(s, H)
    PROVE  Broken(s, H) \/ CodeAhead(s, H)
<1>1. PICK a \in Seq(AnyByte), u \in Seq(AnyByte), as \in Seq(Frame), G \in Seq(LineHead) :
          s = a \o u /\ H = HeadersOf(as) \o G /\ Encodes(FrameCodes, a, as) /\ Broken(u, G)
  BY DEF Torn
<1>2. CASE as = <<>>
  <2> DEFINE none == <<>>
  <2>1. a = none /\ HeadersOf(as) = none
    BY <1>1, <1>2, EncodesNone, HeadersType
  <2>2. none \o u = u /\ none \o G = G
    BY Regroup
  <2>3. s = u /\ H = G
    <3>1. s = none \o u /\ H = none \o G
      BY <1>1, <2>1
    <3> QED
      BY <2>2, <3>1
  <2> QED
    BY <1>1, <2>3
<1>3. CASE as # <<>>
  <2> DEFINE f == Head(as)
             z == Tail(as)
             one == <<f>>
             h == <<Header(f.dlci, f.info)>>
             hz == HeadersOf(z)
             hG == hz \o G
  <2>1. f \in Frame /\ z \in Seq(Frame) /\ as = one \o z /\ Begins(FrameCodes, a, f, z)
    BY <1>1, <1>3, EncodesFirst
  <2> HIDE DEF f, z
  <2>2. PICK b \in Seq(AnyByte), t \in Seq(AnyByte) :
            a = b \o t /\ <<b, f>> \in FrameCodes /\ Encodes(FrameCodes, t, z)
    BY <2>1 DEF Begins
  <2> DEFINE tu == t \o u
  <2>3. h \in Seq(LineHead) /\ hz \in Seq(LineHead) /\ G \in Seq(LineHead) /\ HeadersOf(as) = h \o hz
    <3>1. one \in Seq(Frame) /\ HeadersOf(one) = h /\ h \in Seq(LineHead) /\ hz \in Seq(LineHead)
      BY <2>1, HeadersType
    <3> HIDE DEF one, h
    <3> QED
      BY <2>1, <3>1, HeadersType
  <2> HIDE DEF h
  <2>4. hG \in Seq(LineHead) /\ H = h \o hG
    <3>1. h \in Seq(LineHead) /\ hz \in Seq(LineHead) /\ G \in Seq(LineHead)
      BY <2>3
    <3> HIDE DEF hz
    <3>2. (h \o hz) \o G = h \o (hz \o G)
      <4> HIDE DEF hG
      <4> QED
        BY ONLY <3>1, Regroup, SMTT(20)
    <3> QED
      BY <1>1, <2>3, <3>1, <3>2, ConcatProperties
  <2>5. tu \in Seq(AnyByte) /\ s = b \o tu
    <3>1. Associate(b, t, u)
      BY Joined
    <3> QED
      BY <1>1, <2>2, <3>1, ConcatProperties DEF Associate
  <2>6. Torn(tu, hG)
    BY <1>1, <2>1, <2>2 DEF Torn
  <2> HIDE DEF tu, hG
  <2>7. H = <<Header(f.dlci, f.info)>> \o hG
    BY <2>4 DEF h
  <2>8. CodeAhead(s, H)
    BY <2>1, <2>2, <2>4, <2>5, <2>6, <2>7 DEF CodeAhead
  <2> QED
    BY <2>8
<1> QED
  BY <1>2, <1>3

(* What is behind the frame that the parser has looked at.                  *)
TornOn(s, H, h) ==
    \/ \E G \in Seq(LineHead) : H = h \o G /\ Torn(s, G)
    \/ \E G1 \in Seq(LineHead), G2 \in Seq(LineHead) : H = G1 \o (h \o G2) /\ Shows(s, G2)

LEMMA TornStep ==
    ASSUME NEW r \in Seq(AnyByte), r # <<>>, Complete(r), NEW w \in Seq(AnyByte),
           NEW H \in Seq(LineHead), Torn(r \o w, H),
           FrameEnd(r) + 1 \in 1 .. Len(r \o w) + 1
    PROVE  LET v == SubSeq(r \o w, FrameEnd(r) + 1, Len(r \o w)) IN
           /\ ~Sound(r) => Torn(v, H)
           /\ Sound(r) => TornOn(v, H, <<Header(FrameOf(r).dlci, FrameOf(r).info)>>)
<1> DEFINE s == r \o w
           k == FrameEnd(r) + 1
           v == SubSeq(s, k, Len(s))
           h == <<Header(FrameOf(r).dlci, FrameOf(r).info)>>
<1>1. s \in Seq(AnyByte)
  BY ConcatProperties
<1>2. v \in Seq(AnyByte)
  <2>1. k \in 1 .. Len(s) + 1
    OBVIOUS
  <2> HIDE DEF s, k
  <2> QED
    BY <1>1, <2>1, FromIs
<1>3. CASE Broken(s, H)
  <2>1. ASSUME ~Sound(r) PROVE Torn(v, H)
    <3>1. Broken(v, H)
      <4>1. k \in 1 .. Len(s) + 1
        OBVIOUS
      <4> HIDE DEF s, k
      <4> QED
        BY <1>1, <1>3, <4>1, BrokenPart
    <3> HIDE DEF v
    <3> QED
      BY <1>2, <3>1, BrokenTorn
  <2>2. ASSUME Sound(r) PROVE TornOn(v, H, h)
    <3>1. Found(v, H, h)
      BY <1>3, <2>2, BrokenSound
    <3> HIDE DEF v, h
    <3> QED
      BY <1>2, <3>1, BrokenTorn DEF Found, TornOn
  <2> QED
    BY <2>1, <2>2
<1>4. CASE CodeAhead(s, H)
  <2>1. PICK b \in Seq(AnyByte), t \in Seq(AnyByte), f \in Frame, G \in Seq(LineHead) :
            /\ s = b \o t /\ <<b, f>> \in FrameCodes
            /\ H = <<Header(f.dlci, f.info)>> \o G /\ Torn(t, G)
    BY <1>4 DEF CodeAhead
  <2>2. ~(Len(r) < Len(b)) /\ Sound(r) /\ FrameOf(r) = f /\ FrameEnd(r) = Len(b)
    <3>1. r \o w = b \o t
      BY <2>1
    <3>2. /\ Len(r) < Len(b) => ~Complete(r)
          /\ Len(r) >= Len(b) => Sound(r) /\ FrameOf(r) = f /\ FrameEnd(r) = Len(b)
      BY <2>1, <3>1, CodeFirst
    <3>3. ~(Len(r) < Len(b))
      BY <3>2
    <3>4. Len(r) \in Nat /\ Len(b) \in Nat
      BY LenProperties
    <3>5. Len(r) >= Len(b)
      BY <3>3, <3>4
    <3> QED
      BY <3>2, <3>3, <3>5
  <2>3. v = t
    <3> DEFINE n == Len(b)
    <3>1. n \in Nat /\ k = n + 1 /\ n + 1 \in 1 .. n + Len(t) + 1 /\ (n + 1) - n = 1
      <4>1. n \in Nat /\ Len(t) \in Nat
        BY LenProperties
      <4> HIDE DEF n
      <4>2. n + 1 \in 1 .. n + Len(t) + 1 /\ (n + 1) - n = 1
        BY <4>1
      <4> QED
        BY <2>2, <4>1, <4>2 DEF n
    <3> HIDE DEF k, s
    <3>2. SubSeq(b \o t, k, Len(b \o t)) = SubSeq(t, 1, Len(t))
      <4> HIDE DEF n
      <4>1. k \in 1 .. Len(b) + Len(t) + 1 /\ k >= Len(b) + 1 /\ k - Len(b) = 1
        BY <3>1 DEF n
      <4> QED
        BY <4>1, PartOfConcat
    <3> QED
      BY <2>1, <3>2, SubSeqFull
  <2>4. H = h \o G
    BY <2>1, <2>2
  <2> HIDE DEF h, v
  <2>5. TornOn(v, H, h)
    BY <2>1, <2>3, <2>4 DEF TornOn
  <2> QED
    BY <2>2, <2>5 DEF h, v, s
<1>5. Broken(s, H) \/ CodeAhead(s, H)
  BY <1>1, TornSplit
<1> QED
  BY <1>3, <1>4, <1>5

-----------------------------------------------------------------------------
(* FrameParser after a fault.                                               *)

(* F and H differ by what is missing in F, all in one place, up to G.       *)
Skips(F, H, G) ==
    \E F1 \in Seq(LineHead), F2 \in Seq(LineHead), mid \in Seq(LineHead) :
        F = F1 \o F2 /\ H = F1 \o (mid \o (F2 \o G))

(* res is what the parser makes of the beginning of what holds H.           *)
TornDone(res, w, H) ==
    /\ res.frames \in Seq(Frame) /\ res.buffer \in Seq(AnyByte)
    /\ \/ \E G \in Seq(LineHead) : H = HeadersOf(res.frames) \o G /\ Torn(res.buffer \o w, G)
       \/ \E G \in Seq(LineHead) : Skips(HeadersOf(res.frames), H, G) /\ Shows(res.buffer \o w, G)

LEMMA TornRest ==
    ASSUME NEW r \in Seq(AnyByte), NEW w, NEW H \in Seq(LineHead), Torn(r \o w, H)
    PROVE  TornDone([buffer |-> r, frames |-> <<>>], w, H)
<1> DEFINE none == <<>>
           res == [buffer |-> r, frames |-> none]
<1>1. HeadersOf(none) = none /\ none \o H = H /\ none \in Seq(Frame)
  BY HeadersType, Regroup
<1>2. res.frames = none /\ res.buffer = r
  OBVIOUS
<1> HIDE DEF none, res
<1>3. TornDone(res, w, H)
  BY <1>1, <1>2 DEF TornDone
<1> QED
  BY <1>3 DEF res, none

LEMMA HeadsJoined ==
    ASSUME NEW a \in Seq(LineHead), NEW b \in Seq(LineHead), NEW c \in Seq(LineHead)
    PROVE  /\ Associate(a, b, c)
           /\ a \o b \in Seq(LineHead) /\ <<>> \o a = a
<1>1. (a \o b) \o c = a \o (b \o c) /\ a \o b \in Seq(LineHead) /\ <<>> \o a = a
  BY ONLY a \in Seq(LineHead), b \in Seq(LineHead), c \in Seq(LineHead), Regroup, SMTT(20)
<1> QED
  BY <1>1 DEF Associate

(* A frame that is accepted, in front of what the parser makes of the rest. *)
LEMMA Prepended ==
    ASSUME NEW res, res.frames \in Seq(Frame), NEW f \in Frame
    PROVE  LET h == <<Header(f.dlci, f.info)>>
               new == [buffer |-> res.buffer, frames |-> <<f>> \o res.frames]
           IN  /\ new.frames \in Seq(Frame) /\ new.buffer = res.buffer
               /\ HeadersOf(new.frames) = h \o HeadersOf(res.frames)
               /\ h \in Seq(LineHead) /\ HeadersOf(res.frames) \in Seq(LineHead)
<1> DEFINE h == <<Header(f.dlci, f.info)>>
           rf == res.frames
           one == <<f>>
           of == one \o rf
<1>1. one \in Seq(Frame) /\ HeadersOf(one) = h /\ h \in Seq(LineHead)
  BY HeadersType
<1>2. rf \in Seq(Frame)
  OBVIOUS
<1> HIDE DEF one, rf, h
<1>3. of \in Seq(Frame) /\ HeadersOf(of) = h \o HeadersOf(rf) /\ HeadersOf(rf) \in Seq(LineHead)
  <2>1. of \in Seq(Frame)
    BY <1>1, <1>2, ConcatProperties
  <2>2. HeadersOf(one \o rf) = HeadersOf(one) \o HeadersOf(rf) /\ HeadersOf(rf) \in Seq(LineHead)
    BY <1>1, <1>2, HeadersType
  <2> QED
    BY <1>1, <2>1, <2>2
<1> QED
  BY <1>1, <1>3 DEF of, one, rf, h

LEMMA TornMore ==
    ASSUME NEW res, NEW w, NEW G \in Seq(LineHead), TornDone(res, w, G), NEW f \in Frame,
           NEW H, H = <<Header(f.dlci, f.info)>> \o G
    PROVE  TornDone([buffer |-> res.buffer, frames |-> <<f>> \o res.frames], w, H)
<1> DEFINE h == <<Header(f.dlci, f.info)>>
           new == [buffer |-> res.buffer, frames |-> <<f>> \o res.frames]
           k == HeadersOf(res.frames)
           hk == h \o k
<1>1. res.frames \in Seq(Frame) /\ res.buffer \in Seq(AnyByte)
  BY DEF TornDone
<1>2. /\ new.frames \in Seq(Frame) /\ new.buffer = res.buffer /\ HeadersOf(new.frames) = hk
      /\ h \in Seq(LineHead) /\ k \in Seq(LineHead)
  BY <1>1, Prepended
<1>3. H = h \o G
  OBVIOUS
<1> HIDE DEF h, new
<1>4. CASE \E L \in Seq(LineHead) : G = k \o L /\ Torn(res.buffer \o w, L)
  <2>1. PICK L \in Seq(LineHead) : G = k \o L /\ Torn(res.buffer \o w, L)
    BY <1>4
  <2>2. H = hk \o L
    <3>1. Associate(h, k, L)
      BY <1>2, <2>1, HeadsJoined
    <3> QED
      BY <1>3, <2>1, <3>1 DEF Associate
  <2> HIDE DEF hk
  <2>3. H = HeadersOf(new.frames) \o L /\ Torn(new.buffer \o w, L)
    BY <1>2, <2>1, <2>2
  <2>4. new.frames \in Seq(Frame) /\ new.buffer \in Seq(AnyByte)
    BY <1>1, <1>2
  <2>5. TornDone(new, w, H)
    BY <2>3, <2>4 DEF TornDone
  <2> QED
    BY <2>5 DEF new
<1>5. CASE \E L \in Seq(LineHead) : Skips(k, G, L) /\ Shows(res.buffer \o w, L)
  <2>1. PICK L \in Seq(LineHead) : Skips(k, G, L) /\ Shows(res.buffer \o w, L)
    BY <1>5
  <2>2. PICK F1 \in Seq(LineHead), F2 \in Seq(LineHead), mid \in Seq(LineHead) :
            k = F1 \o F2 /\ G = F1 \o (mid \o (F2 \o L))
    BY <2>1 DEF Skips
  <2> HIDE DEF k
  <2> DEFINE hF == h \o F1
             FL == F2 \o L
             mL == mid \o FL
  <2>3. hF \in Seq(LineHead) /\ FL \in Seq(LineHead) /\ hk = hF \o F2
    <3>1. Associate(h, F1, F2) /\ h \o F1 \in Seq(LineHead) /\ F2 \o L \in Seq(LineHead)
      BY <1>2, <2>1, <2>2, HeadsJoined
    <3> QED
      BY <2>2, <3>1 DEF Associate
  <2> HIDE DEF FL
  <2>4. mL \in Seq(LineHead)
    BY <2>2, <2>3, HeadsJoined
  <2> HIDE DEF mL
  <2>5. H = hF \o mL
    <3>1. Associate(h, F1, mL)
      BY <1>2, <2>2, <2>4, HeadsJoined
    <3>2. G = F1 \o mL
      BY <2>2 DEF mL, FL
    <3> QED
      BY <1>3, <3>1, <3>2 DEF Associate
  <2> HIDE DEF hk, hF
  <2>6. Skips(hk, H, L)
    BY <2>2, <2>3, <2>5 DEF Skips, mL, FL
  <2>7. Skips(HeadersOf(new.frames), H, L) /\ Shows(new.buffer \o w, L)
    BY <1>2, <2>1, <2>6
  <2>8. new.frames \in Seq(Frame) /\ new.buffer \in Seq(AnyByte)
    BY <1>1, <1>2
  <2>9. TornDone(new, w, H)
    BY <2>1, <2>7, <2>8 DEF TornDone
  <2> QED
    BY <2>9 DEF new
<1>6. TornDone(res, w, G)
  OBVIOUS
<1> QED
  BY <1>4, <1>5, <1>6 DEF TornDone

(* In step again, the parser finds all of the rest.                         *)
LEMMA CleanAfter ==
    ASSUME NEW res, NEW w, NEW fs \in Seq(Frame), Cleaned(res, w, fs), NEW f \in Frame,
           NEW G1 \in Seq(LineHead), NEW H,
           H = G1 \o (<<Header(f.dlci, f.info)>> \o HeadersOf(fs))
    PROVE  TornDone([buffer |-> res.buffer, frames |-> <<f>> \o res.frames], w, H)
<1> DEFINE h == <<Header(f.dlci, f.info)>>
           new == [buffer |-> res.buffer, frames |-> <<f>> \o res.frames]
           k == HeadersOf(res.frames)
           hk == h \o k
           none == <<>>
<1>1. res.frames \in Seq(Frame) /\ res.buffer \in Seq(AnyByte)
  BY DEF Cleaned
<1>2. /\ new.frames \in Seq(Frame) /\ new.buffer = res.buffer /\ HeadersOf(new.frames) = hk
      /\ h \in Seq(LineHead) /\ k \in Seq(LineHead)
  BY <1>1, Prepended
<1>3. H = G1 \o (h \o HeadersOf(fs))
  OBVIOUS
<1> HIDE DEF h, new
<1>4. PICK gs \in Seq(Frame) : fs = res.frames \o gs /\ Encodes(FrameCodes, res.buffer \o w, gs)
  BY DEF Cleaned
<1> DEFINE L == HeadersOf(gs)
           kL == hk \o L
           gkL == G1 \o kL
<1>5. L \in Seq(LineHead) /\ HeadersOf(fs) = k \o L
  BY <1>1, <1>4, HeadersType
<1>6. Shows(res.buffer \o w, L)
  BY <1>4 DEF Shows
<1> HIDE DEF L, k
<1>7. hk \in Seq(LineHead) /\ kL \in Seq(LineHead) /\ kL = h \o (k \o L)
  <2>1. Associate(h, k, L) /\ hk \in Seq(LineHead)
    BY <1>2, <1>5, HeadsJoined
  <2> HIDE DEF hk
  <2>2. kL \in Seq(LineHead)
    BY <1>5, <2>1, HeadsJoined
  <2> QED
    BY <2>1, <2>2 DEF Associate, hk
<1> HIDE DEF kL, hk
<1>8. gkL \in Seq(LineHead) /\ H = gkL
  BY <1>3, <1>5, <1>7, HeadsJoined
<1> HIDE DEF gkL
<1>9. none \o hk = hk /\ none \o gkL = gkL /\ none \in Seq(LineHead)
  BY <1>7, <1>8, HeadsJoined
<1>10. H = none \o (G1 \o (hk \o L))
  BY <1>8, <1>9 DEF gkL, kL
<1> HIDE DEF none
<1>11. Skips(hk, H, L)
  BY <1>7, <1>9, <1>10 DEF Skips
<1>12. Skips(HeadersOf(new.frames), H, L) /\ Shows(new.buffer \o w, L)
  BY <1>2, <1>6, <1>11
<1>13. new.frames \in Seq(Frame) /\ new.buffer \in Seq(AnyByte)
  BY <1>1, <1>2
<1>14. TornDone(new, w, H)
  BY <1>5, <1>12, <1>13 DEF TornDone
<1> QED
  BY <1>14 DEF new

(* What is left of two sequences in a row when the first is cut again.      *)
LEMMA CutAgain ==
    ASSUME NEW S, NEW x \in Seq(S), NEW w \in Seq(S), NEW a \in 1 .. Len(x) + 1,
           NEW m \in a .. Len(x) + 1
    PROVE  LET v == SubSeq(x, a, Len(x)) \o w
               k == m - a + 1
           IN  k \in 1 .. Len(v) + 1 /\ SubSeq(v, k, Len(v)) = SubSeq(x, m, Len(x)) \o w
<1> DEFINE l == Len(x)
           p == SubSeq(x, a, m - 1)
           z == SubSeq(x, m, l)
           r == SubSeq(x, a, l)
           zw == z \o w
           v == r \o w
           k == m - a + 1
<1>0. l \in Nat /\ a \in 1 .. l + 1 /\ m \in a .. l + 1 /\ m \in 1 .. l + 1
  <2>1. Len(x) \in Nat
    OBVIOUS
  <2> QED
    BY <2>1
<1>1. p \in Seq(S) /\ z \in Seq(S) /\ r = p \o z /\ r \in Seq(S)
  BY Tails
<1>2. Len(p) = m - a
  <2> DEFINE b == m - 1
  <2>1. a \in Int /\ b \in Int /\ (\A j \in a .. b : x[j] \in S) /\ m - a = IF a <= b THEN b - a + 1 ELSE 0
    BY <1>0
  <2> HIDE DEF b
  <2>2. Len(SubSeq(x, a, b)) = IF a <= b THEN b - a + 1 ELSE 0
    BY <2>1, SubSeqProperties
  <2> QED
    BY <2>1, <2>2 DEF b
<1> HIDE DEF p, z, r
<1>3. zw \in Seq(S) /\ v \in Seq(S)
  BY <1>1, ConcatProperties
<1>4. v = p \o zw
  <2>1. p \in Seq(S) /\ z \in Seq(S) /\ w \in Seq(S)
    BY <1>1
  <2>2. (p \o z) \o w = p \o (z \o w)
    BY ONLY <2>1, Assoc, SMTT(30)
  <2> QED
    BY <1>1, <2>2
<1> HIDE DEF v, zw
<1>5. 1 + Len(p) = k
  BY <1>0, <1>2
<1> HIDE DEF k
<1>6. SubSeq(v, k, Len(v)) = zw
  <2>1. Len(p) \in Nat /\ Len(zw) \in Nat
    BY <1>1, <1>3
  <2>2. k \in 1 .. Len(p) + Len(zw) + 1 /\ k >= Len(p) + 1 /\ k - Len(p) = 1
    BY <1>5, <2>1
  <2>3. SubSeq(p \o zw, k, Len(p \o zw)) = SubSeq(zw, k - Len(p), Len(zw))
    BY <1>1, <1>3, <2>2, PartOfConcat
  <2>4. SubSeq(zw, 1, Len(zw)) = zw
    BY <1>3, SubSeqFull
  <2> QED
    BY <1>4, <2>2, <2>3, <2>4
<1>7. k \in 1 .. Len(v) + 1 /\ SubSeq(v, k, Len(v)) = zw
  <2>1. Len(v) = Len(p) + Len(zw) /\ Len(p) \in Nat /\ Len(zw) \in Nat
    BY <1>1, <1>3, <1>4, ConcatProperties, LenProperties
  <2>2. k \in 1 .. Len(v) + 1
    BY <1>5, <2>1
  <2> QED
    BY <1>6, <2>2
<1> QED
  BY <1>7 DEF v, zw, k, r, z, l

(* Up to its first flag, the parser drops nothing but scrap.                *)
LEMMA TornDrop ==
    ASSUME NEW x \in Seq(AnyByte), NEW w \in Seq(AnyByte), NEW i \in 1 .. Len(x) + 1,
           NEW H \in Seq(LineHead), Torn(SubSeq(x, i, Len(x)) \o w, H), FlagsFrom(x, i) # {}
    PROVE  Torn(RestFrom(x, i) \o w, H)
<1> DEFINE l == Len(x)
           r == SubSeq(x, i, l)
           s == r \o w
           a == Min(FlagsFrom(x, i))
           y == RestFrom(x, i)
           k == a - i + 1
<1>1. a \in i .. l /\ IsFlag(x[a]) /\ y \in Seq(AnyByte) /\ y = SubSeq(x, a, l) /\ l \in Nat
  BY RestIs DEF RestFrom
<1> HIDE DEF a, y
<1>2. r \in Seq(AnyByte) /\ Len(r) = l - i + 1 /\ \A j \in 1 .. l - i + 1 : r[j] = x[i + j - 1]
  BY FromIs
<1>3. k \in 1 .. Len(s) + 1 /\ SubSeq(s, k, Len(s)) = y \o w
  <2>1. a \in i .. Len(x) + 1
    BY <1>1
  <2>2. /\ a - i + 1 \in 1 .. Len(SubSeq(x, i, Len(x)) \o w) + 1
        /\ SubSeq(SubSeq(x, i, Len(x)) \o w, a - i + 1, Len(SubSeq(x, i, Len(x)) \o w))
               = SubSeq(x, a, Len(x)) \o w
    BY <2>1, CutAgain
  <2> QED
    BY <1>1, <2>2
<1> HIDE DEF r
<1>4. s \in Seq(AnyByte) /\ Torn(s, H)
  BY <1>2, ConcatProperties DEF r
<1>5. CASE Broken(s, H)
  <2>1. Broken(y \o w, H)
    <3> HIDE DEF s, k
    <3>1. Broken(SubSeq(s, k, Len(s)), H)
      BY <1>3, <1>4, <1>5, BrokenPart
    <3> QED
      BY <1>3, <3>1
  <2>2. y \o w \in Seq(AnyByte)
    BY <1>1, ConcatProperties
  <2> QED
    BY <2>1, <2>2, BrokenTorn DEF y
<1>6. CASE CodeAhead(s, H)
  <2>1. PICK b \in Seq(AnyByte), t \in Seq(AnyByte), f \in Frame, G \in Seq(LineHead) :
            s = b \o t /\ <<b, f>> \in FrameCodes
    BY <1>6 DEF CodeAhead
  <2>2. r # <<>>
    <3>1. Len(r) # 0
      BY <1>1, <1>2
    <3> QED
      BY <3>1
  <2>3. IsFlag(r[1])
    <3>1. r \o w = b \o t
      BY <2>1
    <3> QED
      BY <1>2, <2>1, <2>2, <3>1, CodeFirst
  <2>4. a = i
    <3>1. 1 \in 1 .. l - i + 1 /\ i + 1 - 1 = i /\ i \in i .. l
      BY <1>1
    <3>2. x[i] = r[1]
      <4> DEFINE j == 1
      <4>1. r[j] = x[i + j - 1]
        BY <1>2, <3>1
      <4>2. i + j - 1 = i
        BY <3>1
      <4> QED
        BY <4>1, <4>2
    <3>3. i \in FlagsFrom(x, i)
      BY <2>3, <3>1, <3>2 DEF FlagsFrom
    <3>4. a <= i
      <4>1. FlagsFrom(x, i) \in SUBSET Nat
        BY <1>1 DEF FlagsFrom
      <4>2. Min(FlagsFrom(x, i)) <= i
        BY <3>3, <4>1, MinIs
      <4> QED
        BY <4>2 DEF a
    <3> QED
      BY <1>1, <3>4
  <2>5. y = r
    BY <1>1, <2>4 DEF r
  <2>6. Torn(y \o w, H)
    BY <1>4, <2>5
  <2> QED
    BY <2>6 DEF y
<1>7. Broken(s, H) \/ CodeAhead(s, H)
  BY <1>4, TornSplit
<1> QED
  BY <1>5, <1>6, <1>7

(* However the bytes after a fault arrive.                                  *)
LEMMA ParseTorn ==
    ASSUME NEW x \in Seq(AnyByte), NEW w \in Seq(AnyByte), NEW H \in Seq(LineHead),
           Torn(x \o w, H)
    PROVE  TornDone(Parse(x), w, H)
<1> DEFINE l == Len(x)
           n == l + 1
           from(i) == SubSeq(x, i, l)
<1>1. PICK f : (\A i \in 1 .. n : f[i] = ParseFrom(x, f, i)) /\ Parse(x) = f[1]
  BY ParseIs
<1> DEFINE P == {i \in 1 .. n : \A G \in Seq(LineHead) :
                     Torn(from(i) \o w, G) => TornDone(f[i], w, G)}
<1>0. l \in Nat /\ n \in Nat /\ n = l + 1 /\ l = Len(x)
  OBVIOUS
<1>2. ASSUME NEW i \in 1 .. n, i + 1 .. n \subseteq P PROVE i \in P
  <2> SUFFICES ASSUME NEW G \in Seq(LineHead), Torn(from(i) \o w, G)
               PROVE  TornDone(f[i], w, G)
    OBVIOUS
  <2>0. i \in 1 .. Len(x) + 1 /\ from(i) \in Seq(AnyByte)
    <3>1. i \in 1 .. Len(x) + 1
      OBVIOUS
    <3> QED
      BY <3>1, FromIs
  <2>1. CASE FlagsFrom(x, i) = {}
    <3> DEFINE r == from(i)
    <3>1. f[i] = [buffer |-> r, frames |-> <<>>]
      BY <1>1, <2>1 DEF ParseFrom
    <3>2. r \in Seq(AnyByte) /\ Torn(r \o w, G)
      BY <2>0
    <3> HIDE DEF r
    <3> QED
      BY <3>1, <3>2, TornRest
  <2>2. CASE FlagsFrom(x, i) # {}
    <3> DEFINE y == RestFrom(x, i)
               a == Min(FlagsFrom(x, i))
               m == NextFrom(x, i)
               z == from(m)
               zw == z \o w
               h == <<Header(FrameOf(y).dlci, FrameOf(y).info)>>
    <3>1. Torn(y \o w, G)
      BY <2>0, <2>2, TornDrop
    <3>2. /\ a \in i .. l /\ y \in Seq(AnyByte) /\ y # <<>> /\ y = SubSeq(x, a, l)
          /\ Complete(y) => m \in i + 1 .. n /\ m \in a .. n
      BY <2>0, <2>2, RestIs DEF RestFrom
    <3>3. m = a + FrameEnd(y)
      BY DEF NextFrom
    <3>4. /\ ~Complete(y) => f[i] = [buffer |-> y, frames |-> <<>>]
          /\ Complete(y) /\ ~Sound(y) => f[i] = f[m]
          /\ Complete(y) /\ Sound(y) =>
                 f[i] = [buffer |-> f[m].buffer, frames |-> <<FrameOf(y)>> \o f[m].frames]
      BY <1>1, <2>2 DEF ParseFrom
    <3> HIDE DEF y, a, m
    <3>5. CASE ~Complete(y)
      BY <3>1, <3>2, <3>4, <3>5, TornRest
    <3>6. CASE Complete(y)
      <4> DEFINE k == FrameEnd(y) + 1
                 s == y \o w
      <4>1. k = m - a + 1
        <5> DEFINE e == FrameEnd(y)
        <5>1. m = a + e /\ e \in Int /\ a \in Int
          <6>1. FrameEnd(y) \in Int
            <7>1. FrameEnd(y) \in 1 .. Len(y)
              BY <3>2, <3>6, FrameShape
            <7> QED
              BY <7>1
          <6>2. a \in Int
            BY <1>0, <3>2
          <6> QED
            BY <3>3, <6>1, <6>2
        <5> HIDE DEF e
        <5>2. e + 1 = m - a + 1
          BY <5>1
        <5> QED
          BY <5>2 DEF e
      <4>2. k \in 1 .. Len(s) + 1 /\ SubSeq(s, k, Len(s)) = zw
        <5>1. a \in 1 .. Len(x) + 1 /\ m \in a .. Len(x) + 1
          BY <1>0, <3>2, <3>6
        <5>2. LET v == SubSeq(x, a, Len(x)) \o w
                  j == m - a + 1
              IN  j \in 1 .. Len(v) + 1 /\ SubSeq(v, j, Len(v)) = SubSeq(x, m, Len(x)) \o w
          BY <5>1, CutAgain
        <5> QED
          BY <3>2, <4>1, <5>2
      <4>3. /\ ~Sound(y) => Torn(zw, G)
            /\ Sound(y) => TornOn(zw, G, h)
        <5>1. LET v == SubSeq(y \o w, FrameEnd(y) + 1, Len(y \o w)) IN
                 /\ ~Sound(y) => Torn(v, G)
                 /\ Sound(y) => TornOn(v, G, <<Header(FrameOf(y).dlci, FrameOf(y).info)>>)
          BY <3>1, <3>2, <3>6, <4>2, TornStep
        <5> QED
          BY <4>2, <5>1
      <4>4. \A L \in Seq(LineHead) : Torn(zw, L) => TornDone(f[m], w, L)
        <5>1. m \in P
          BY <1>2, <3>2, <3>6
        <5> QED
          BY <5>1
      <4> HIDE DEF P, k, s, h
      <4>5. CASE ~Sound(y)
        BY <3>4, <3>6, <4>3, <4>4, <4>5
      <4>6. CASE Sound(y)
        <5> DEFINE res == f[m]
                   new == [buffer |-> res.buffer, frames |-> <<FrameOf(y)>> \o res.frames]
        <5>1. f[i] = new /\ FrameOf(y) \in Frame
          BY <3>2, <3>4, <3>6, <4>6, FrameShape
        <5>2. CASE \E L \in Seq(LineHead) : G = h \o L /\ Torn(zw, L)
          <6>1. PICK L \in Seq(LineHead) : G = h \o L /\ Torn(zw, L)
            BY <5>2
          <6>2. TornDone(res, w, L)
            BY <4>4, <6>1
          <6>3. G = <<Header(FrameOf(y).dlci, FrameOf(y).info)>> \o L
            BY <6>1 DEF h
          <6> HIDE DEF res, zw
          <6>4. TornDone(new, w, G)
            BY <5>1, <6>1, <6>2, <6>3, TornMore
          <6> HIDE DEF new
          <6> QED
            BY <5>1, <6>4
        <5>3. CASE \E G1 \in Seq(LineHead), G2 \in Seq(LineHead) :
                       G = G1 \o (h \o G2) /\ Shows(zw, G2)
          <6>1. PICK G1 \in Seq(LineHead), G2 \in Seq(LineHead) :
                       G = G1 \o (h \o G2) /\ Shows(zw, G2)
            BY <5>3
          <6>2. PICK fs \in Seq(Frame) : Encodes(FrameCodes, zw, fs) /\ G2 = HeadersOf(fs)
            BY <6>1 DEF Shows
          <6>3. Cleaned(res, w, fs)
            <7>1. m \in 1 .. Len(x) + 1
              BY <1>0, <3>2, <3>6
            <7>2. \A j \in 1 .. Len(x) + 1 : f[j] = ParseFrom(x, f, j)
              BY <1>1
            <7>3. Encodes(FrameCodes, SubSeq(x, m, Len(x)) \o w, fs)
              BY <6>2
            <7> QED
              BY <7>1, <7>2, <7>3, ParseCleanAt
          <6>4. G = G1 \o (<<Header(FrameOf(y).dlci, FrameOf(y).info)>> \o HeadersOf(fs))
            BY <6>1, <6>2 DEF h
          <6> HIDE DEF res, zw
          <6>5. TornDone(new, w, G)
            BY <5>1, <6>3, <6>4, CleanAfter
          <6> HIDE DEF new
          <6> QED
            BY <5>1, <6>5
        <5>4. TornOn(zw, G, h)
          BY <4>3, <4>6
        <5> HIDE DEF res, new, zw
        <5> QED
          BY <5>2, <5>3, <5>4 DEF TornOn
      <4> QED
        BY <4>5, <4>6
    <3> QED
      BY <3>5, <3>6
  <2> QED
    BY <2>1, <2>2
<1>3. 1 .. n \subseteq P
  <2> HIDE DEF P, n
  <2> QED
    BY <1>0, <1>2, Downward
<1>4. 1 \in P /\ from(1) = x
  <2>1. 1 \in 1 .. n
    BY <1>0
  <2>2. from(1) = x
    OBVIOUS
  <2> QED
    BY <1>3, <2>1, <2>2
<1>5. Torn(from(1) \o w, H)
  BY <1>4
<1>6. TornDone(f[1], w, H)
  <2> HIDE DEF from
  <2> QED
    BY <1>4, <1>5
<1> QED
  BY <1>1, <1>6

-----------------------------------------------------------------------------
(* More is written behind.                                                  *)

LEMMA ShowsMore ==
    ASSUME NEW s \in Seq(AnyByte), NEW G \in Seq(LineHead), Shows(s, G),
           NEW m \in Seq(AnyByte), NEW f \in Frame, <<m, f>> \in MarkedCodes
    PROVE  Shows(s \o m, G \o <<Header(f.dlci, f.info)>>)
<1> DEFINE h == <<Header(f.dlci, f.info)>>
           one == <<f>>
<1>1. PICK q \in Seq(Frame) : Encodes(FrameCodes, s, q) /\ G = HeadersOf(q)
  BY DEF Shows
<1>2. one \in Seq(Frame) /\ HeadersOf(one) = h /\ Encodes(FrameCodes, m, one)
  <2>1. <<m, f>> \in FrameCodes
    BY DEF MarkedCodes
  <2> QED
    BY <2>1, HeadersType, EncodesOne
<1> HIDE DEF one, h
<1> DEFINE r == q \o one
<1>3. r \in Seq(Frame) /\ Encodes(FrameCodes, s \o m, r)
  BY <1>1, <1>2, EncodesConcat, ConcatProperties
<1>4. HeadersOf(r) = G \o h
  <2>1. HeadersOf(q \o one) = HeadersOf(q) \o HeadersOf(one)
    BY <1>1, <1>2, HeadersType
  <2> QED
    BY <1>1, <1>2, <2>1
<1> HIDE DEF r
<1>5. Shows(s \o m, G \o h)
  BY <1>3, <1>4 DEF Shows
<1> QED
  BY <1>5 DEF h

LEMMA BrokenMore ==
    ASSUME NEW s \in Seq(AnyByte), NEW G \in Seq(LineHead), Broken(s, G),
           NEW m \in Seq(AnyByte), NEW f \in Frame, <<m, f>> \in MarkedCodes
    PROVE  Broken(s \o m, G \o <<Header(f.dlci, f.info)>>)
<1> DEFINE h == <<Header(f.dlci, f.info)>>
           one == <<f>>
<1>1. PICK c \in Seq(AnyByte), t \in Seq(AnyByte), mid \in Seq(LineHead), q \in Seq(Frame) :
          s = c \o t /\ G = mid \o HeadersOf(q) /\ Scrap(c, mid) /\ Encodes(MarkedCodes, t, q)
  BY DEF Broken
<1>2. one \in Seq(Frame) /\ HeadersOf(one) = h /\ Encodes(MarkedCodes, m, one) /\ h \in Seq(LineHead)
  BY HeadersType, EncodesOne
<1> HIDE DEF one, h
<1> DEFINE r == q \o one
           k == HeadersOf(q)
           tm == t \o m
<1>3. r \in Seq(Frame) /\ Encodes(MarkedCodes, tm, r) /\ k \in Seq(LineHead)
  BY <1>1, <1>2, EncodesConcat, ConcatProperties, HeadersType
<1>4. HeadersOf(r) = k \o h
  <2>1. HeadersOf(q \o one) = HeadersOf(q) \o HeadersOf(one)
    BY <1>1, <1>2, HeadersType
  <2> QED
    BY <1>2, <2>1
<1> HIDE DEF r
<1>5. G \o h = mid \o HeadersOf(r)
  <2> HIDE DEF k
  <2>1. Associate(mid, k, h)
    BY <1>1, <1>2, <1>3, HeadsJoined
  <2>2. G = mid \o k
    BY <1>1 DEF k
  <2> QED
    BY <1>4, <2>1, <2>2 DEF Associate
<1>6. tm \in Seq(AnyByte) /\ s \o m = c \o tm
  <2>1. Associate(c, t, m)
    BY Joined
  <2> QED
    BY <1>1, <2>1, ConcatProperties DEF Associate
<1> HIDE DEF tm
<1>7. Broken(s \o m, G \o h)
  BY <1>1, <1>3, <1>5, <1>6 DEF Broken
<1> QED
  BY <1>7 DEF h

LEMMA BrokenType ==
    ASSUME NEW s, NEW G, Broken(s, G)
    PROVE  s \in Seq(AnyByte) /\ G \in Seq(LineHead)
<1>1. PICK c \in Seq(AnyByte), t \in Seq(AnyByte), mid \in Seq(LineHead), q \in Seq(Frame) :
          s = c \o t /\ G = mid \o HeadersOf(q)
  BY DEF Broken
<1> DEFINE k == HeadersOf(q)
<1>2. k \in Seq(LineHead)
  BY HeadersType
<1> HIDE DEF k
<1>3. c \o t \in Seq(AnyByte) /\ mid \o k \in Seq(LineHead)
  BY <1>2, ConcatProperties
<1> QED
  BY <1>1, <1>3 DEF k

(* s1 are codes, and something broken, of G1 and G2, follows.               *)
LEMMA TornBehind ==
    ASSUME NEW s \in Seq(AnyByte), NEW G \in Seq(LineHead), Shows(s, G),
           NEW u, NEW L, Broken(u, L)
    PROVE  Torn(s \o u, G \o L)
<1>1. PICK q \in Seq(Frame) : Encodes(FrameCodes, s, q) /\ G = HeadersOf(q)
  BY DEF Shows
<1>2. u \in Seq(AnyByte) /\ L \in Seq(LineHead)
  BY BrokenType
<1> QED
  BY <1>1, <1>2 DEF Torn

TornIn(s, G) ==
    \E a \in Seq(AnyByte), u \in Seq(AnyByte), A \in Seq(LineHead), L \in Seq(LineHead) :
        s = a \o u /\ G = A \o L /\ Shows(a, A) /\ Broken(u, L)

LEMMA TornIs ==
    ASSUME NEW s, NEW G, Torn(s, G)
    PROVE  TornIn(s, G)
<1>1. PICK a \in Seq(AnyByte), u \in Seq(AnyByte), as \in Seq(Frame), L \in Seq(LineHead) :
          s = a \o u /\ G = HeadersOf(as) \o L /\ Encodes(FrameCodes, a, as) /\ Broken(u, L)
  BY DEF Torn
<1> DEFINE A == HeadersOf(as)
<1>2. A \in Seq(LineHead) /\ Shows(a, A)
  BY <1>1, HeadersType DEF Shows
<1>3. G = A \o L
  BY <1>1
<1> HIDE DEF A
<1> QED
  BY <1>1, <1>2, <1>3 DEF TornIn

LEMMA TornMarked ==
    ASSUME NEW s \in Seq(AnyByte), NEW G \in Seq(LineHead), Torn(s, G),
           NEW m \in Seq(AnyByte), NEW f \in Frame, <<m, f>> \in MarkedCodes
    PROVE  Torn(s \o m, G \o <<Header(f.dlci, f.info)>>)
<1>0. TornIn(s, G)
  BY TornIs
<1>1. PICK a \in Seq(AnyByte), u \in Seq(AnyByte), A \in Seq(LineHead), L \in Seq(LineHead) :
               s = a \o u /\ G = A \o L /\ Shows(a, A) /\ Broken(u, L)
  BY <1>0 DEF TornIn
<1> DEFINE h == <<Header(f.dlci, f.info)>>
<1>2. h \in Seq(LineHead)
  BY HeadersType
<1> DEFINE um == u \o m
           Lh == L \o h
<1>3. Broken(um, Lh)
  BY <1>1, BrokenMore
<1> HIDE DEF h
<1>4. s \o m = a \o um
  <2>1. Associate(a, u, m)
    BY Joined
  <2> QED
    BY <1>1, <2>1 DEF Associate
<1>5. G \o h = A \o Lh
  <2>1. Associate(A, L, h)
    BY <1>1, <1>2, HeadsJoined
  <2> QED
    BY <1>1, <2>1 DEF Associate
<1> HIDE DEF um, Lh
<1>6. Torn(a \o um, A \o Lh)
  BY <1>1, <1>3, TornBehind
<1>7. Torn(s \o m, G \o h)
  BY <1>4, <1>5, <1>6
<1> QED
  BY <1>7 DEF h

(* A code that the line damages.                                            *)
LEMMA TornDamaged ==
    ASSUME NEW s \in Seq(AnyByte), NEW G \in Seq(LineHead), Shows(s, G),
           NEW m \in Seq(AnyByte), NEW f \in Frame, <<m, f>> \in MarkedCodes, NEW b \in Damaged(m)
    PROVE  b \in Seq(AnyByte) /\ Torn(s \o b, G \o <<Header(f.dlci, f.info)>>)
<1> DEFINE h == <<Header(f.dlci, f.info)>>
           none == <<>>
           bn == b \o none
<1>1. h \in Seq(LineHead) /\ Header(f.dlci, f.info) \in LineHead
  BY HeadersType
<1>2. b \in Seq(AnyByte) /\ Scrap(b, h)
  <2>1. OneHead(m, f)
    BY DEF MarkedCodes
  <2> QED
    BY <1>1, <2>1, ScrapDamaged
<1> HIDE DEF h
<1>3. /\ none \in Seq(Frame) /\ none \in Seq(AnyByte)
      /\ HeadersOf(none) = none /\ Encodes(MarkedCodes, none, none)
  BY HeadersType, EncodesNone
<1>4. b \o none = b /\ h \o none = h
  BY <1>1, <1>2, Regroup
<1> HIDE DEF none
<1>5. b = b \o none /\ h = h \o HeadersOf(none)
  BY <1>3, <1>4
<1>6. Broken(b, h)
  BY <1>1, <1>2, <1>3, <1>5 DEF Broken
<1>7. Torn(s \o b, G \o h)
  BY <1>6, TornBehind
<1> QED
  BY <1>2, <1>7 DEF h

LEMMA ShowsTorn ==
    ASSUME NEW s \in Seq(AnyByte), NEW G \in Seq(LineHead), Shows(s, G)
    PROVE  Torn(s, G)
<1> DEFINE none == <<>>
<1>1. /\ none \in Seq(Frame) /\ none \in Seq(AnyByte) /\ none \in Seq(LineHead)
      /\ HeadersOf(none) = none /\ Encodes(MarkedCodes, none, none) /\ Early(none)
      /\ none = none \o none
  BY HeadersType, EncodesNone, NothingEarly
<1>2. s \o none = s /\ G \o none = G
  BY Regroup
<1> HIDE DEF none
<1>3. none = none \o HeadersOf(none) /\ Scrap(none, none)
  BY <1>1 DEF Scrap
<1>4. Broken(none, none)
  BY <1>1, <1>3 DEF Broken
<1>5. Torn(s \o none, G \o none)
  BY <1>4, TornBehind
<1> QED
  BY <1>2, <1>5

LEMMA SkipsMore ==
    ASSUME NEW F \in Seq(LineHead), NEW H \in Seq(LineHead), NEW G \in Seq(LineHead),
           NEW h \in Seq(LineHead), Skips(F, H, G)
    PROVE  Skips(F, H \o h, G \o h)
<1>1. PICK F1 \in Seq(LineHead), F2 \in Seq(LineHead), mid \in Seq(LineHead) :
          F = F1 \o F2 /\ H = F1 \o (mid \o (F2 \o G))
  BY DEF Skips
<1> DEFINE FG == F2 \o G
           mFG == mid \o FG
<1>2. FG \in Seq(LineHead)
  BY <1>1, HeadsJoined
<1>3. FG \o h = F2 \o (G \o h)
  <2>1. Associate(F2, G, h)
    BY <1>1, HeadsJoined
  <2> QED
    BY <2>1 DEF Associate
<1> HIDE DEF FG
<1>4. mFG \in Seq(LineHead)
  BY <1>1, <1>2, HeadsJoined
<1>5. mFG \o h = mid \o (FG \o h)
  <2>1. Associate(mid, FG, h)
    BY <1>1, <1>2, HeadsJoined
  <2> QED
    BY <2>1 DEF Associate
<1>6. H = F1 \o mFG
  BY <1>1 DEF FG
<1> HIDE DEF mFG
<1>7. H \o h = F1 \o (mFG \o h)
  <2>1. Associate(F1, mFG, h)
    BY <1>1, <1>4, HeadsJoined
  <2> QED
    BY <1>6, <2>1 DEF Associate
<1>8. H \o h = F1 \o (mid \o (F2 \o (G \o h)))
  BY <1>3, <1>5, <1>7
<1> QED
  BY <1>1, <1>8 DEF Skips

(* What has been missing is missing still when more arrives.                *)
LEMMA SkipsOn ==
    ASSUME NEW F \in Seq(LineHead), NEW K \in Seq(LineHead), NEW L \in Seq(LineHead), NEW H,
           Skips(F, H, K \o L)
    PROVE  Skips(F \o K, H, L)
<1>1. PICK F1 \in Seq(LineHead), F2 \in Seq(LineHead), mid \in Seq(LineHead) :
          F = F1 \o F2 /\ H = F1 \o (mid \o (F2 \o (K \o L)))
  BY DEF Skips
<1> DEFINE FK == F2 \o K
<1>2. FK \in Seq(LineHead) /\ FK \o L = F2 \o (K \o L)
  <2>1. Associate(F2, K, L) /\ F2 \o K \in Seq(LineHead)
    BY <1>1, HeadsJoined
  <2> QED
    BY <2>1 DEF Associate
<1>3. F \o K = F1 \o FK
  <2>1. Associate(F1, F2, K)
    BY <1>1, HeadsJoined
  <2> QED
    BY <1>1, <2>1 DEF Associate
<1> HIDE DEF FK
<1>4. H = F1 \o (mid \o (FK \o L))
  BY <1>1, <1>2
<1> QED
  BY <1>1, <1>2, <1>3, <1>4 DEF Skips

(* Something is missing now, and nothing was before.                        *)
LEMMA SkipsLater ==
    ASSUME NEW F \in Seq(LineHead), NEW K \in Seq(LineHead), NEW G \in Seq(LineHead),
           NEW L \in Seq(LineHead), Skips(K, G, L)
    PROVE  Skips(F \o K, F \o G, L)
<1>1. PICK F1 \in Seq(LineHead), F2 \in Seq(LineHead), mid \in Seq(LineHead) :
          K = F1 \o F2 /\ G = F1 \o (mid \o (F2 \o L))
  BY DEF Skips
<1> DEFINE FF == F \o F1
           FL == F2 \o L
           mFL == mid \o FL
<1>2. FF \in Seq(LineHead) /\ F \o K = FF \o F2
  <2>1. Associate(F, F1, F2) /\ F \o F1 \in Seq(LineHead)
    BY <1>1, HeadsJoined
  <2> QED
    BY <1>1, <2>1 DEF Associate
<1>3. FL \in Seq(LineHead)
  BY <1>1, HeadsJoined
<1> HIDE DEF FL
<1>4. mFL \in Seq(LineHead) /\ G = F1 \o mFL
  <2>1. mFL \in Seq(LineHead)
    BY <1>1, <1>3, HeadsJoined
  <2> QED
    BY <1>1, <2>1 DEF FL
<1> HIDE DEF mFL
<1>5. F \o G = FF \o mFL
  <2>1. Associate(F, F1, mFL)
    BY <1>1, <1>4, HeadsJoined
  <2> QED
    BY <1>4, <2>1 DEF Associate
<1> HIDE DEF FF
<1>6. F \o G = FF \o (mid \o (F2 \o L))
  BY <1>5 DEF mFL, FL
<1> QED
  BY <1>1, <1>2, <1>6 DEF Skips

-----------------------------------------------------------------------------
(* The line: s are the bytes on it, F the frames that have arrived and H    *)
(* the frames sent.                                                         *)

NoGap(s, F, H) == \E G \in Seq(LineHead) : H = F \o G /\ Shows(s, G)
BeforeGap(s, F, H) == \E G \in Seq(LineHead) : H = F \o G /\ Torn(s, G)
PastGap(s, F, H) == \E G \in Seq(LineHead) : Skips(F, H, G) /\ Shows(s, G)
Gap(s, F, H) == BeforeGap(s, F, H) \/ PastGap(s, F, H)

LEMMA NoGapSent ==
    ASSUME NEW s \in Seq(AnyByte), NEW F \in Seq(LineHead), NEW H \in Seq(LineHead), NoGap(s, F, H),
           NEW m \in Seq(AnyByte), NEW f \in Frame, <<m, f>> \in MarkedCodes
    PROVE  LET h == <<Header(f.dlci, f.info)>> IN
           /\ NoGap(s \o m, F, H \o h)
           /\ \A b \in Damaged(m) : b \in Seq(AnyByte) /\ Gap(s \o b, F, H \o h)
<1> DEFINE h == <<Header(f.dlci, f.info)>>
<1>1. PICK G \in Seq(LineHead) : H = F \o G /\ Shows(s, G)
  BY DEF NoGap
<1> DEFINE Gh == G \o h
<1>2. Shows(s \o m, Gh)
  BY <1>1, ShowsMore
<1>3. ASSUME NEW b \in Damaged(m) PROVE b \in Seq(AnyByte) /\ Torn(s \o b, Gh)
  BY <1>1, <1>3, TornDamaged
<1>4. h \in Seq(LineHead)
  BY HeadersType
<1> HIDE DEF h
<1>5. Gh \in Seq(LineHead) /\ H \o h = F \o Gh
  <2>1. Associate(F, G, h) /\ G \o h \in Seq(LineHead)
    BY <1>4, HeadsJoined
  <2> QED
    BY <1>1, <2>1 DEF Associate
<1> HIDE DEF Gh
<1>6. NoGap(s \o m, F, H \o h)
  BY <1>2, <1>5 DEF NoGap
<1>7. ASSUME NEW b \in Damaged(m) PROVE b \in Seq(AnyByte) /\ Gap(s \o b, F, H \o h)
  BY <1>3, <1>5, <1>7 DEF Gap, BeforeGap
<1> QED
  BY <1>6, <1>7 DEF h

LEMMA GapSent ==
    ASSUME NEW s \in Seq(AnyByte), NEW F \in Seq(LineHead), NEW H \in Seq(LineHead), Gap(s, F, H),
           NEW m \in Seq(AnyByte), NEW f \in Frame, <<m, f>> \in MarkedCodes
    PROVE  Gap(s \o m, F, H \o <<Header(f.dlci, f.info)>>)
<1> DEFINE h == <<Header(f.dlci, f.info)>>
<1>1. h \in Seq(LineHead)
  BY HeadersType
<1>2. ASSUME BeforeGap(s, F, H) PROVE BeforeGap(s \o m, F, H \o h)
  <2>1. PICK G \in Seq(LineHead) : H = F \o G /\ Torn(s, G)
    BY <1>2 DEF BeforeGap
  <2> DEFINE Gh == G \o h
  <2>2. Torn(s \o m, Gh)
    BY <2>1, TornMarked
  <2> HIDE DEF h
  <2>3. Gh \in Seq(LineHead) /\ H \o h = F \o Gh
    <3>1. Associate(F, G, h) /\ G \o h \in Seq(LineHead)
      BY <1>1, HeadsJoined
    <3> QED
      BY <2>1, <3>1 DEF Associate
  <2> HIDE DEF Gh
  <2> QED
    BY <2>2, <2>3 DEF BeforeGap
<1>3. ASSUME PastGap(s, F, H) PROVE PastGap(s \o m, F, H \o h)
  <2>1. PICK G \in Seq(LineHead) : Skips(F, H, G) /\ Shows(s, G)
    BY <1>3 DEF PastGap
  <2> DEFINE Gh == G \o h
  <2>2. Shows(s \o m, Gh)
    BY <2>1, ShowsMore
  <2> HIDE DEF h
  <2>3. Gh \in Seq(LineHead) /\ Skips(F, H \o h, Gh)
    BY <1>1, <2>1, SkipsMore, HeadsJoined
  <2> HIDE DEF Gh
  <2> QED
    BY <2>2, <2>3 DEF PastGap
<1> QED
  BY <1>2, <1>3 DEF Gap

(* A chunk that send() drops.                                               *)
LEMMA GapOpens ==
    ASSUME NEW s \in Seq(AnyByte), NEW F, NEW H, NoGap(s, F, H)
    PROVE  Gap(s, F, H)
<1>1. PICK G \in Seq(LineHead) : H = F \o G /\ Shows(s, G)
  BY DEF NoGap
<1>2. Torn(s, G)
  BY <1>1, ShowsTorn
<1> QED
  BY <1>1, <1>2 DEF Gap, BeforeGap

(* The parser yields frames: K of them, and r is left of what it has read.  *)
LEMMA NoGapRead ==
    ASSUME NEW x \in Seq(AnyByte), NEW w \in Seq(AnyByte),
           NEW F \in Seq(LineHead), NEW H, NoGap(x \o w, F, H)
    PROVE  LET res == Parse(x) IN
           /\ res.frames \in Seq(Frame) /\ res.buffer \in Seq(AnyByte)
           /\ NoGap(res.buffer \o w, F \o HeadersOf(res.frames), H)
<1> DEFINE res == Parse(x)
           r == res.buffer
           fr == res.frames
           K == HeadersOf(fr)
<1>1. PICK G \in Seq(LineHead) : H = F \o G /\ Shows(x \o w, G)
  BY DEF NoGap
<1>2. PICK q \in Seq(Frame) : Encodes(FrameCodes, x \o w, q) /\ G = HeadersOf(q)
  BY <1>1 DEF Shows
<1>3. Cleaned(res, w, q)
  BY <1>2, ParseClean
<1> HIDE DEF res
<1>4. PICK gs \in Seq(Frame) : q = fr \o gs /\ Encodes(FrameCodes, r \o w, gs)
  BY <1>3 DEF Cleaned
<1>5. fr \in Seq(Frame) /\ r \in Seq(AnyByte)
  BY <1>3 DEF Cleaned
<1> HIDE DEF fr, r
<1> DEFINE L == HeadersOf(gs)
<1>6. K \in Seq(LineHead) /\ L \in Seq(LineHead) /\ G = K \o L
  BY <1>2, <1>4, <1>5, HeadersType
<1>7. Shows(r \o w, L)
  BY <1>4 DEF Shows
<1> HIDE DEF K, L
<1>8. H = (F \o K) \o L
  <2>1. Associate(F, K, L)
    BY <1>6, HeadsJoined
  <2> QED
    BY <1>1, <1>6, <2>1 DEF Associate
<1>9. NoGap(r \o w, F \o K, H)
  BY <1>6, <1>7, <1>8 DEF NoGap
<1> QED
  BY <1>5, <1>9 DEF fr, r, K, res

LEMMA PastGapRead ==
    ASSUME NEW x \in Seq(AnyByte), NEW w \in Seq(AnyByte),
           NEW F \in Seq(LineHead), NEW H, PastGap(x \o w, F, H)
    PROVE  LET res == Parse(x) IN
           /\ res.frames \in Seq(Frame) /\ res.buffer \in Seq(AnyByte)
           /\ PastGap(res.buffer \o w, F \o HeadersOf(res.frames), H)
<1> DEFINE res == Parse(x)
           none == <<>>
<1>1. PICK G \in Seq(LineHead) : Skips(F, H, G) /\ Shows(x \o w, G)
  BY DEF PastGap
<1>2. none \in Seq(LineHead) /\ none \o G = G
  BY HeadsJoined
<1> DEFINE fr == res.frames
           r == res.buffer
           K == HeadersOf(fr)
           nK == none \o K
<1>3. NoGap(x \o w, none, G)
  <2> HIDE DEF none
  <2> QED
    BY <1>1, <1>2 DEF NoGap
<1> HIDE DEF none
<1>4. fr \in Seq(Frame) /\ r \in Seq(AnyByte) /\ NoGap(r \o w, nK, G)
  BY <1>2, <1>3, NoGapRead
<1> HIDE DEF res, fr, r
<1>5. K \in Seq(LineHead) /\ nK = K
  <2>1. K \in Seq(LineHead)
    BY <1>4, HeadersType
  <2> HIDE DEF K
  <2> QED
    BY <2>1, HeadsJoined DEF none
<1> HIDE DEF K, nK
<1>6. PICK L \in Seq(LineHead) : G = K \o L /\ Shows(r \o w, L)
  BY <1>4, <1>5 DEF NoGap
<1>7. Skips(F \o K, H, L)
  BY <1>1, <1>5, <1>6, SkipsOn
<1>8. PastGap(r \o w, F \o K, H)
  BY <1>6, <1>7 DEF PastGap
<1> QED
  BY <1>4, <1>8 DEF fr, r, K, res

LEMMA BeforeGapRead ==
    ASSUME NEW x \in Seq(AnyByte), NEW w \in Seq(AnyByte),
           NEW F \in Seq(LineHead), NEW H, BeforeGap(x \o w, F, H)
    PROVE  LET res == Parse(x) IN
           /\ res.frames \in Seq(Frame) /\ res.buffer \in Seq(AnyByte)
           /\ Gap(res.buffer \o w, F \o HeadersOf(res.frames), H)
<1> DEFINE res == Parse(x)
           r == res.buffer
           fr == res.frames
           K == HeadersOf(fr)
<1>1. PICK G \in Seq(LineHead) : H = F \o G /\ Torn(x \o w, G)
  BY DEF BeforeGap
<1>2. TornDone(res, w, G)
  BY <1>1, ParseTorn
<1> HIDE DEF res
<1>3. /\ fr \in Seq(Frame) /\ r \in Seq(AnyByte)
      /\ \/ \E L \in Seq(LineHead) : G = K \o L /\ Torn(r \o w, L)
         \/ \E L \in Seq(LineHead) : Skips(K, G, L) /\ Shows(r \o w, L)
  BY <1>2 DEF TornDone
<1> HIDE DEF r, fr
<1>4. K \in Seq(LineHead)
  BY <1>3, HeadersType
<1> HIDE DEF K
<1>5. ASSUME NEW L \in Seq(LineHead), G = K \o L, Torn(r \o w, L)
      PROVE  BeforeGap(r \o w, F \o K, H)
  <2>1. Associate(F, K, L)
    BY <1>4, HeadsJoined
  <2>2. H = (F \o K) \o L
    BY <1>1, <1>5, <2>1 DEF Associate
  <2> QED
    BY <1>5, <2>2 DEF BeforeGap
<1>6. ASSUME NEW L \in Seq(LineHead), Skips(K, G, L), Shows(r \o w, L)
      PROVE  PastGap(r \o w, F \o K, H)
  <2>1. Skips(F \o K, F \o G, L)
    BY <1>4, <1>6, SkipsLater
  <2> QED
    BY <1>1, <1>6, <2>1 DEF PastGap
<1>7. Gap(r \o w, F \o K, H)
  BY <1>3, <1>5, <1>6 DEF Gap
<1> QED
  BY <1>3, <1>7 DEF fr, r, K, res

LEMMA GapRead ==
    ASSUME NEW x \in Seq(AnyByte), NEW w \in Seq(AnyByte),
           NEW F \in Seq(LineHead), NEW H, Gap(x \o w, F, H)
    PROVE  LET res == Parse(x) IN
           /\ res.frames \in Seq(Frame) /\ res.buffer \in Seq(AnyByte)
           /\ Gap(res.buffer \o w, F \o HeadersOf(res.frames), H)
<1>1. CASE BeforeGap(x \o w, F, H)
  BY <1>1, BeforeGapRead
<1>2. CASE PastGap(x \o w, F, H)
  BY <1>2, PastGapRead DEF Gap
<1> QED
  BY <1>1, <1>2 DEF Gap

(* What OneGapPerFault says of the frames that arrived and those sent.      *)
OnePlace(g, s) ==
    \E i, j \in 0 .. Len(s) :
        /\ i <= Len(g) /\ j + Len(g) - i <= Len(s)
        /\ SubSeq(g, 1, i) = SubSeq(s, 1, i)
        /\ SubSeq(g, i + 1, Len(g)) = SubSeq(s, j + 1, j + Len(g) - i)

LEMMA SkipsIsOnePlace ==
    ASSUME NEW F \in Seq(LineHead), NEW H \in Seq(LineHead), NEW G \in Seq(LineHead), Skips(F, H, G)
    PROVE  OnePlace(F, H)
<1>1. PICK F1 \in Seq(LineHead), F2 \in Seq(LineHead), mid \in Seq(LineHead) :
          F = F1 \o F2 /\ H = F1 \o (mid \o (F2 \o G))
  BY DEF Skips
<1> DEFINE a == Len(F1)
           b == Len(F2)
           c == Len(mid)
           e == Len(G)
           i == a
           j == a + c
<1>2. a \in Nat /\ b \in Nat /\ c \in Nat /\ e \in Nat
  OBVIOUS
<1>3. Len(F) = a + b /\ Len(H) = a + (c + (b + e))
  BY <1>1
<1>4. /\ \A k \in 1 .. a : F[k] = F1[k] /\ H[k] = F1[k]
      /\ \A k \in 1 .. b : F[a + k] = F2[k] /\ H[a + c + k] = F2[k]
  BY <1>1
<1> HIDE DEF a, b, c, e
<1>5. i \in 0 .. Len(H) /\ j \in 0 .. Len(H) /\ i <= Len(F) /\ j + Len(F) - i = j + b /\ j + b <= Len(H)
  BY <1>2, <1>3
<1>6. SubSeq(F, 1, i) = SubSeq(H, 1, i)
  <2>1. SubSeq(F, 1, i) = [k \in 1 .. i |-> F[k]] /\ SubSeq(H, 1, i) = [k \in 1 .. i |-> H[k]]
    BY <1>2, <1>3, <1>5
  <2> QED
    BY <1>4, <2>1
<1>7. SubSeq(F, i + 1, Len(F)) = SubSeq(H, j + 1, j + b)
  <2>1. /\ SubSeq(F, i + 1, Len(F)) = [k \in 1 .. b |-> F[i + k]]
        /\ SubSeq(H, j + 1, j + b) = [k \in 1 .. b |-> H[j + k]]
    BY <1>2, <1>3, <1>5
  <2>2. \A k \in 1 .. b : F[i + k] = H[j + k]
    BY <1>4
  <2> QED
    BY <2>1, <2>2
<1> HIDE DEF i, j
<1> QED
  BY <1>5, <1>6, <1>7 DEF OnePlace

-----------------------------------------------------------------------------
(* The steps of FramePath.                                                  *)

GapInv ==
    IF way.dir = "serial"
    THEN sent.frames = <<>> /\ got.frames = <<>>
    ELSE /\ faults = 0 => NoGap(buf \o wire, got.frames, sent.frames)
         /\ faults = 1 => Gap(buf \o wire, got.frames, sent.frames)

(* A frame is written, or damaged while it is.                              *)
LEMMA UihGap ==
    ASSUME TypeInv, GapInv, way.dir # "serial",
           NEW dlci \in {AtDlci, PppDlci}, NEW info \in Seq(PppByte), Len(info) <= N1,
           Uih(dlci, info), UNCHANGED <<way, buf, got>>,
           sent'.frames = Append(sent.frames, Header(dlci, info))
    PROVE  GapInv'
<1> DEFINE cr == IF way.dir = "tx" THEN 1 ELSE 0
           f == [dlci |-> dlci, info |-> info]
           h == Header(dlci, info)
           F == got.frames
           H == sent.frames
           bw == buf \o wire
<1>1. PICK v \in FcsValues : OnWire(MakeFrame(dlci, cr, Control, info, v))
  BY DEF Uih
<1> DEFINE m == MakeFrame(dlci, cr, Control, info, v)
<1>2. /\ dlci \in Nat /\ cr \in {0, 1} /\ Control \in Byte /\ 3 + 4 * dlci < 2 * LenBase
      /\ Len(info) < 2 * LenBase * LenBase /\ v \in Byte
  <2>1. dlci \in Byte /\ Byte \subseteq Nat /\ 3 + 4 * dlci < 2 * LenBase
    BY PathConstants, ByteIs
  <2>2. Len(info) < 2 * LenBase * LenBase
    <3> DEFINE top == 2 * LenBase * LenBase
    <3>1. top \in Nat
      BY PathConstants, Product
    <3>2. N1 < top /\ N1 \in Nat /\ Len(info) \in Nat
      BY PathConstants
    <3> HIDE DEF top
    <3>3. Len(info) < top
      BY <3>1, <3>2
    <3> QED
      BY <3>3 DEF top
  <2> QED
    BY <2>1, <2>2, PathConstants
<1> HIDE DEF cr
<1>3. Flag # Val(Address(dlci, cr))
  BY <1>2, NoFlagAddress
<1>4. m \in Seq(AnyByte) /\ f \in Frame /\ <<m, f>> \in MarkedCodes
  BY <1>2, <1>3, MakeFrameIsMarked
<1>5. /\ wire \in Seq(AnyByte) /\ buf \in Seq(AnyByte) /\ F \in Seq(LineHead) /\ H \in Seq(LineHead)
      /\ bw \in Seq(AnyByte)
  <2>1. wire \in Seq(AnyByte) /\ buf \in Seq(AnyByte) /\ F \in Seq(LineHead) /\ H \in Seq(LineHead)
    BY HeadTypes
  <2> QED
    BY <2>1, ConcatProperties
<1>6. h = Header(f.dlci, f.info) /\ h \in LineHead
  <2>1. h = Header(f.dlci, f.info)
    OBVIOUS
  <2> QED
    BY <1>4, <2>1, HeadersType
<1>7. sent'.frames = H \o <<h>> /\ got'.frames = F
  <2> HIDE DEF h
  <2>1. Append(H, h) = H \o <<h>>
    BY <1>5, <1>6, AppendIsConcat
  <2> QED
    BY <2>1 DEF h
<1>8. faults \in Nat /\ way'.dir # "serial"
  BY PathConstants DEF TypeInv, Bounded
<1> HIDE DEF m, f, F, H, bw, h
<1>9. \A b \in Seq(AnyByte) : wire' = wire \o b => buf' \o wire' = bw \o b
  <2> SUFFICES ASSUME NEW b \in Seq(AnyByte), wire' = wire \o b PROVE buf' \o wire' = bw \o b
    OBVIOUS
  <2>1. Associate(buf, wire, b)
    BY <1>5, Joined
  <2> QED
    BY <2>1 DEF Associate, bw
<1>10. /\ faults = 0 => NoGap(bw, F, H)
       /\ faults = 1 => Gap(bw, F, H)
  BY DEF GapInv, bw, F, H
<1>11. CASE wire' = wire \o m /\ faults' = faults
  <2>1. faults = 0 => NoGap(bw \o m, F, H \o <<h>>)
    BY <1>4, <1>5, <1>6, <1>10, NoGapSent
  <2>2. faults = 1 => Gap(bw \o m, F, H \o <<h>>)
    BY <1>4, <1>5, <1>6, <1>10, GapSent
  <2>3. buf' \o wire' = bw \o m
    BY <1>4, <1>9, <1>11
  <2> QED
    BY <1>7, <1>8, <1>11, <2>1, <2>2, <2>3 DEF GapInv
<1>12. CASE faults' = faults + 1 /\ wire' \in {wire \o b : b \in Damaged(m)}
  <2>1. PICK b \in Damaged(m) : wire' = wire \o b
    BY <1>12
  <2>2. ASSUME faults = 0 PROVE Gap(buf' \o wire', F, H \o <<h>>)
    <3>1. b \in Seq(AnyByte) /\ Gap(bw \o b, F, H \o <<h>>)
      BY <1>4, <1>5, <1>6, <1>10, <2>1, <2>2, NoGapSent
    <3>2. buf' \o wire' = bw \o b
      BY <1>9, <2>1, <3>1
    <3> QED
      BY <3>1, <3>2
  <2>3. faults' # 0 /\ (faults' = 1 => faults = 0)
    BY <1>8, <1>12
  <2> QED
    BY <1>7, <1>8, <2>2, <2>3 DEF GapInv
<1> QED
  BY <1>1, <1>11, <1>12 DEF OnWire, m

LEMMA ChunkGap ==
    ASSUME TypeInv, GapInv, NEW w \in Writer, NEW bytes \in Seq(PppByte),
           NEW packets, NEW mixed, SendChunk(w, bytes, packets, mixed), UNCHANGED <<way, buf, got>>
    PROVE  GapInv'
<1>1. sent \in Sent
  BY DEF TypeInv
<1>2. CASE way.dir = "serial"
  <2>1. sent' = [sent EXCEPT !.packets = packets]
    BY <1>2 DEF SendChunk
  <2>2. sent'.frames = sent.frames
    BY <1>1, <2>1 DEF Sent
  <2> QED
    BY <1>2, <2>2 DEF GapInv
<1>3. CASE way.dir # "serial"
  <2> DEFINE n == IF Len(bytes) < N1 THEN Len(bytes) ELSE N1
             chunk == SubSeq(bytes, 1, n)
             s == buf \o wire
  <2>1. \/ /\ Uih(PppDlci, chunk)
           /\ sent' = [sent EXCEPT !.packets = packets, !.mixed = mixed,
                                   !.frames = Append(@, Header(PppDlci, chunk))]
        \/ /\ faults' = faults + 1
           /\ sent' = [sent EXCEPT !.packets = packets, !.mixed = mixed]
           /\ UNCHANGED wire
    BY <1>3 DEF SendChunk
  <2>2. n \in 0 .. Len(bytes) /\ n <= N1
    BY PathConstants
  <2>3. chunk \in Seq(PppByte) /\ Len(chunk) <= N1
    <3> HIDE DEF n
    <3>1. chunk \in Seq(PppByte)
      BY <2>2
    <3>2. Len(chunk) = n
      BY <2>2
    <3> QED
      BY <2>2, <3>1, <3>2
  <2> HIDE DEF n, chunk
  <2>4. CASE /\ Uih(PppDlci, chunk)
             /\ sent' = [sent EXCEPT !.packets = packets, !.mixed = mixed,
                                     !.frames = Append(@, Header(PppDlci, chunk))]
    <3>1. sent'.frames = Append(sent.frames, Header(PppDlci, chunk))
      BY <1>1, <2>4 DEF Sent
    <3> QED
      BY <1>3, <2>3, <2>4, <3>1, UihGap
  <2>5. CASE /\ faults' = faults + 1
             /\ sent' = [sent EXCEPT !.packets = packets, !.mixed = mixed]
             /\ UNCHANGED wire
    <3>1. sent'.frames = sent.frames
      BY <1>1, <2>5 DEF Sent
    <3>2. faults' # 0 /\ (faults' = 1 => faults = 0)
      <4>1. faults \in Nat
        BY PathConstants DEF TypeInv, Bounded
      <4> QED
        BY <2>5, <4>1
    <3>3. ASSUME faults = 0 PROVE Gap(s, got.frames, sent.frames)
      <4>1. s \in Seq(AnyByte)
        <5>1. buf \in Seq(AnyByte) /\ wire \in Seq(AnyByte)
          BY HeadTypes
        <5> QED
          BY <5>1, ConcatProperties
      <4>2. NoGap(s, got.frames, sent.frames)
        BY <1>3, <3>3 DEF GapInv
      <4> HIDE DEF s
      <4> QED
        BY <4>1, <4>2, GapOpens
    <3> QED
      BY <1>3, <2>5, <3>1, <3>2, <3>3 DEF GapInv
  <2> QED
    BY <2>1, <2>4, <2>5
<1> QED
  BY <1>2, <1>3

LEMMA SendPacketGap ==
    ASSUME TypeInv, GapInv, NEW w \in Writer, SendPacket(w)
    PROVE  GapInv'
<1> DEFINE mixed == sent.mixed \/ \E o \in Writer : left[o] # <<>>
<1>1. UNCHANGED <<way, buf, got>>
  BY DEF SendPacket, Unread
<1>2. PICK p \in Packets :
          SendChunk(w, MakePppFrame(p.packet, p.compressed), Append(sent.packets, p.packet), mixed)
  BY DEF SendPacket
<1> DEFINE x == p.packet
           c == p.compressed
           bytes == MakePppFrame(x, c)
           packets == Append(sent.packets, x)
<1>3. x \in Packet /\ Fit(x, c)
  BY PathAssumption DEF Sendable, Packet, Fit
<1>4. SendChunk(w, bytes, packets, mixed)
  BY <1>2
<1> HIDE DEF x, c
<1>5. bytes \in Seq(PppByte)
  BY <1>3, MakePppFrameMarks
<1> HIDE DEF bytes, packets, mixed
<1> QED
  BY <1>1, <1>4, <1>5, ChunkGap

LEMMA NextChunkGap ==
    ASSUME TypeInv, GapInv, NEW w \in Writer, NextChunk(w)
    PROVE  GapInv'
<1> DEFINE bytes == left[w]
           packets == sent.packets
           mixed == sent.mixed
<1>1. SendChunk(w, bytes, packets, mixed) /\ UNCHANGED <<way, buf, got>>
  BY DEF NextChunk, Unread
<1>2. bytes \in Seq(PppByte)
  BY DEF TypeInv, Underway
<1> HIDE DEF bytes, packets, mixed
<1> QED
  BY <1>1, <1>2, ChunkGap

LEMMA ModemTextGap ==
    ASSUME TypeInv, GapInv, ModemText
    PROVE  GapInv'
<1>1. UNCHANGED <<way, buf, got>> /\ sent \in Sent
  BY DEF ModemText, Unread, TypeInv
<1>2. PICK t \in Texts :
        LET info == [i \in DOMAIN t |-> Plain(t[i])] IN
        IF way.dir = "serial"
        THEN OnWire(info) /\ UNCHANGED sent
        ELSE /\ Uih(AtDlci, info)
             /\ sent' = [sent EXCEPT !.frames = Append(@, Header(AtDlci, info))]
  BY DEF ModemText
<1> DEFINE info == [i \in DOMAIN t |-> Plain(t[i])]
<1>3. info \in Seq(PppByte) /\ Len(info) <= N1
  BY TextIs
<1>4. \/ way.dir = "serial" /\ UNCHANGED sent
      \/ /\ way.dir # "serial" /\ Uih(AtDlci, info)
         /\ sent' = [sent EXCEPT !.frames = Append(@, Header(AtDlci, info))]
  BY <1>2
<1> HIDE DEF info
<1>5. CASE way.dir = "serial" /\ UNCHANGED sent
  BY <1>1, <1>5 DEF GapInv
<1>6. CASE /\ way.dir # "serial" /\ Uih(AtDlci, info)
           /\ sent' = [sent EXCEPT !.frames = Append(@, Header(AtDlci, info))]
  <2>1. sent'.frames = Append(sent.frames, Header(AtDlci, info))
    BY <1>1, <1>6 DEF Sent
  <2> QED
    BY <1>1, <1>3, <1>6, <2>1, UihGap
<1> QED
  BY <1>4, <1>5, <1>6

(* The parser reads what has arrived.                                       *)
LEMMA ReadGap ==
    ASSUME TypeInv, GapInv, Read
    PROVE  GapInv'
<1>1. UNCHANGED <<way, sent, faults>>
  BY DEF Read
<1>2. PICK n \in 1 .. Len(wire) :
        LET raw == SubSeq(wire, 1, n)
            parsed == Parse(buf \o raw)
            frames == parsed.frames
        IN  /\ wire' = SubSeq(wire, n + 1, Len(wire))
            /\ IF way.dir = "serial"
               THEN /\ queue' = <<[dlci |-> 0, info |-> raw]>>
                    /\ UNCHANGED <<buf, got>>
               ELSE /\ buf' = parsed.buffer
                    /\ queue' = frames
                    /\ got' = [got EXCEPT !.frames = @ \o HeadersOf(frames)]
  BY DEF Read, HeadersOf
<1> DEFINE raw == SubSeq(wire, 1, n)
           x == buf \o raw
           res == Parse(x)
           F == got.frames
           H == sent.frames
           w == wire'
<1>3. /\ wire \in Seq(AnyByte) /\ buf \in Seq(AnyByte) /\ F \in Seq(LineHead) /\ H \in Seq(LineHead)
      /\ got \in Got
  BY HeadTypes DEF TypeInv
<1>4. CASE way.dir = "serial"
  BY <1>1, <1>2, <1>4 DEF GapInv
<1>5. CASE way.dir # "serial"
  <2>1. buf' = res.buffer /\ got' = [got EXCEPT !.frames = @ \o HeadersOf(res.frames)]
    BY <1>2, <1>5
  <2>2. raw \in Seq(AnyByte) /\ w \in Seq(AnyByte) /\ wire = raw \o w
    <3> DEFINE a == n + 1
    <3>1. 1 \in 1 .. Len(wire) + 1 /\ a \in 1 .. Len(wire) + 1 /\ a - 1 = n /\ Len(wire) \in Nat
      <4>1. Len(wire) \in Nat /\ n \in 1 .. Len(wire)
        BY <1>3
      <4> QED
        BY ONLY <4>1 DEF a
    <3>2. w = SubSeq(wire, a, Len(wire))
      BY <1>2
    <3> HIDE DEF a, w
    <3>3. /\ SubSeq(wire, 1, a - 1) \in Seq(AnyByte) /\ SubSeq(wire, a, Len(wire)) \in Seq(AnyByte)
          /\ SubSeq(wire, 1, Len(wire)) = SubSeq(wire, 1, a - 1) \o SubSeq(wire, a, Len(wire))
      BY <1>3, <3>1, Tails
    <3>4. SubSeq(wire, 1, Len(wire)) = wire
      BY <1>3, SubSeqFull
    <3> QED
      BY <3>1, <3>2, <3>3, <3>4
  <2> HIDE DEF raw, w
  <2>3. x \in Seq(AnyByte) /\ x \o w = buf \o wire
    <3>1. Associate(buf, raw, w)
      BY <1>3, <2>2, Joined
    <3> QED
      BY <1>3, <2>2, <3>1, ConcatProperties DEF Associate
  <2> HIDE DEF x
  <2>4. got'.frames = F \o HeadersOf(res.frames)
    <3> DEFINE K == HeadersOf(res.frames)
    <3> HIDE DEF K
    <3>1. got' = [got EXCEPT !.frames = @ \o K]
      BY <2>1 DEF K
    <3>2. got'.frames = F \o K
      BY <1>3, <3>1 DEF Got
    <3> QED
      BY <3>2 DEF K
  <2> DEFINE r == res.buffer
             FK == F \o HeadersOf(res.frames)
  <2>5. ASSUME faults = 0 PROVE NoGap(r \o w, FK, H)
    <3>1. NoGap(x \o w, F, H)
      BY <1>5, <2>3, <2>5 DEF GapInv
    <3> HIDE DEF F, H
    <3> QED
      BY <1>3, <2>2, <2>3, <3>1, NoGapRead
  <2>6. ASSUME faults = 1 PROVE Gap(r \o w, FK, H)
    <3>1. Gap(x \o w, F, H)
      BY <1>5, <2>3, <2>6 DEF GapInv
    <3> HIDE DEF F, H
    <3> QED
      BY <1>3, <2>2, <2>3, <3>1, GapRead
  <2>7. buf' \o wire' = r \o w /\ got'.frames = FK /\ sent'.frames = H
    BY <1>1, <2>1, <2>4 DEF w
  <2> HIDE DEF r, FK, H, F
  <2> QED
    BY <1>1, <1>5, <2>5, <2>6, <2>7 DEF GapInv
<1> QED
  BY <1>4, <1>5

LEMMA GapNext ==
    ASSUME TypeInv, GapInv, [Next]_vars
    PROVE  GapInv'
<1>1. got \in Got
  BY DEF TypeInv
<1>2. ASSUME UNCHANGED <<way, wire, buf, faults, sent>>, got'.frames = got.frames
      PROVE  GapInv'
  BY <1>2 DEF GapInv
<1>3. ASSUME NEW w \in Writer, SendPacket(w) PROVE GapInv'
  BY <1>3, SendPacketGap
<1>4. ASSUME NEW w \in Writer, NextChunk(w) PROVE GapInv'
  BY <1>4, NextChunkGap
<1>5. CASE ModemText
  BY <1>5, ModemTextGap
<1>6. CASE Read
  BY <1>6, ReadGap
<1>7. CASE Dispatch
  <2>1. UNCHANGED <<way, wire, buf, faults, sent>>
    BY <1>7 DEF Dispatch
  <2>2. got'.frames = got.frames
    BY <1>1, <1>7 DEF Dispatch, FeedPpp, FeedAt, Got
  <2> QED
    BY <1>2, <2>1, <2>2
<1>8. CASE Command \/ Take
  <2>1. got'.frames = got.frames
    BY <1>1, <1>8 DEF Command, Take, Got
  <2>2. UNCHANGED <<way, wire, buf, faults, sent>>
    BY <1>8 DEF Command, Take
  <2> QED
    BY <1>2, <2>1, <2>2
<1>9. CASE Register \/ Answered \/ UNCHANGED vars
  <2>1. UNCHANGED <<way, wire, buf, faults, sent, got>>
    BY <1>9 DEF Register, Answered, vars
  <2> QED
    BY <1>2, <2>1
<1> QED
  BY <1>3, <1>4, <1>5, <1>6, <1>7, <1>8, <1>9 DEF Next

LEMMA GapInit == Init => GapInv
<1> SUFFICES ASSUME Init PROVE GapInv
  OBVIOUS
<1> DEFINE none == <<>>
<1>1. /\ got.frames = none /\ sent.frames = none /\ buf = none /\ wire = none /\ faults = 0
  BY DEF Init
<1>2. /\ none \in Seq(Frame) /\ none \in Seq(LineHead) /\ none \o none = none
      /\ HeadersOf(none) = none /\ Encodes(FrameCodes, none, none)
  BY HeadersType, EncodesNone
<1> HIDE DEF none
<1>3. NoGap(none, none, none)
  BY <1>2 DEF NoGap, Shows
<1> QED
  BY <1>1, <1>2, <1>3 DEF GapInv, none

LEMMA GapEnd ==
    ASSUME TypeInv, GapInv
    PROVE  OneGapPerFault
<1> DEFINE F == got.frames
           H == sent.frames
           s == buf \o wire
           none == <<>>
<1>1. F \in Seq(LineHead) /\ H \in Seq(LineHead) /\ faults \in Nat
  BY HeadTypes, PathConstants DEF TypeInv, Bounded
<1> HIDE DEF F, H
<1>2. ASSUME NEW G \in Seq(LineHead), H = F \o G PROVE OnePlace(F, H)
  <2>1. /\ none \in Seq(LineHead) /\ F \o none = F /\ none \o G = G
    BY <1>1, Regroup
  <2> HIDE DEF none
  <2>2. F = F \o none /\ H = F \o (none \o (none \o G))
    BY <1>2, <2>1
  <2>3. Skips(F, H, G)
    BY <1>1, <2>1, <2>2 DEF Skips
  <2> QED
    BY <1>1, <2>3, SkipsIsOnePlace
<1>3. ASSUME faults <= 1 PROVE OnePlace(F, H)
  <2>1. CASE way.dir = "serial"
    <3>1. none \in Seq(LineHead) /\ F = none /\ H = none /\ none \o none = none
      BY <2>1 DEF GapInv, F, H
    <3> HIDE DEF none
    <3> QED
      BY <1>2, <3>1
  <2>2. CASE way.dir # "serial"
    <3>1. NoGap(s, F, H) \/ Gap(s, F, H)
      <4>1. faults = 0 \/ faults = 1
        BY <1>1, <1>3
      <4> QED
        BY <2>2, <4>1 DEF GapInv, F, H
    <3> HIDE DEF s
    <3>2. CASE NoGap(s, F, H)
      BY <1>2, <3>2 DEF NoGap
    <3>3. CASE BeforeGap(s, F, H)
      BY <1>2, <3>3 DEF BeforeGap
    <3>4. CASE PastGap(s, F, H)
      BY <1>1, <3>4, SkipsIsOnePlace DEF PastGap
    <3> QED
      BY <3>1, <3>2, <3>3, <3>4 DEF Gap
  <2> QED
    BY <2>1, <2>2
<1> QED
  BY <1>3 DEF OneGapPerFault, OnePlace, F, H

(* Of a byte damaged or lost on the line, or a chunk that send() drops, the *)
(* frames lost follow each other: FrameParser misses none once it has found *)
(* one again, and finds no frame in the scrap that was not sent, whichever  *)
(* byte it is and however the bytes arrive (resynchronisation in _parse()). *)
THEOREM OneGap == Spec => []OneGapPerFault
<1>1. Init => GapInv
  BY GapInit
<1>2. TypeInv /\ GapInv /\ [Next]_vars => GapInv'
  BY GapNext
<1>3. TypeInv /\ GapInv => OneGapPerFault
  BY GapEnd
<1> QED
  BY <1>1, <1>2, <1>3, TypeAlways, PTL DEF Spec
=============================================================================
