-------------------------- MODULE CleanLineProofs ---------------------------
(***************************************************************************)
(* A line that damages nothing delivers everything: what was sent can be   *)
(* read off the bytes under way at every moment, for every value of the    *)
(* constants.  First the parsers on undamaged bytes, then the line and the *)
(* steps of FramePath.                                                     *)
(***************************************************************************)
EXTENDS FramePathProofs

-----------------------------------------------------------------------------
(* What was sent, byte for byte.                                            *)

(* s consists of codes of the items of q; a pair in E is a code with what   *)
(* it stands for.                                                           *)
Encodes(E, s, q) ==
    \E b \in Seq(Seq(AnyByte)) :
        /\ Len(b) = Len(q) /\ s = FlattenSeq(b)
        /\ \A i \in 1 .. Len(q) : <<b[i], q[i]>> \in E

LEMMA EncodesNone ==
    ASSUME NEW E
    PROVE  /\ Encodes(E, <<>>, <<>>)
           /\ \A s : Encodes(E, s, <<>>) => s = <<>>
<1> DEFINE none == <<>>
<1>1. none \in Seq(Seq(AnyByte)) /\ Len(none) = 0 /\ FlattenSeq(none) = none
  BY HeadsNone
<1>2. \A b \in Seq(Seq(AnyByte)) : Len(b) = 0 => b = none
  OBVIOUS
<1>3. none = <<>>
  OBVIOUS
<1>4. \A i \in 1 .. Len(none) : <<none[i], none[i]>> \in E
  BY <1>1
<1> HIDE DEF none
<1> QED
  BY <1>1, <1>2, <1>3, <1>4 DEF Encodes

LEMMA EncodesOne ==
    ASSUME NEW E, NEW b \in Seq(AnyByte), NEW x, <<b, x>> \in E
    PROVE  Encodes(E, b, <<x>>)
<1> DEFINE bs == <<b>>
           q == <<x>>
           T == Seq(AnyByte)
<1>1. Len(bs) = 1 /\ bs[1] = b /\ Len(q) = 1 /\ q[1] = x
  OBVIOUS
<1>2. bs \in Seq(T)
  <2>1. b \in T
    OBVIOUS
  <2> HIDE DEF T
  <2> QED
    BY <2>1
<1>3. FlattenSeq(bs) = b
  BY FlattenOne
<1> HIDE DEF bs, q
<1>4. \A i \in 1 .. Len(q) : <<bs[i], q[i]>> \in E
  BY <1>1
<1> QED
  BY <1>1, <1>2, <1>3, <1>4 DEF Encodes, q

LEMMA EncodesConcat ==
    ASSUME NEW E, NEW S, NEW q \in Seq(S), NEW r \in Seq(S), NEW s, NEW t,
           Encodes(E, s, q), Encodes(E, t, r)
    PROVE  Encodes(E, s \o t, q \o r)
<1> DEFINE T == Seq(AnyByte)
<1>1. PICK b \in Seq(T) : /\ Len(b) = Len(q) /\ s = FlattenSeq(b)
                          /\ \A i \in 1 .. Len(q) : <<b[i], q[i]>> \in E
  BY DEF Encodes
<1>2. PICK c \in Seq(T) : /\ Len(c) = Len(r) /\ t = FlattenSeq(c)
                          /\ \A i \in 1 .. Len(r) : <<c[i], r[i]>> \in E
  BY DEF Encodes
<1>3. FlattenSeq(b \o c) = s \o t
  BY <1>1, <1>2, FlattenConcat
<1> DEFINE bc == b \o c
           qr == q \o r
<1> HIDE DEF T
<1>4. /\ bc \in Seq(T) /\ qr \in Seq(S) /\ Len(bc) = Len(b) + Len(c) /\ Len(qr) = Len(q) + Len(r)
      /\ \A i \in 1 .. Len(b) + Len(c) : bc[i] = IF i <= Len(b) THEN b[i] ELSE c[i - Len(b)]
      /\ \A i \in 1 .. Len(q) + Len(r) : qr[i] = IF i <= Len(q) THEN q[i] ELSE r[i - Len(q)]
      /\ Len(q) \in Nat /\ Len(r) \in Nat
  BY ConcatProperties, LenProperties
<1>5. bc = b \o c /\ qr = q \o r
  OBVIOUS
<1> HIDE DEF bc, qr
<1>6. ASSUME NEW i \in 1 .. Len(qr) PROVE <<bc[i], qr[i]>> \in E
  <2>1. CASE i <= Len(q)
    <3>1. bc[i] = b[i] /\ qr[i] = q[i] /\ i \in 1 .. Len(q)
      BY <1>1, <1>2, <1>4, <2>1
    <3> QED
      BY <1>1, <3>1
  <2>2. CASE ~(i <= Len(q))
    <3>1. bc[i] = c[i - Len(q)] /\ qr[i] = r[i - Len(q)] /\ i - Len(q) \in 1 .. Len(r)
      BY <1>1, <1>2, <1>4, <2>2
    <3> QED
      BY <1>2, <3>1
  <2> QED
    BY <2>1, <2>2
<1>7. Len(bc) = Len(qr)
  BY <1>1, <1>2, <1>4
<1>8. Encodes(E, s \o t, qr)
  BY <1>3, <1>4, <1>5, <1>6, <1>7 DEF Encodes, T
<1> QED
  BY <1>5, <1>8

(* s begins with a code of x, and what follows encodes r.                   *)
Begins(E, s, x, r) ==
    \E b \in Seq(AnyByte), t \in Seq(AnyByte) :
        s = b \o t /\ <<b, x>> \in E /\ Encodes(E, t, r)

LEMMA EncodesFirst ==
    ASSUME NEW E, NEW S, NEW q \in Seq(S), q # <<>>, NEW s, Encodes(E, s, q)
    PROVE  /\ Head(q) \in S /\ Tail(q) \in Seq(S) /\ q = <<Head(q)>> \o Tail(q)
           /\ Begins(E, s, Head(q), Tail(q))
<1> DEFINE T == Seq(AnyByte)
<1>1. PICK bs \in Seq(T) : /\ Len(bs) = Len(q) /\ s = FlattenSeq(bs)
                           /\ \A i \in 1 .. Len(q) : <<bs[i], q[i]>> \in E
  BY DEF Encodes
<1> DEFINE h == Head(bs)
           u == Tail(bs)
           x == Head(q)
           r == Tail(q)
           one == <<h>>
<1>2. x \in S /\ r \in Seq(S) /\ q = <<x>> \o r /\ Len(r) = Len(q) - 1 /\ Len(q) \in Nat \ {0}
      /\ x = q[1] /\ \A i \in 1 .. Len(r) : r[i] = q[i + 1]
  <2>1. Len(q) \in Nat \ {0}
    OBVIOUS
  <2>2. x \in S /\ r \in Seq(S) /\ x = q[1] /\ Len(r) = Len(q) - 1
        /\ \A i \in 1 .. Len(q) - 1 : r[i] = q[i + 1]
    BY HeadTailProperties
  <2>3. q = <<x>> \o r
    OBVIOUS
  <2> HIDE DEF x, r
  <2> QED
    BY <2>1, <2>2, <2>3
<1>3. h \in T /\ u \in Seq(T) /\ bs = one \o u /\ Len(u) = Len(bs) - 1
      /\ h = bs[1] /\ (\A i \in 1 .. Len(u) : u[i] = bs[i + 1]) /\ one \in Seq(T)
  <2>1. bs \in Seq(T) /\ Len(bs) \in Nat \ {0} /\ bs # <<>>
    BY <1>1, <1>2
  <2> HIDE DEF T
  <2>2. h \in T /\ u \in Seq(T) /\ h = bs[1] /\ Len(u) = Len(bs) - 1
        /\ \A i \in 1 .. Len(bs) - 1 : u[i] = bs[i + 1]
    BY <2>1, HeadTailProperties
  <2>3. bs = one \o u /\ one \in Seq(T)
    BY <2>1, <2>2
  <2> HIDE DEF h, u, one
  <2> QED
    BY <2>1, <2>2, <2>3
<1> HIDE DEF h, u, x, r
<1>4. FlattenSeq(one) = h
  BY <1>3, FlattenOne
<1>5. FlattenSeq(one \o u) = FlattenSeq(one) \o FlattenSeq(u)
  BY <1>3, FlattenConcat
<1> HIDE DEF one
<1>6. s = h \o FlattenSeq(u)
  BY <1>1, <1>3, <1>4, <1>5
<1>7. FlattenSeq(u) \in Seq(AnyByte)
  BY <1>3, FlattenType
<1>8. <<h, x>> \in E
  <2>1. 1 \in 1 .. Len(q)
    BY <1>2
  <2> QED
    BY <1>1, <1>2, <1>3, <2>1
<1>9. Encodes(E, FlattenSeq(u), r)
  <2>1. \A i \in 1 .. Len(r) : i + 1 \in 1 .. Len(q)
    BY <1>2
  <2>2. \A i \in 1 .. Len(r) : <<u[i], r[i]>> \in E
    BY <1>1, <1>2, <1>3, <2>1
  <2>3. Len(u) = Len(r)
    BY <1>1, <1>2, <1>3
  <2> QED
    BY <1>3, <2>2, <2>3 DEF Encodes
<1> QED
  BY <1>2, <1>3, <1>6, <1>7, <1>8, <1>9 DEF x, r, Begins

(* The layout of a frame: where its header, its data and its checksum are.  *)
Layout(m, h, data, chk) ==
    /\ m \in Seq(AnyByte) /\ Len(m) = Len(h) + Len(data) + 3
    /\ IsFlag(m[1]) /\ IsFlag(m[Len(m)]) /\ m[Len(m) - 1] = chk
    /\ \A j \in 2 .. Len(h) + 1 : m[j] = h[j - 1]
    /\ \A j \in Len(h) + 2 .. Len(h) + Len(data) + 1 : m[j] = data[j - Len(h) - 1]

LEMMA MakeFrameLayout ==
    ASSUME NEW dlci, NEW cr, NEW ctrl, NEW data \in Seq(AnyByte), NEW v,
           HeaderFor(dlci, cr, ctrl, Len(data)) \in Seq(PlainByte),
           Check(v, HeaderFor(dlci, cr, ctrl, Len(data))) \in AnyByte
    PROVE  LET h == HeaderFor(dlci, cr, ctrl, Len(data)) IN
           Layout(MakeFrame(dlci, cr, ctrl, data, v), h, data, Check(v, h))
<1> DEFINE h == HeaderFor(dlci, cr, ctrl, Len(data))
           fl == Plain(Flag)
           chk == Check(v, h)
           first == <<fl>>
           end == <<chk, fl>>
           m == MakeFrame(dlci, cr, ctrl, data, v)
<1>1. fl \in AnyByte /\ IsFlag(fl)
  BY ByteIs, FramesAssumption DEF IsFlag, Plain, Val
<1>2. first \in Seq(AnyByte) /\ Len(first) = 1 /\ first[1] = fl
  BY <1>1
<1>3. end \in Seq(AnyByte) /\ Len(end) = 2 /\ end[1] = chk /\ end[2] = fl
  BY <1>1
<1>4. h \in Seq(AnyByte)
  <2>1. PlainByte \subseteq AnyByte /\ h \in Seq(PlainByte)
    BY ByteIs
  <2> HIDE DEF h
  <2> QED
    BY <2>1
<1> DEFINE pre == first \o h
           body == pre \o data
<1>5. m = body \o end
  BY DEF MakeFrame, HeaderFor
<1> HIDE DEF h, chk, first, end, m, fl
<1> DEFINE k == Len(h)
           n == Len(data)
<1>6. /\ pre \in Seq(AnyByte) /\ Len(pre) = k + 1 /\ k \in Nat /\ pre[1] = fl
      /\ \A j \in 2 .. k + 1 : pre[j] = h[j - 1]
  <2>1. /\ pre \in Seq(AnyByte) /\ Len(pre) = Len(first) + k /\ k \in Nat
        /\ \A i \in 1 .. Len(first) + k :
               pre[i] = IF i <= Len(first) THEN first[i] ELSE h[i - Len(first)]
    BY <1>2, <1>4, ConcatProperties, LenProperties
  <2> HIDE DEF pre, k
  <2>2. \A i \in 1 .. 1 + k : pre[i] = IF i <= 1 THEN first[i] ELSE h[i - 1]
    BY <1>2, <2>1
  <2> QED
    BY <1>2, <2>1, <2>2
<1>60. n \in Nat
  OBVIOUS
<1> HIDE DEF pre
<1>7. /\ body \in Seq(AnyByte) /\ Len(body) = k + n + 1 /\ body[1] = fl
      /\ \A j \in 2 .. k + 1 : body[j] = h[j - 1]
      /\ \A j \in k + 2 .. k + n + 1 : body[j] = data[j - k - 1]
  <2>1. /\ body \in Seq(AnyByte) /\ Len(body) = Len(pre) + n
        /\ \A i \in 1 .. Len(pre) + n :
               body[i] = IF i <= Len(pre) THEN pre[i] ELSE data[i - Len(pre)]
    BY <1>6, ConcatProperties
  <2> HIDE DEF body, k, n
  <2>2. \A i \in 1 .. k + n + 1 : body[i] = IF i <= k + 1 THEN pre[i] ELSE data[i - (k + 1)]
    BY <1>6, <1>60, <2>1
  <2>3. Len(body) = k + n + 1
    BY <1>6, <1>60, <2>1
  <2>4. body[1] = fl
    BY <1>6, <1>60, <2>2
  <2>5. ASSUME NEW j \in 2 .. k + 1 PROVE body[j] = h[j - 1]
    <3>1. j \in 1 .. k + n + 1 /\ j <= k + 1
      BY <1>6, <1>60
    <3> QED
      BY <1>6, <2>2, <3>1
  <2>6. ASSUME NEW j \in k + 2 .. k + n + 1 PROVE body[j] = data[j - k - 1]
    <3>1. j \in 1 .. k + n + 1 /\ ~(j <= k + 1) /\ j - (k + 1) = j - k - 1
      BY <1>6, <1>60
    <3> QED
      BY <2>2, <3>1
  <2> QED
    BY <2>1, <2>3, <2>4, <2>5, <2>6
<1> HIDE DEF body
<1>8. /\ m \in Seq(AnyByte) /\ Len(m) = Len(body) + 2
      /\ \A i \in 1 .. Len(body) + 2 : m[i] = IF i <= Len(body) THEN body[i] ELSE end[i - Len(body)]
  <2>1. m = body \o end /\ body \in Seq(AnyByte) /\ end \in Seq(AnyByte) /\ Len(end) = 2
    BY <1>3, <1>5, <1>7
  <2>2. /\ body \o end \in Seq(AnyByte) /\ Len(body \o end) = Len(body) + Len(end)
        /\ \A i \in 1 .. Len(body) + Len(end) :
               (body \o end)[i] = IF i <= Len(body) THEN body[i] ELSE end[i - Len(body)]
    BY ONLY <2>1, ConcatProperties
  <2> QED
    BY ONLY <2>1, <2>2
<1> HIDE DEF k, n
<1>9. m[Len(m)] = fl /\ m[Len(m) - 1] = chk
  <2> DEFINE l == Len(body)
  <2>1. l \in Nat
    BY <1>6, <1>60, <1>7
  <2>2. \A i \in 1 .. l + 2 : m[i] = IF i <= l THEN body[i] ELSE end[i - l]
    BY <1>8
  <2>3. Len(m) = l + 2
    BY <1>8
  <2> HIDE DEF l
  <2>4. l + 2 \in 1 .. l + 2 /\ ~(l + 2 <= l) /\ (l + 2) - l = 2
        /\ l + 1 \in 1 .. l + 2 /\ ~(l + 1 <= l) /\ (l + 1) - l = 1 /\ Len(m) - 1 = l + 1
    BY <2>1, <2>3
  <2>5. m[l + 2] = end[2] /\ m[l + 1] = end[1]
    BY <2>2, <2>4
  <2> QED
    BY <1>3, <2>3, <2>4, <2>5
<1>10. \A i \in 1 .. Len(body) : m[i] = body[i]
  BY <1>6, <1>60, <1>7, <1>8
<1>11. /\ m[1] = fl /\ \A j \in 2 .. k + 1 : m[j] = h[j - 1]
       /\ \A j \in k + 2 .. k + n + 1 : m[j] = data[j - k - 1]
  <2>1. /\ 1 \in 1 .. Len(body)
        /\ \A j \in 2 .. k + 1 : j \in 1 .. Len(body)
        /\ \A j \in k + 2 .. k + n + 1 : j \in 1 .. Len(body)
    BY <1>6, <1>60, <1>7
  <2> QED
    BY <1>7, <1>10, <2>1
<1>12. Len(m) = k + n + 3
  BY <1>6, <1>60, <1>7, <1>8
<1>13. Layout(m, h, data, chk)
  BY <1>1, <1>8, <1>9, <1>11, <1>12 DEF Layout, k, n
<1> QED
  BY <1>13 DEF m, h, chk

(* b is the code of f if the parser finds f in it, whatever follows, and    *)
(* nothing in a part of it.                                                 *)
IsCode(b, f) ==
    /\ b # <<>> /\ IsFlag(b[1])
    /\ \A t \in Seq(AnyByte) : LET r == b \o t IN
           Complete(r) /\ Sound(r) /\ FrameOf(r) = f /\ FrameEnd(r) = Len(b)
    /\ \A n \in 1 .. Len(b) - 1 : ~Complete(SubSeq(b, 1, n))

FrameCodes == {c \in Seq(AnyByte) \X Frame : IsCode(c[1], c[2])}

(* What the parser reads off the beginning of a frame.                      *)
LEMMA FrameRead ==
    ASSUME NEW h \in Headers, NEW data \in Seq(AnyByte), NEW chk, NEW m,
           Layout(m, h, data, chk), ~IsFlag(h[1]),
           HeaderIn(h).len = Len(data), Len(h) = 4 <=> Val(h[3]) % 2 = 0,
           NEW r \in Seq(AnyByte), r # <<>>,
           \A i \in 1 .. Len(r) : i <= Len(m) => r[i] = m[i]
    PROVE  /\ FrameStart(r) = 2
           /\ Len(r) >= 6 =>
                  /\ LongForm(r) <=> Len(h) = 4
                  /\ InfoStart(r) = 2 + Len(h) /\ InfoLen(r) = Len(data)
           /\ Complete(r) <=> Len(r) >= Len(m)
<1> DEFINE T == {i \in 2 .. Len(r) : ~IsFlag(r[i])} \union {Len(r) + 1}
           k == Len(h)
           n == Len(data)
           l == Len(r)
           e == Len(m)
<1>0. l \in Nat \ {0} /\ n \in Nat /\ k \in {3, 4} /\ e = k + n + 3
  <2>1. k \in {3, 4}
    BY DEF Headers
  <2>2. l \in Nat \ {0} /\ n \in Nat
    OBVIOUS
  <2> QED
    BY <2>1, <2>2 DEF Layout
<1>01. \A j \in 2 .. k + 1 : m[j] = h[j - 1]
  BY DEF Layout
<1>02. \A j \in 1 .. l : j <= e => r[j] = m[j]
  OBVIOUS
<1>03. k = 4 <=> Val(h[3]) % 2 = 0
  OBVIOUS
<1>04. HeaderIn(h).len = n
  OBVIOUS
<1>05. T = {i \in 2 .. l : ~IsFlag(r[i])} \union {l + 1} /\ FrameStart(r) = Min(T)
  BY DEF FrameStart
<1>06. ~IsFlag(h[1])
  OBVIOUS
<1>07. k = Len(h) /\ l = Len(r) /\ e = Len(m) /\ n = Len(data)
  OBVIOUS
<1> HIDE DEF k, n, l, e, T
<1>1. FrameStart(r) = 2
  <2>1. ASSUME l >= 2 PROVE ~IsFlag(r[2])
    <3>1. 2 \in 1 .. l /\ 2 <= e /\ 2 \in 2 .. k + 1 /\ 2 - 1 = 1
      BY <1>0, <2>1
    <3>2. r[2] = m[2] /\ m[2] = h[1]
      BY <1>01, <1>02, <3>1
    <3> QED
      BY <1>06, <3>2
  <2>2. T \in SUBSET Nat /\ T # {} /\ 2 \in T /\ \A i \in T : i >= 2
    BY <1>0, <1>05, <2>1
  <2>3. Min(T) \in T /\ \A y \in T : Min(T) <= y
    BY <2>2, MinIs
  <2> QED
    BY <1>05, <2>2, <2>3
<1>2. ASSUME l >= 6
      PROVE  /\ LongForm(r) <=> k = 4
             /\ InfoStart(r) = 2 + k /\ InfoLen(r) = n
  <2>1. r[4] = h[3]
    <3>1. 4 \in 1 .. l /\ 4 <= e /\ 4 \in 2 .. k + 1 /\ 4 - 1 = 3
      BY <1>0, <1>2
    <3> QED
      BY <1>01, <1>02, <3>1
  <2>2. ASSUME k = 4 PROVE r[5] = h[4]
    <3>1. 5 \in 1 .. l /\ 5 <= e /\ 5 \in 2 .. k + 1 /\ 5 - 1 = 4
      BY <1>0, <1>2, <2>2
    <3> QED
      BY <1>01, <1>02, <3>1
  <2>3. LongForm(r) <=> k = 4
    <3>1. FrameStart(r) + 2 = 4
      BY <1>1
    <3> QED
      BY <1>03, <2>1, <3>1 DEF LongForm
  <2>4. InfoStart(r) = 2 + k
    BY <1>0, <1>1, <2>3 DEF InfoStart
  <2>5. InfoLen(r) = HeaderIn(h).len
    <3>1. FrameStart(r) + 2 = 4 /\ FrameStart(r) + 3 = 5
      BY <1>1
    <3>2. HeaderIn(h).len = Val(h[3]) \div 2 + IF k = 4 THEN Val(h[4]) * LenBase ELSE 0
      BY <1>07 DEF HeaderIn
    <3>3. InfoLen(r) = Val(r[4]) \div 2 + IF LongForm(r) THEN Val(r[5]) * LenBase ELSE 0
      BY <3>1 DEF InfoLen
    <3>4. CASE k = 4
      BY <2>1, <2>2, <2>3, <3>2, <3>3, <3>4
    <3>5. CASE k # 4
      BY <2>1, <2>3, <3>2, <3>3, <3>5
    <3> QED
      BY <3>4, <3>5
  <2> QED
    BY <1>04, <2>3, <2>4, <2>5
<1>3. Complete(r) <=> l >= e
  <2>1. CASE l >= 6
    <3>1. l - FrameStart(r) + 1 >= 5
      BY <1>0, <1>1, <2>1
    <3>2. LongForm(r) => l - FrameStart(r) + 1 >= 6 \/ l = 6
      BY <1>0, <1>1, <2>1
    <3>3. l - InfoStart(r) + 1 >= InfoLen(r) + 2 <=> l >= e
      BY <1>0, <1>2, <2>1
    <3>4. LongForm(r) /\ l = 6 => ~(l >= e)
      BY <1>0, <1>2, <2>1
    <3> QED
      BY <1>0, <1>07, <1>1, <2>1, <3>1, <3>2, <3>3, <3>4 DEF Complete
  <2>2. CASE ~(l >= 6)
    <3>1. ~(l >= e)
      BY <1>0, <2>2
    <3>2. ~(l - FrameStart(r) + 1 >= 5)
      BY <1>0, <1>1, <2>2
    <3> QED
      BY <1>07, <3>1, <3>2 DEF Complete
  <2> QED
    BY <2>1, <2>2
<1> QED
  BY <1>07, <1>1, <1>2, <1>3

LEMMA MakeFrameIsCode ==
    ASSUME NEW dlci \in Nat, NEW cr \in {0, 1}, NEW ctrl \in Byte,
           3 + 4 * dlci < 2 * LenBase, Flag # Val(Address(dlci, cr)),
           NEW data \in Seq(AnyByte), Len(data) < 2 * LenBase * LenBase, NEW v \in Byte
    PROVE  LET m == MakeFrame(dlci, cr, ctrl, data, v)
               f == [dlci |-> dlci, info |-> data]
           IN  m \in Seq(AnyByte) /\ f \in Frame /\ <<m, f>> \in FrameCodes
<1> DEFINE h == HeaderFor(dlci, cr, ctrl, Len(data))
           m == MakeFrame(dlci, cr, ctrl, data, v)
           f == [dlci |-> dlci, info |-> data]
           chk == Check(v, h)
           n == Len(data)
<1>1. /\ h \in Headers /\ h \in Seq(PlainByte)
      /\ HeaderIn(h) = [dlci |-> dlci, len |-> n]
      /\ h[1] = Address(dlci, cr) /\ (Len(h) = 4 <=> Val(h[3]) % 2 = 0)
  <2>1. Len(data) \in Nat
    OBVIOUS
  <2> QED
    BY <2>1, HeaderBack
<1>2. chk \in AnyByte
  BY <1>1 DEF AnyByte
<1>3. Layout(m, h, data, chk)
  BY <1>1, <1>2, MakeFrameLayout
<1>4. f \in Frame
  <2>1. dlci \in Byte
    BY FramesAssumption DEF Byte
  <2> QED
    BY <2>1 DEF Frame
<1>5. ~IsFlag(h[1])
  BY <1>1 DEF IsFlag
<1>6. Fits(chk, h)
  BY DEF Fits, Check
<1>7. HeaderIn(h).len = n /\ HeaderIn(h).dlci = dlci
  BY <1>1
<1>8. HeaderIn(h).dlci = Val(h[1]) \div 4
  BY DEF HeaderIn
<1> HIDE DEF h, m, chk
<1>9. /\ Len(h) \in {3, 4} /\ n \in Nat /\ Len(m) = Len(h) + n + 3 /\ m \in Seq(AnyByte)
      /\ IsFlag(m[1]) /\ IsFlag(m[Len(m)]) /\ m[Len(m) - 1] = chk
      /\ \A j \in 2 .. Len(h) + 1 : m[j] = h[j - 1]
      /\ \A j \in Len(h) + 2 .. Len(h) + n + 1 : m[j] = data[j - Len(h) - 1]
  BY <1>1, <1>3 DEF Layout, Headers
<1>90. Len(m) \in Nat /\ Len(m) >= 6 /\ Len(h) + 1 \in Nat /\ Len(h) + 1 >= 2
  <2> DEFINE k == Len(h)
             e == Len(m)
  <2>1. k \in {3, 4} /\ n \in Nat /\ e = k + n + 3
    BY <1>9
  <2> HIDE DEF k, e, n
  <2>2. e \in Nat /\ e >= 6 /\ k + 1 \in Nat /\ k + 1 >= 2
    BY <2>1
  <2> QED
    BY <2>2 DEF k, e
<1>10. ASSUME NEW t \in Seq(AnyByte)
       PROVE  LET r == m \o t IN
              Complete(r) /\ Sound(r) /\ FrameOf(r) = f /\ FrameEnd(r) = Len(m)
  <2> DEFINE r == m \o t
  <2>1. /\ r \in Seq(AnyByte) /\ Len(r) = Len(m) + Len(t) /\ Len(t) \in Nat /\ Len(m) \in Nat
        /\ \A i \in 1 .. Len(m) + Len(t) : r[i] = IF i <= Len(m) THEN m[i] ELSE t[i - Len(m)]
    BY <1>9, ConcatProperties, LenProperties
  <2> HIDE DEF r
  <2>2. r # <<>> /\ Len(r) >= 6 /\ Len(r) >= Len(m) /\ \A i \in 1 .. Len(m) : r[i] = m[i]
    <3>1. \A i \in 1 .. Len(m) : r[i] = m[i]
      BY <2>1
    <3>2. Len(r) >= 6 /\ Len(r) >= Len(m)
      BY <1>90, <2>1
    <3>3. r # <<>>
      BY <3>2
    <3> QED
      BY <3>1, <3>2, <3>3
  <2>3. /\ FrameStart(r) = 2 /\ InfoStart(r) = 2 + Len(h) /\ InfoLen(r) = n /\ Complete(r)
    <3>1. \A i \in 1 .. Len(r) : i <= Len(m) => r[i] = m[i]
      BY <2>1
    <3> QED
      BY <1>1, <1>3, <1>5, <1>7, <2>1, <2>2, <3>1, FrameRead
  <2>4. FrameEnd(r) = Len(m) /\ FrameEnd(r) - 2 = 1 + Len(h) + n /\ InfoStart(r) - 1 = 1 + Len(h)
    BY <1>9, <2>3 DEF FrameEnd
  <2>5. SubSeq(r, 2, 1 + Len(h)) = h
    <3> DEFINE u == SubSeq(r, 2, 1 + Len(h))
               k == Len(h)
    <3>1. u \in Seq(AnyByte) /\ Len(u) = k /\ \A i \in 1 .. k : u[i] = r[2 + i - 1]
      <4>1. 2 \in 1 .. Len(r) + 1 /\ k + 1 \in 1 .. Len(r) /\ k + 1 - 2 + 1 = k
        BY <1>9, <2>2
      <4> DEFINE c == k + 1
      <4>2. c \in 1 .. Len(r) /\ c - 2 + 1 = k /\ 2 \in 1 .. Len(r) + 1 /\ r \in Seq(AnyByte)
        BY <2>1, <4>1
      <4>3. c = 1 + Len(h)
        BY <1>9
      <4> HIDE DEF c, k
      <4>4. LET z == SubSeq(r, 2, c) IN z \in Seq(AnyByte) /\ Len(z) = k /\ \A i \in 1 .. k : z[i] = r[2 + i - 1]
        BY <4>2, SMTT(30)
      <4> QED
        BY <4>3, <4>4
    <3>2. ASSUME NEW i \in 1 .. k PROVE u[i] = h[i]
      <4>1. 2 + i - 1 \in 1 .. Len(m) /\ 2 + i - 1 \in 2 .. k + 1 /\ (2 + i - 1) - 1 = i
        BY <1>9
      <4>2. r[2 + i - 1] = m[2 + i - 1] /\ m[2 + i - 1] = h[i]
        BY <1>9, <2>2, <4>1
      <4> QED
        BY <3>1, <4>2
    <3>4. h \in Seq(AnyByte)
      <4>1. PlainByte \subseteq AnyByte
        BY ByteIs
      <4> QED
        BY <1>1, <4>1
    <3> HIDE DEF u
    <3>5. u = h
      BY <3>1, <3>2, <3>4, SeqEqual
    <3> QED
      BY <3>5 DEF u
  <2>6. Sound(r)
    <3>1. r[Len(m)] = m[Len(m)] /\ r[Len(m) - 1] = m[Len(m) - 1]
      BY <1>9, <2>2
    <3> QED
      BY <1>6, <1>9, <2>3, <2>4, <2>5, <3>1 DEF Sound
  <2>7. FrameOf(r) = f
    <3>1. Val(r[2]) \div 4 = dlci
      <4>1. r[2] = h[1]
        <5>2. 2 \in 1 .. Len(m) /\ 2 \in 2 .. Len(h) + 1 /\ 2 - 1 = 1
          BY <1>90
        <5> QED
          BY <1>9, <2>2, <5>2
      <4> QED
        BY <1>7, <1>8, <4>1
    <3>2. SubSeq(r, 2 + Len(h), 1 + Len(h) + n) = data
      <4> DEFINE k == Len(h)
                 u == SubSeq(r, 2 + k, 1 + k + n)
      <4>1. u \in Seq(AnyByte) /\ Len(u) = n /\ \A i \in 1 .. n : u[i] = r[2 + k + i - 1]
        <5>1. 2 + k \in 1 .. Len(r) + 1 /\ 1 + k + n \in 0 .. Len(r) /\ 1 + k + n - (2 + k) + 1 = n
          BY <1>9, <2>2
        <5> QED
          BY <1>9, <2>1, <5>1, SMTT(30)
      <4>2. ASSUME NEW i \in 1 .. n PROVE u[i] = data[i]
        <5>1. 2 + k + i - 1 \in 1 .. Len(m) /\ 2 + k + i - 1 \in k + 2 .. k + n + 1
              /\ (2 + k + i - 1) - k - 1 = i
          BY <1>9
        <5>2. r[2 + k + i - 1] = m[2 + k + i - 1] /\ m[2 + k + i - 1] = data[i]
          BY <1>9, <2>2, <5>1
        <5> QED
          BY <4>1, <5>2
      <4> HIDE DEF u
      <4>3. u = data
        BY <1>9, <4>1, <4>2, SeqEqual
      <4> QED
        BY <4>3 DEF u
    <3>3. FrameOf(r) = [dlci |-> Val(r[2]) \div 4, info |-> SubSeq(r, 2 + Len(h), 1 + Len(h) + n)]
      BY <2>3, <2>4 DEF FrameOf
    <3> QED
      BY <3>1, <3>2, <3>3
  <2> QED
    BY <2>3, <2>4, <2>6, <2>7 DEF r
<1>11. ASSUME NEW k \in 1 .. Len(m) - 1 PROVE ~Complete(SubSeq(m, 1, k))
  <2> DEFINE r == SubSeq(m, 1, k)
  <2>1. r \in Seq(AnyByte) /\ Len(r) = k /\ \A i \in 1 .. k : r[i] = m[i]
    BY <1>9
  <2> HIDE DEF r
  <2>2. r # <<>> /\ ~(Len(r) >= Len(m))
    BY <1>9, <2>1
  <2>3. \A i \in 1 .. Len(r) : i <= Len(m) => r[i] = m[i]
    BY <2>1
  <2>4. Complete(r) <=> Len(r) >= Len(m)
    BY <1>1, <1>3, <1>5, <1>7, <2>1, <2>2, <2>3, FrameRead
  <2> QED
    BY <2>2, <2>4 DEF r
<1>12. m # <<>>
  BY <1>9
<1> HIDE DEF f
<1>13. IsCode(m, f)
  BY <1>9, <1>10, <1>11, <1>12 DEF IsCode
<1>14. <<m, f>> \in FrameCodes
  BY <1>4, <1>9, <1>13 DEF FrameCodes
<1> QED
  BY <1>4, <1>9, <1>14 DEF m, f

-----------------------------------------------------------------------------
(* Two ways to cut one sequence.                                            *)

(* What r is of a sequence that begins with b, when r is its beginning too. *)
Follows(S, r, b, t, w) == \E u \in Seq(S) : r = b \o u /\ t = u \o w

LEMMA Overlap ==
    ASSUME NEW S, NEW r \in Seq(S), NEW w \in Seq(S), NEW b \in Seq(S), NEW t \in Seq(S),
           r \o w = b \o t
    PROVE  /\ Len(r) <= Len(b) => r = SubSeq(b, 1, Len(r))
           /\ Len(r) + Len(w) = Len(b) + Len(t)
           /\ Len(r) >= Len(b) => Follows(S, r, b, t, w)
<1> DEFINE k == Len(r)
           n == Len(b)
           l == Len(w)
           e == Len(t)
           a == r \o w
           c == b \o t
<1>1. /\ k \in Nat /\ n \in Nat /\ l \in Nat /\ e \in Nat
      /\ \A i \in 1 .. k : r[i] \in S
      /\ \A i \in 1 .. l : w[i] \in S
  BY LenProperties, ElementOfSeq
<1>2. a \in Seq(S) /\ Len(a) = k + l /\ \A i \in 1 .. k + l : a[i] = IF i <= k THEN r[i] ELSE w[i - k]
  BY ConcatProperties
<1>3. c \in Seq(S) /\ Len(c) = n + e /\ \A i \in 1 .. n + e : c[i] = IF i <= n THEN b[i] ELSE t[i - n]
  BY ConcatProperties
<1>4. a = c
  OBVIOUS
<1>5. k = Len(r) /\ n = Len(b) /\ l = Len(w) /\ e = Len(t)
  OBVIOUS
<1> HIDE DEF a, c, k, n, l, e
<1>6. k + l = n + e
  BY <1>2, <1>3, <1>4
<1>7. ASSUME NEW i \in 1 .. k, i <= n PROVE r[i] = b[i]
  <2>1. i \in 1 .. k + l /\ i \in 1 .. n + e /\ i <= k
    BY <1>1, <1>6, <1>7
  <2>2. a[i] = r[i] /\ c[i] = b[i]
    BY <1>2, <1>3, <1>7, <2>1
  <2> QED
    BY <1>4, <2>2
<1>8. ASSUME k <= n PROVE r = SubSeq(b, 1, k)
  <2> DEFINE z == SubSeq(b, 1, k)
  <2>1. z \in Seq(S) /\ Len(z) = k /\ \A i \in 1 .. k : z[i] = b[i]
    <3>1. k \in 0 .. Len(b) /\ b \in Seq(S)
      BY <1>1, <1>5, <1>8
    <3> QED
      BY <3>1
  <2>2. \A i \in 1 .. k : z[i] = r[i]
    BY <1>1, <1>7, <1>8, <2>1
  <2> HIDE DEF z
  <2>3. r = z
    BY <1>5, <2>1, <2>2, SeqEqual
  <2> QED
    BY <2>3 DEF z
<1>9. ASSUME k >= n PROVE Follows(S, r, b, t, w)
  <2> DEFINE u == SubSeq(r, n + 1, k)
             d == k - n
             p == b \o u
             q == u \o w
  <2>0. d \in Nat /\ k = n + d /\ e = d + l
    BY <1>1, <1>6, <1>9
  <2>1. u \in Seq(S) /\ Len(u) = d /\ \A i \in 1 .. d : u[i] = r[n + i]
    <3>1. n + 1 \in 1 .. k + 1 /\ k - (n + 1) + 1 = d
      BY <1>1, <1>9
    <3> HIDE DEF d
    <3>2. n + 1 \in Int /\ k \in Int /\ \A i \in n + 1 .. k : r[i] \in S
      BY <1>1
    <3>3. u \in Seq(S) /\ Len(u) = (IF n + 1 <= k THEN k - (n + 1) + 1 ELSE 0)
          /\ \A i \in 1 .. k - (n + 1) + 1 : u[i] = r[n + 1 + i - 1]
      BY <3>2, SubSeqProperties, SMTT(20)
    <3>4. Len(u) = d
      BY <1>1, <1>9, <2>0, <3>1, <3>3
    <3>5. \A i \in 1 .. d : n + 1 + i - 1 = n + i
      BY <1>1
    <3> HIDE DEF u
    <3> QED
      BY <3>1, <3>3, <3>4, <3>5
  <2> HIDE DEF u, d
  <2>2. p \in Seq(S) /\ Len(p) = n + d /\ \A i \in 1 .. n + d : p[i] = IF i <= n THEN b[i] ELSE u[i - n]
    <3>1. p \in Seq(S) /\ Len(p) = Len(b) + Len(u)
          /\ \A i \in 1 .. Len(b) + Len(u) : p[i] = IF i <= Len(b) THEN b[i] ELSE u[i - Len(b)]
      BY <2>1, ConcatProperties
    <3> HIDE DEF p
    <3> QED
      BY <1>5, <2>1, <3>1
  <2>3. q \in Seq(S) /\ Len(q) = d + l /\ \A i \in 1 .. d + l : q[i] = IF i <= d THEN u[i] ELSE w[i - d]
    <3>1. q \in Seq(S) /\ Len(q) = Len(u) + Len(w)
          /\ \A i \in 1 .. Len(u) + Len(w) : q[i] = IF i <= Len(u) THEN u[i] ELSE w[i - Len(u)]
      BY <2>1, ConcatProperties
    <3> HIDE DEF q
    <3> QED
      BY <1>5, <2>1, <3>1
  <2>4. p = b \o u /\ q = u \o w
    OBVIOUS
  <2> HIDE DEF p, q
  <2>5. r = p
    <3>1. ASSUME NEW i \in 1 .. n + d PROVE p[i] = r[i]
      <4>1. CASE i <= n
        <5>1. i \in 1 .. k
          BY <1>1, <2>0
        <5> QED
          BY <1>7, <2>2, <4>1, <5>1
      <4>2. CASE ~(i <= n)
        <5>1. i - n \in 1 .. d /\ n + (i - n) = i
          BY <1>1, <2>0, <4>2
        <5> QED
          BY <2>1, <2>2, <4>2, <5>1
      <4> QED
        BY <4>1, <4>2
    <3>2. Len(r) = n + d
      BY <1>5, <2>0
    <3> QED
      BY <2>2, <3>1, <3>2, SeqEqual
  <2>6. t = q
    <3>1. ASSUME NEW i \in 1 .. d + l PROVE q[i] = t[i]
      <4>1. n + i \in 1 .. k + l /\ n + i \in 1 .. n + e /\ ~(n + i <= n) /\ (n + i) - n = i
        BY <1>1, <1>6, <2>0
      <4>2. c[n + i] = t[i]
        BY <1>3, <4>1
      <4>3. CASE i <= d
        <5>1. n + i <= k /\ i \in 1 .. d
          BY <1>1, <2>0, <4>3
        <5>2. a[n + i] = r[n + i] /\ q[i] = u[i] /\ u[i] = r[n + i]
          BY <1>2, <2>1, <2>3, <4>1, <4>3, <5>1
        <5> QED
          BY <1>4, <4>2, <5>2
      <4>4. CASE ~(i <= d)
        <5>1. ~(n + i <= k) /\ (n + i) - k = i - d
          BY <1>1, <2>0, <4>4
        <5>2. a[n + i] = w[i - d] /\ q[i] = w[i - d]
          BY <1>2, <2>3, <4>1, <4>4, <5>1
        <5> QED
          BY <1>4, <4>2, <5>2
      <4> QED
        BY <4>3, <4>4
    <3>2. Len(t) = d + l
      BY <1>5, <2>0
    <3> QED
      BY <2>3, <3>1, <3>2, SeqEqual
  <2> QED
    BY <2>1, <2>4, <2>5, <2>6 DEF Follows
<1> QED
  BY <1>5, <1>6, <1>8, <1>9

-----------------------------------------------------------------------------
(* FrameParser on what was sent.                                            *)

(* A code of f is found at once when it is there, and waited for when only  *)
(* a part of it is.                                                         *)
LEMMA CodeFirst ==
    ASSUME NEW b \in Seq(AnyByte), NEW g \in Frame, <<b, g>> \in FrameCodes,
           NEW r \in Seq(AnyByte), r # <<>>, NEW w \in Seq(AnyByte), NEW t \in Seq(AnyByte),
           r \o w = b \o t
    PROVE  /\ IsFlag(r[1])
           /\ Len(r) < Len(b) => ~Complete(r) /\ w # <<>>
           /\ Len(r) >= Len(b) =>
                  /\ Complete(r) /\ Sound(r) /\ FrameOf(r) = g /\ FrameEnd(r) = Len(b)
                  /\ \E u \in Seq(AnyByte) : r = b \o u /\ t = u \o w
<1>1. IsCode(b, g)
  BY DEF FrameCodes
<1>2. Len(r) \in Nat \ {0} /\ Len(b) \in Nat \ {0} /\ Len(w) \in Nat /\ Len(t) \in Nat
  <2>1. b # <<>>
    BY <1>1 DEF IsCode
  <2> QED
    BY <2>1
<1>3. /\ Len(r) <= Len(b) => r = SubSeq(b, 1, Len(r))
      /\ Len(r) + Len(w) = Len(b) + Len(t)
      /\ Len(r) >= Len(b) => Follows(AnyByte, r, b, t, w)
  <2>1. /\ r \in Seq(AnyByte) /\ w \in Seq(AnyByte) /\ b \in Seq(AnyByte) /\ t \in Seq(AnyByte)
        /\ r \o w = b \o t
    OBVIOUS
  <2> QED
    BY ONLY <2>1, Overlap
<1>4. ASSUME Len(r) < Len(b) PROVE ~Complete(r) /\ w # <<>> /\ r[1] = b[1]
  <2>1. r = SubSeq(b, 1, Len(r)) /\ Len(r) \in 1 .. Len(b) - 1
    BY <1>2, <1>3, <1>4
  <2>2. ~Complete(SubSeq(b, 1, Len(r)))
    BY <1>1, <2>1 DEF IsCode
  <2>3. Len(w) # 0
    BY <1>2, <1>3, <1>4
  <2>4. w # <<>>
    BY <2>3
  <2> DEFINE n == Len(r)
  <2>5. SubSeq(b, 1, n)[1] = b[1]
    <3>1. n \in 1 .. Len(b)
      BY <2>1, <1>2
    <3> HIDE DEF n
    <3> QED
      BY <3>1
  <2> QED
    BY <2>1, <2>2, <2>4, <2>5
<1>5. ASSUME Len(r) >= Len(b)
      PROVE  /\ Complete(r) /\ Sound(r) /\ FrameOf(r) = g /\ FrameEnd(r) = Len(b)
             /\ \E u \in Seq(AnyByte) : r = b \o u /\ t = u \o w
             /\ r[1] = b[1]
  <2>1. PICK u \in Seq(AnyByte) : r = b \o u /\ t = u \o w
    BY <1>3, <1>5 DEF Follows
  <2>2. Complete(b \o u) /\ Sound(b \o u) /\ FrameOf(b \o u) = g /\ FrameEnd(b \o u) = Len(b)
    BY <1>1, <2>1 DEF IsCode
  <2>3. (b \o u)[1] = b[1]
    BY <1>2
  <2> QED
    BY <2>1, <2>2, <2>3
<1>6. IsFlag(b[1])
  BY <1>1 DEF IsCode
<1>7. Len(r) < Len(b) \/ Len(r) >= Len(b)
  BY <1>2
<1>8. IsFlag(r[1])
  BY <1>4, <1>5, <1>6, <1>7
<1> QED
  BY <1>4, <1>5, <1>8

(* res is what the parser makes of the beginning of fs, w is yet to come.   *)
Cleaned(res, w, fs) ==
    /\ res.frames \in Seq(Frame) /\ res.buffer \in Seq(AnyByte)
    /\ \E gs \in Seq(Frame) : fs = res.frames \o gs /\ Encodes(FrameCodes, res.buffer \o w, gs)
    /\ w = <<>> => res.buffer = <<>>

LEMMA CleanedRest ==
    ASSUME NEW r \in Seq(AnyByte), NEW w, NEW fs \in Seq(Frame),
           Encodes(FrameCodes, r \o w, fs), w = <<>> => r = <<>>
    PROVE  Cleaned([buffer |-> r, frames |-> <<>>], w, fs)
<1>1. <<>> \in Seq(Frame) /\ fs = <<>> \o fs
  OBVIOUS
<1> QED
  BY <1>1 DEF Cleaned

LEMMA CleanedMore ==
    ASSUME NEW res, NEW w, NEW fs \in Seq(Frame), fs # <<>>, Cleaned(res, w, Tail(fs))
    PROVE  Cleaned([buffer |-> res.buffer, frames |-> <<Head(fs)>> \o res.frames], w, fs)
<1> DEFINE g == Head(fs)
           one == <<g>>
           new == [buffer |-> res.buffer, frames |-> one \o res.frames]
<1>1. g \in Frame /\ Tail(fs) \in Seq(Frame) /\ fs = one \o Tail(fs) /\ one \in Seq(Frame)
  OBVIOUS
<1>2. res.frames \in Seq(Frame) /\ res.buffer \in Seq(AnyByte) /\ (w = <<>> => res.buffer = <<>>)
  BY DEF Cleaned
<1>3. PICK gs \in Seq(Frame) :
          Tail(fs) = res.frames \o gs /\ Encodes(FrameCodes, res.buffer \o w, gs)
  BY DEF Cleaned
<1> HIDE DEF one
<1>4. one \o res.frames \in Seq(Frame)
  BY <1>1, <1>2
<1>5. fs = (one \o res.frames) \o gs
  <2> DEFINE rf == res.frames
  <2>1. one \in Seq(Frame) /\ rf \in Seq(Frame) /\ gs \in Seq(Frame)
    BY <1>1, <1>2, <1>3
  <2>3. fs = one \o (rf \o gs)
    BY <1>1, <1>3
  <2> HIDE DEF rf
  <2>2. (one \o rf) \o gs = one \o (rf \o gs)
    BY ONLY <2>1, Assoc, SMTT(30)
  <2>4. fs = (one \o rf) \o gs
    BY <2>2, <2>3
  <2> QED
    BY <2>4 DEF rf
<1>6. new.buffer = res.buffer /\ new.frames = one \o res.frames
  OBVIOUS
<1> HIDE DEF new
<1>7. Cleaned(new, w, fs)
  BY <1>2, <1>3, <1>4, <1>5, <1>6 DEF Cleaned
<1> QED
  BY <1>7 DEF new, one

LEMMA ParseCleanAt ==
    ASSUME NEW x \in Seq(AnyByte), NEW w \in Seq(AnyByte),
           NEW f, \A i \in 1 .. Len(x) + 1 : f[i] = ParseFrom(x, f, i),
           NEW k \in 1 .. Len(x) + 1, NEW fs \in Seq(Frame),
           Encodes(FrameCodes, SubSeq(x, k, Len(x)) \o w, fs)
    PROVE  Cleaned(f[k], w, fs)
<1> DEFINE l == Len(x)
           n == l + 1
           from(i) == SubSeq(x, i, l)
<1>1. \A i \in 1 .. n : f[i] = ParseFrom(x, f, i)
  OBVIOUS
<1> DEFINE P == {i \in 1 .. n : \A gs \in Seq(Frame) :
                     Encodes(FrameCodes, from(i) \o w, gs) => Cleaned(f[i], w, gs)}
<1>0. l \in Nat /\ n \in Nat /\ n = l + 1 /\ l = Len(x)
  OBVIOUS
<1>2. ASSUME NEW i \in 1 .. n, i + 1 .. n \subseteq P PROVE i \in P
  <2> SUFFICES ASSUME NEW gs \in Seq(Frame), Encodes(FrameCodes, from(i) \o w, gs)
               PROVE  Cleaned(f[i], w, gs)
    OBVIOUS
  <2> DEFINE r == from(i)
  <2>1. /\ r \in Seq(AnyByte) /\ Len(r) = l - i + 1 /\ Len(r) \in Nat
        /\ \A j \in 1 .. Len(r) : r[j] = x[i + j - 1]
    <3>1. i \in 1 .. Len(x) + 1 /\ l = Len(x) /\ l \in Nat
      BY <1>0
    <3> HIDE DEF l, n
    <3>2. i \in Int /\ l \in Int /\ \A j \in i .. l : x[j] \in AnyByte
      BY <3>1
    <3>3. r \in Seq(AnyByte) /\ Len(r) = (IF i <= l THEN l - i + 1 ELSE 0)
          /\ \A j \in 1 .. l - i + 1 : r[j] = x[i + j - 1]
      BY <3>2, SubSeqProperties
    <3> HIDE DEF r
    <3>4. (IF i <= l THEN l - i + 1 ELSE 0) = l - i + 1
      <4>1. i \in Int /\ l \in Int /\ i <= l + 1
        BY <3>1
      <4> QED
        BY ONLY <4>1
    <3> QED
      BY <3>3, <3>4
  <2>2. CASE r = <<>>
    <3>1. i = n
      <4>1. Len(r) = 0
        BY <2>2
      <4> HIDE DEF r, n, l
      <4>2. Len(r) = l - i + 1
        BY <2>1
      <4>3. l \in Nat /\ n = l + 1 /\ i \in 1 .. n
        BY <1>0
      <4> QED
        BY ONLY <4>1, <4>2, <4>3
    <3>2. FlagsFrom(x, i) = {}
      BY <1>0, <3>1 DEF FlagsFrom
    <3>3. f[i] = [buffer |-> r, frames |-> <<>>]
      BY <1>1, <3>2 DEF ParseFrom
    <3>4. Cleaned([buffer |-> r, frames |-> <<>>], w, gs)
      <4>1. Encodes(FrameCodes, r \o w, gs)
        OBVIOUS
      <4> HIDE DEF r
      <4> QED
        BY <2>1, <2>2, <4>1, CleanedRest
    <3> QED
      BY <3>3, <3>4
  <2>3. CASE r # <<>>
    <3>1. r \o w # <<>> /\ i \in 1 .. l
      <4> HIDE DEF r, l, n
      <4>1. Len(r) > 0
        BY <2>1, <2>3
      <4>2. i \in 1 .. l
        BY <1>0, <2>1, <4>1
      <4>3. Len(r \o w) = Len(r) + Len(w) /\ Len(w) \in Nat
        <5>1. r \in Seq(AnyByte) /\ w \in Seq(AnyByte)
          BY <2>1
        <5> QED
          BY ONLY <5>1, ConcatProperties, LenProperties
      <4>4. Len(r \o w) # 0
        BY <2>1, <4>1, <4>3
      <4> QED
        BY <4>2, <4>4
    <3>2. Encodes(FrameCodes, r \o w, gs)
      OBVIOUS
    <3> HIDE DEF r
    <3>3. gs # <<>>
      BY <3>1, <3>2, EncodesNone
    <3>4. /\ Head(gs) \in Frame /\ Tail(gs) \in Seq(Frame)
          /\ Begins(FrameCodes, r \o w, Head(gs), Tail(gs))
      BY <3>2, <3>3, EncodesFirst
    <3>5. PICK b \in Seq(AnyByte), t \in Seq(AnyByte) :
              r \o w = b \o t /\ <<b, Head(gs)>> \in FrameCodes /\ Encodes(FrameCodes, t, Tail(gs))
      BY <3>4 DEF Begins
    <3>6. /\ IsFlag(r[1])
          /\ Len(r) < Len(b) => ~Complete(r) /\ w # <<>>
          /\ Len(r) >= Len(b) =>
                 /\ Complete(r) /\ Sound(r) /\ FrameOf(r) = Head(gs) /\ FrameEnd(r) = Len(b)
                 /\ \E u \in Seq(AnyByte) : r = b \o u /\ t = u \o w
      BY <2>1, <2>3, <3>4, <3>5, CodeFirst
    <3>7. FlagsFrom(x, i) # {} /\ RestFrom(x, i) = r
      <4> DEFINE F == FlagsFrom(x, i)
      <4>1. i \in F /\ F \in SUBSET Nat /\ \A p \in F : i <= p
        <5>1. r[1] = x[i + 1 - 1] /\ i + 1 - 1 = i
          <6>1. 1 \in 1 .. Len(r)
            BY <2>1, <2>3
          <6> QED
            BY <1>0, <2>1, <6>1
        <5>2. IsFlag(x[i])
          BY <3>6, <5>1
        <5> QED
          BY <1>0, <3>1, <5>2 DEF FlagsFrom
      <4> HIDE DEF F
      <4>2. Min(F) = i
        <5>1. Min(F) \in F /\ Min(F) <= i
          BY <4>1, MinIs
        <5>2. Min(F) \in Nat /\ i <= Min(F)
          BY <4>1, <5>1
        <5> QED
          BY <1>0, <5>1, <5>2
      <4>3. F # {}
        BY <4>1
      <4> QED
        BY <4>2, <4>3 DEF F, RestFrom, r
    <3>8. CASE Len(r) < Len(b)
      <4>1. f[i] = [buffer |-> r, frames |-> <<>>]
        BY <1>1, <3>6, <3>7, <3>8 DEF ParseFrom
      <4>2. Cleaned([buffer |-> r, frames |-> <<>>], w, gs)
        BY <2>1, <3>2, <3>6, <3>8, CleanedRest
      <4> QED
        BY <4>1, <4>2
    <3>9. CASE ~(Len(r) < Len(b))
      <4>1. Len(b) \in Nat \ {0} /\ Len(r) >= Len(b)
        <5>1. b # <<>>
          BY <3>5 DEF FrameCodes, IsCode
        <5> QED
          BY <2>1, <3>9, <5>1
      <4>2. Complete(r) /\ Sound(r) /\ FrameOf(r) = Head(gs) /\ FrameEnd(r) = Len(b)
        BY <3>6, <4>1
      <4>3. PICK u \in Seq(AnyByte) : r = b \o u /\ t = u \o w
        BY <3>6, <4>1
      <4> DEFINE m == NextFrom(x, i)
      <4>4. m \in i + 1 .. n /\ m = i + Len(b)
        <5>1. m \in i + 1 .. n
          BY <3>7, <4>2, RestIs
        <5>2. m = Min(FlagsFrom(x, i)) + FrameEnd(r)
          BY <3>7 DEF NextFrom
        <5>3. Min(FlagsFrom(x, i)) = i
          <6>1. Len(r) = l - Min(FlagsFrom(x, i)) + 1 /\ Min(FlagsFrom(x, i)) \in i .. l
            BY <3>7, RestIs
          <6> HIDE DEF l
          <6> QED
            BY <1>0, <2>1, <6>1, SMTT(20)
        <5> QED
          BY <4>2, <5>1, <5>2, <5>3
      <4> HIDE DEF m
      <4>5. from(m) = u
        <5> DEFINE z == from(m)
        <5>1. /\ z \in Seq(AnyByte) /\ Len(z) = l - m + 1
              /\ \A j \in 1 .. l - m + 1 : z[j] = x[m + j - 1]
          <6>1. m \in 1 .. l + 1 /\ l = Len(x) /\ l \in Nat
            BY <1>0, <4>4
          <6> HIDE DEF l, n
          <6>2. m \in Int /\ l \in Int /\ \A j \in m .. l : x[j] \in AnyByte
            BY <6>1
          <6>3. z \in Seq(AnyByte) /\ Len(z) = (IF m <= l THEN l - m + 1 ELSE 0)
                /\ \A j \in 1 .. l - m + 1 : z[j] = x[m + j - 1]
            BY <6>2, SubSeqProperties
          <6> HIDE DEF z
          <6>4. (IF m <= l THEN l - m + 1 ELSE 0) = l - m + 1
            <7>1. m \in Int /\ l \in Int /\ m <= l + 1
              BY <6>1
            <7> QED
              BY ONLY <7>1
          <6> QED
            BY <6>3, <6>4
        <5> HIDE DEF z, l, n
        <5>2. /\ Len(r) = Len(b) + Len(u) /\ Len(u) \in Nat /\ Len(b) \in Nat
              /\ \A j \in 1 .. Len(b) + Len(u) : r[j] = IF j <= Len(b) THEN b[j] ELSE u[j - Len(b)]
          BY <4>3, ConcatProperties, LenProperties
        <5>200. Len(r) = l - i + 1 /\ l \in Nat
          BY <1>0, <2>1
        <5>201. Len(r) = Len(b) + Len(u) /\ Len(b) \in Nat /\ Len(u) \in Nat
          <6>1. r = b \o u
            BY <4>3
          <6>2. Len(b \o u) = Len(b) + Len(u)
            BY ConcatProperties
          <6> QED
            BY <5>2, <6>1, <6>2
        <5>202. m = i + Len(b) /\ i \in Nat
          BY <1>0, <4>4
        <5>203. Len(z) = l - m + 1
          BY <5>1
        <5>20. /\ Len(r) = l - i + 1 /\ Len(r) = Len(b) + Len(u) /\ m = i + Len(b) /\ Len(z) = l - m + 1
               /\ l \in Nat /\ i \in Nat /\ Len(b) \in Nat /\ Len(u) \in Nat
          BY <5>200, <5>201, <5>202, <5>203
        <5>3. Len(z) = Len(u) /\ l - m + 1 = Len(u)
          <6>1. l - i + 1 = Len(b) + Len(u)
            BY <5>20
          <6>2. l - (i + Len(b)) + 1 = Len(u)
            BY <5>200, <5>201, <5>202, <6>1
          <6>3. l - m + 1 = Len(u)
            BY <5>202, <6>2
          <6> QED
            BY <5>203, <6>3
        <5>4. ASSUME NEW j \in 1 .. Len(u) PROVE z[j] = u[j]
          <6> DEFINE p == Len(b) + j
          <6>1. p \in 1 .. Len(b) + Len(u) /\ ~(p <= Len(b)) /\ p - Len(b) = j /\ p \in 1 .. Len(r)
                /\ i + p - 1 = m + j - 1 /\ j \in 1 .. l - m + 1
            <7>1. j \in 1 .. Len(u)
              OBVIOUS
            <7> QED
              BY ONLY <5>20, <5>3, <7>1, SMTT(30) DEF p
          <6> HIDE DEF p
          <6>2. r[p] = u[j] /\ r[p] = x[i + p - 1]
            BY <2>1, <5>2, <6>1
          <6> QED
            BY <5>1, <6>1, <6>2
        <5>5. z = u
          BY <5>1, <5>3, <5>4, SeqEqual
        <5> QED
          BY <5>5 DEF z
      <4>6. Cleaned(f[m], w, Tail(gs))
        <5>1. m \in P
          BY <1>2, <4>4
        <5>2. Encodes(FrameCodes, from(m) \o w, Tail(gs))
          BY <3>5, <4>3, <4>5
        <5> HIDE DEF from
        <5> QED
          BY <3>4, <5>1, <5>2
      <4>7. f[i] = [buffer |-> f[m].buffer, frames |-> <<Head(gs)>> \o f[m].frames]
        BY <1>1, <3>7, <4>2 DEF ParseFrom, m
      <4>8. Cleaned([buffer |-> f[m].buffer, frames |-> <<Head(gs)>> \o f[m].frames], w, gs)
        <5> DEFINE y == f[m]
        <5>1. Cleaned(y, w, Tail(gs))
          BY <4>6
        <5> HIDE DEF y
        <5>2. Cleaned([buffer |-> y.buffer, frames |-> <<Head(gs)>> \o y.frames], w, gs)
          BY <3>3, <5>1, CleanedMore
        <5> QED
          BY <5>2 DEF y
      <4> QED
        BY <4>7, <4>8
    <3> QED
      BY <3>8, <3>9
  <2> QED
    BY <2>2, <2>3
<1>3. 1 .. n \subseteq P
  <2> HIDE DEF P, n
  <2> QED
    BY <1>0, <1>2, Downward
<1>4. k \in P
  BY <1>3
<1>5. Encodes(FrameCodes, from(k) \o w, fs)
  OBVIOUS
<1> HIDE DEF from
<1> QED
  BY <1>4, <1>5

LEMMA ParseClean ==
    ASSUME NEW x \in Seq(AnyByte), NEW w \in Seq(AnyByte), NEW fs \in Seq(Frame),
           Encodes(FrameCodes, x \o w, fs)
    PROVE  Cleaned(Parse(x), w, fs)
<1> DEFINE l == Len(x)
           n == l + 1
<1>1. PICK f : (\A i \in 1 .. n : f[i] = ParseFrom(x, f, i)) /\ Parse(x) = f[1]
  BY ParseIs
<1>2. 1 \in 1 .. n /\ SubSeq(x, 1, l) = x
  BY SubSeqFull
<1>3. Encodes(FrameCodes, SubSeq(x, 1, l) \o w, fs)
  BY <1>2
<1>4. Cleaned(f[1], w, fs)
  BY <1>1, <1>2, <1>3, ParseCleanAt
<1> QED
  BY <1>1, <1>4

-----------------------------------------------------------------------------
(* Parts of a sequence.                                                     *)

LEMMA FromIs ==
    ASSUME NEW S, NEW e \in Seq(S), NEW i \in 1 .. Len(e) + 1
    PROVE  LET r == SubSeq(e, i, Len(e)) IN
           /\ r \in Seq(S) /\ Len(r) = Len(e) - i + 1 /\ Len(e) \in Nat
           /\ \A j \in 1 .. Len(e) - i + 1 : r[j] = e[i + j - 1]
<1> DEFINE l == Len(e)
           r == SubSeq(e, i, l)
<1>1. l \in Nat /\ i \in 1 .. l + 1 /\ \A j \in 1 .. l : e[j] \in S
  BY LenProperties, ElementOfSeq
<1> HIDE DEF l
<1>2. i \in Int /\ l \in Int /\ \A j \in i .. l : e[j] \in S
  BY <1>1
<1>3. r \in Seq(S) /\ Len(r) = (IF i <= l THEN l - i + 1 ELSE 0)
      /\ \A j \in 1 .. l - i + 1 : r[j] = e[i + j - 1]
  BY <1>2, SubSeqProperties
<1>4. (IF i <= l THEN l - i + 1 ELSE 0) = l - i + 1
  BY <1>1
<1> HIDE DEF r
<1>5. r \in Seq(S) /\ Len(r) = l - i + 1 /\ l \in Nat /\ \A j \in 1 .. l - i + 1 : r[j] = e[i + j - 1]
  BY <1>1, <1>3, <1>4
<1> QED
  BY <1>5 DEF r, l

(* What follows a part.                                                     *)
LEMMA Skip ==
    ASSUME NEW S, NEW e \in Seq(S), NEW i \in 1 .. Len(e) + 1,
           NEW p \in Seq(S), NEW v \in Seq(S), SubSeq(e, i, Len(e)) = p \o v
    PROVE  /\ i + Len(p) \in i .. Len(e) + 1
           /\ SubSeq(e, i + Len(p), Len(e)) = v
           /\ \A j \in 1 .. Len(p) : i + j - 1 \in 1 .. Len(e) /\ e[i + j - 1] = p[j]
<1> DEFINE l == Len(e)
           n == Len(p)
           k == Len(v)
           m == i + n
           r == SubSeq(e, i, l)
           z == SubSeq(e, m, l)
           pv == p \o v
<1>1. r \in Seq(S) /\ Len(r) = l - i + 1 /\ l \in Nat /\ \A j \in 1 .. l - i + 1 : r[j] = e[i + j - 1]
  BY FromIs
<1>2. /\ pv \in Seq(S) /\ Len(pv) = n + k /\ n \in Nat /\ k \in Nat
      /\ \A j \in 1 .. n + k : pv[j] = IF j <= n THEN p[j] ELSE v[j - n]
  BY ConcatProperties, LenProperties
<1>3. r = pv /\ i \in 1 .. l + 1 /\ n = Len(p) /\ k = Len(v) /\ l = Len(e)
  OBVIOUS
<1> HIDE DEF r, pv, n, k, l
<1>4. l - i + 1 = n + k
  BY <1>1, <1>2, <1>3
<1>5. i \in Nat /\ i >= 1
  BY <1>1, <1>3
<1>6. m \in i .. l + 1 /\ m \in 1 .. l + 1 /\ l - m + 1 = k
  BY <1>1, <1>2, <1>4, <1>5
<1>7. z \in Seq(S) /\ Len(z) = l - m + 1 /\ \A j \in 1 .. l - m + 1 : z[j] = e[m + j - 1]
  <2> HIDE DEF m
  <2> QED
    BY <1>3, <1>6, FromIs
<1>8. m = i + n
  OBVIOUS
<1> HIDE DEF m, z
<1>9. ASSUME NEW j \in 1 .. k PROVE z[j] = v[j]
  <2> DEFINE q == n + j
  <2>1. q \in 1 .. n + k /\ ~(q <= n) /\ q - n = j /\ q \in 1 .. l - i + 1
    BY <1>2, <1>4
  <2>2. i + q - 1 = m + j - 1
    BY <1>2, <1>5, <1>8
  <2> HIDE DEF q
  <2>3. pv[q] = v[j] /\ r[q] = e[i + q - 1]
    BY <1>1, <1>2, <2>1
  <2>4. z[j] = e[m + j - 1]
    BY <1>6, <1>7
  <2> QED
    BY <1>3, <2>2, <2>3, <2>4
<1>10. z = v
  <2>1. Len(z) = Len(v)
    BY <1>3, <1>6, <1>7
  <2>2. \A j \in 1 .. Len(v) : z[j] = v[j]
    BY <1>3, <1>9
  <2> QED
    BY <1>7, <2>1, <2>2, SeqEqual
<1>11. ASSUME NEW j \in 1 .. n PROVE i + j - 1 \in 1 .. l /\ e[i + j - 1] = p[j]
  <2>1. j \in 1 .. n + k /\ j <= n /\ j \in 1 .. l - i + 1 /\ i + j - 1 \in 1 .. l
    BY <1>1, <1>2, <1>4, <1>5
  <2>2. pv[j] = p[j] /\ r[j] = e[i + j - 1]
    BY <1>1, <1>2, <2>1
  <2> QED
    BY <1>3, <2>1, <2>2
<1> QED
  BY <1>3, <1>6, <1>8, <1>10, <1>11 DEF z, l

(* A sequence cut at one of its elements.                                   *)
LEMMA CutAt ==
    ASSUME NEW S, NEW e \in Seq(S), NEW i \in 1 .. Len(e) + 1, NEW a \in i .. Len(e)
    PROVE  LET x == SubSeq(e, i, a - 1)
               u == SubSeq(e, a + 1, Len(e))
           IN  /\ x \in Seq(S) /\ Len(x) = a - i /\ \A j \in 1 .. a - i : x[j] = e[i + j - 1]
               /\ u \in Seq(S) /\ Len(u) = Len(e) - a /\ \A j \in 1 .. Len(e) - a : u[j] = e[a + j]
               /\ SubSeq(e, i, Len(e)) = x \o (<<e[a]>> \o u)
<1> DEFINE l == Len(e)
           x == SubSeq(e, i, a - 1)
           u == SubSeq(e, a + 1, l)
           r == SubSeq(e, i, l)
           one == <<e[a]>>
           y == one \o u
           w == x \o y
           n == a - i
           k == l - a
<1>1. /\ r \in Seq(S) /\ Len(r) = l - i + 1 /\ l \in Nat /\ \A j \in 1 .. l - i + 1 : r[j] = e[i + j - 1]
  BY FromIs
<1>2. \A j \in 1 .. l : e[j] \in S
  BY ElementOfSeq
<1>3. i \in 1 .. l + 1 /\ a \in i .. l /\ l = Len(e)
  OBVIOUS
<1> HIDE DEF l
<1>4. /\ i \in Nat /\ i >= 1 /\ a \in Nat /\ n \in Nat /\ k \in Nat /\ a \in 1 .. l
      /\ a = i + n /\ l = a + k /\ l - i + 1 = n + (1 + k)
  BY <1>1, <1>3
<1>5. x \in Seq(S) /\ Len(x) = n /\ \A j \in 1 .. n : x[j] = e[i + j - 1]
  <2> DEFINE c == a - 1
  <2>1. i \in Int /\ c \in Int /\ c - i + 1 = n /\ \A j \in i .. c : e[j] \in S
    BY <1>1, <1>2, <1>3, <1>4
  <2>2. (IF i <= c THEN c - i + 1 ELSE 0) = n
    BY <1>4
  <2>3. x = SubSeq(e, i, c)
    OBVIOUS
  <2> HIDE DEF c, x, n
  <2>4. x \in Seq(S) /\ Len(x) = (IF i <= c THEN c - i + 1 ELSE 0)
        /\ \A j \in 1 .. c - i + 1 : x[j] = e[i + j - 1]
    BY <2>1, <2>3, SubSeqProperties
  <2> QED
    BY <2>1, <2>2, <2>4
<1>6. u \in Seq(S) /\ Len(u) = k /\ \A j \in 1 .. k : u[j] = e[a + j]
  <2> DEFINE c == a + 1
  <2>1. c \in 1 .. l + 1 /\ l - c + 1 = k /\ \A j \in 1 .. k : c + j - 1 = a + j
    BY <1>1, <1>3, <1>4
  <2>2. u = SubSeq(e, c, l)
    OBVIOUS
  <2> HIDE DEF c, u, k
  <2>3. u \in Seq(S) /\ Len(u) = l - c + 1 /\ \A j \in 1 .. l - c + 1 : u[j] = e[c + j - 1]
    BY <1>3, <2>1, <2>2, FromIs
  <2> QED
    BY <2>1, <2>3
<1>7. one \in Seq(S) /\ Len(one) = 1 /\ one[1] = e[a]
  BY <1>2, <1>4
<1> HIDE DEF x, u, r, one, n, k
<1>8. /\ y \in Seq(S) /\ Len(y) = 1 + k
      /\ \A j \in 1 .. 1 + k : y[j] = IF j <= 1 THEN one[j] ELSE u[j - 1]
  <2>1. /\ y \in Seq(S) /\ Len(y) = Len(one) + Len(u)
        /\ \A j \in 1 .. Len(one) + Len(u) : y[j] = IF j <= Len(one) THEN one[j] ELSE u[j - Len(one)]
    BY <1>6, <1>7, ConcatProperties
  <2> HIDE DEF y
  <2> QED
    BY <1>6, <1>7, <2>1
<1> HIDE DEF y
<1>9. /\ w \in Seq(S) /\ Len(w) = n + (1 + k)
      /\ \A j \in 1 .. n + (1 + k) : w[j] = IF j <= n THEN x[j] ELSE y[j - n]
  <2>1. /\ w \in Seq(S) /\ Len(w) = Len(x) + Len(y)
        /\ \A j \in 1 .. Len(x) + Len(y) : w[j] = IF j <= Len(x) THEN x[j] ELSE y[j - Len(x)]
    BY <1>5, <1>8, ConcatProperties
  <2> HIDE DEF w
  <2> QED
    BY <1>5, <1>8, <2>1
<1> HIDE DEF w
<1>10. ASSUME NEW j \in 1 .. n + (1 + k) PROVE w[j] = r[j]
  <2>0. j \in 1 .. l - i + 1 /\ r[j] = e[i + j - 1]
    BY <1>1, <1>4
  <2>1. CASE j <= n
    <3>1. j \in 1 .. n
      BY <1>4, <2>1
    <3> QED
      BY <1>5, <1>9, <2>0, <2>1, <3>1
  <2>2. CASE j = n + 1
    <3>1. ~(j <= n) /\ j - n = 1 /\ i + j - 1 = a /\ 1 \in 1 .. 1 + k
      BY <1>4, <2>2
    <3>2. w[j] = y[1] /\ y[1] = one[1]
      BY <1>8, <1>9, <3>1
    <3> QED
      BY <1>7, <2>0, <3>1, <3>2
  <2>3. CASE j > n + 1
    <3> DEFINE q == j - n
               h == q - 1
    <3>1. ~(j <= n) /\ q \in 1 .. 1 + k /\ ~(q <= 1) /\ h \in 1 .. k /\ a + h = i + j - 1 /\ h = q - 1
          /\ q = j - n
      BY <1>4, <2>3
    <3> HIDE DEF q, h
    <3>2. w[j] = y[q] /\ y[q] = u[h] /\ u[h] = e[a + h]
      BY <1>6, <1>8, <1>9, <3>1
    <3> QED
      BY <2>0, <3>1, <3>2
  <2> QED
    BY <1>4, <2>1, <2>2, <2>3
<1>11. w = r
  <2>1. Len(w) = Len(r)
    BY <1>1, <1>4, <1>9
  <2>2. \A j \in 1 .. Len(w) : w[j] = r[j]
    BY <1>9, <1>10
  <2> QED
    BY <1>1, <1>9, <2>1, <2>2, SeqEqual
<1> QED
  BY <1>5, <1>6, <1>11 DEF l, x, u, r, one, n, k, y, w

-----------------------------------------------------------------------------
(* Stuffing is undone, and leaves no flag.                                  *)

Inside == AnyByte \ {Plain(PppFlag)}

LEMMA PieceBack ==
    ASSUME NEW b \in PppByte
    PROVE  /\ Piece(b) \in Seq(Inside) /\ Piece(b) \in Seq(AnyByte)
           /\ \/ Piece(b) = <<b>> /\ b # Plain(PppEsc)
              \/ \E g : Piece(b) = <<Plain(PppEsc), Plain(g)>> /\ b = Plain(Flip(g))
<1>1. PppFlag \in ToStuff /\ PppEsc \in ToStuff /\ PppEsc # PppFlag /\ PppEsc \in Byte
  <2>1. PppFlag - PppEsc # 0 /\ PppFlag \in Nat /\ PppEsc \in Byte
    BY PppFramesAssumption, ByteIs
  <2> QED
    BY <2>1 DEF ToStuff
<1>2. Inside \subseteq AnyByte
  BY DEF Inside
<1>3. CASE Len(b) = 1 /\ Val(b) \in ToStuff
  <2> DEFINE g == Flip(Val(b))
             x == Plain(PppEsc)
             y == Plain(g)
  <2>1. b \in PlainByte
    <3>1. ASSUME b \notin PlainByte PROVE FALSE
      <4>1. PICK w \in Byte, c \in Contents : b = Check(w, <<c>>)
        BY <3>1 DEF PppByte
      <4>2. Len(b) = 2
        BY <4>1 DEF Check
      <4> QED
        BY <1>3, <4>2
    <3> QED
      BY <3>1
  <2>2. Val(b) \in Byte /\ g \notin ToStuff
    BY <1>3, FlipUnstuffed
  <2>3. g \in Byte /\ Flip(g) = Val(b)
    BY <2>2, FlipIs
  <2>4. b = Plain(Val(b))
    BY <2>1 DEF PlainByte, Plain, Val
  <2>5. Piece(b) = <<x, y>>
    BY <1>3 DEF Piece
  <2>6. g # PppFlag
    BY <1>1, <2>2
  <2>7. x \in Inside /\ y \in Inside
    <3>1. x \in AnyByte /\ y \in AnyByte
      BY <1>1, <2>3, ByteIs
    <3>2. x # Plain(PppFlag) /\ y # Plain(PppFlag)
      <4> HIDE DEF g
      <4> QED
        BY <1>1, <2>6 DEF Plain
    <3> QED
      BY <3>1, <3>2 DEF Inside
  <2>8. <<x, y>> \in Seq(Inside) /\ <<x, y>> \in Seq(AnyByte)
    <3> HIDE DEF x, y
    <3> QED
      BY <1>2, <2>7
  <2>9. b = Plain(Flip(g))
    BY <2>3, <2>4
  <2> QED
    BY <2>5, <2>8, <2>9
<1>4. CASE ~(Len(b) = 1 /\ Val(b) \in ToStuff)
  <2>1. Piece(b) = <<b>>
    BY <1>4 DEF Piece
  <2>2. b # Plain(PppEsc) /\ b # Plain(PppFlag)
    BY <1>1, <1>4 DEF Plain, Val
  <2>3. b \in Inside
    BY <2>2, PppByteIs DEF Inside
  <2>4. <<b>> \in Seq(Inside) /\ <<b>> \in Seq(AnyByte)
    BY <1>2, <2>3
  <2> QED
    BY <2>1, <2>2, <2>4
<1> QED
  BY <1>3, <1>4

LEMMA EscapeInside ==
    ASSUME NEW s \in Seq(PppByte)
    PROVE  Escape(s) \in Seq(Inside)
<1> DEFINE T == Seq(Inside)
           q == Pieces(s)
           n == Len(s)
<1>1. n \in Nat /\ DOMAIN s = 1 .. n /\ \A i \in 1 .. n : Piece(s[i]) \in T
  <2>1. n \in Nat /\ DOMAIN s = 1 .. n /\ \A i \in 1 .. n : s[i] \in PppByte
    OBVIOUS
  <2> HIDE DEF n
  <2> QED
    BY <2>1, PieceBack
<1>2. q = [i \in 1 .. n |-> Piece(s[i])]
  BY <1>1 DEF Pieces
<1>3. q \in Seq(T)
  <2> HIDE DEF T, n, q
  <2> QED
    BY <1>1, <1>2
<1>4. FlattenSeq(q) \in Seq(Inside)
  <2> HIDE DEF q
  <2> QED
    BY <1>3, FlattenType
<1> QED
  BY <1>4, EscapeIs

LEMMA EscapeOne ==
    ASSUME NEW b \in PppByte
    PROVE  Escape(<<b>>) = Piece(b)
<1>1. Piece(b) \in Seq(AnyByte)
  BY PieceBack
<1>2. Pieces(<<b>>) = <<Piece(b)>>
  BY DEF Pieces
<1>3. FlattenSeq(<<Piece(b)>>) = Piece(b)
  BY <1>1, FlattenOne
<1> QED
  BY <1>2, <1>3, EscapeIs

LEMMA EscapeNone == Escape(<<>>) = <<>>
<1>1. Pieces(<<>>) = <<>>
  BY DEF Pieces
<1>2. FlattenSeq(<<>>) = <<>>
  BY HeadsNone
<1> QED
  BY <1>1, <1>2, EscapeIs

(* ppp_unescape() of ppp_escape().                                          *)
LEMMA EscapeBack ==
    ASSUME NEW s \in Seq(PppByte)
    PROVE  Unescape(Escape(s)) = s
<1> DEFINE e == Escape(s)
           l == Len(e)
           n == l + 1
<1>1. e \in Seq(AnyByte)
  <2>1. e \in Seq(PppByte)
    BY EscapeType
  <2> HIDE DEF e
  <2> QED
    BY <2>1, PppByteIs
<1>2. e = Escape(s)
  OBVIOUS
<1> HIDE DEF e
<1>3. PICK f : (\A i \in 1 .. n : f[i] = UnescapeFrom(e, f, i)) /\ Unescape(e) = f[1]
  BY <1>1, UnescapeIs
<1>0. l \in Nat /\ n \in Nat /\ n = l + 1 /\ l = Len(e)
  BY <1>1
<1> DEFINE P == {i \in 1 .. n : \A t \in Seq(PppByte) : SubSeq(e, i, l) = Escape(t) => f[i] = t}
<1>4. ASSUME NEW i \in 1 .. n, i + 1 .. n \subseteq P PROVE i \in P
  <2> SUFFICES ASSUME NEW t \in Seq(PppByte), SubSeq(e, i, l) = Escape(t) PROVE f[i] = t
    OBVIOUS
  <2> DEFINE r == SubSeq(e, i, l)
  <2>1. r \in Seq(AnyByte) /\ Len(r) = l - i + 1 /\ r = Escape(t)
    BY <1>1, FromIs
  <2> HIDE DEF r
  <2>2. CASE t = <<>>
    <3>1. Len(r) = 0
      BY <2>1, <2>2, EscapeNone
    <3>2. i > l
      BY <1>0, <2>1, <3>1
    <3>3. f[i] = <<>>
      BY <1>0, <1>3, <3>2 DEF UnescapeFrom
    <3> QED
      BY <2>2, <3>3
  <2>3. CASE t # <<>>
    <3> DEFINE b == Head(t)
               u == Tail(t)
               p == Piece(b)
               v == Escape(u)
    <3>1. b \in PppByte /\ u \in Seq(PppByte) /\ t = <<b>> \o u
      BY <2>3
    <3> HIDE DEF b, u
    <3>2. p \in Seq(AnyByte) /\ v \in Seq(AnyByte)
      <4>1. v \in Seq(PppByte)
        BY <3>1, EscapeType
      <4> HIDE DEF v
      <4> QED
        BY <3>1, <4>1, PppByteIs, PieceBack
    <3>3. SubSeq(e, i, l) = p \o v
      <4>1. <<b>> \in Seq(PppByte)
        BY <3>1
      <4>2. Escape(<<b>> \o u) = Escape(<<b>>) \o Escape(u)
        BY <3>1, <4>1, EscapeConcat
      <4> QED
        BY <2>1, <3>1, <4>2, EscapeOne DEF r
    <3> HIDE DEF p, v
    <3>4. /\ i + Len(p) \in i .. l + 1
          /\ SubSeq(e, i + Len(p), l) = v
          /\ \A j \in 1 .. Len(p) : i + j - 1 \in 1 .. l /\ e[i + j - 1] = p[j]
      BY <1>1, <3>2, <3>3, Skip
    <3>5. ASSUME NEW m \in i + 1 .. n, m = i + Len(p) PROVE f[m] = u
      <4>1. m \in P
        BY <1>4
      <4>2. SubSeq(e, m, l) = Escape(u)
        BY <3>4, <3>5 DEF v
      <4> QED
        BY <3>1, <4>1, <4>2
    <3>6. i \in Nat /\ i \in 1 .. n
      BY <1>0
    <3>7. CASE p = <<b>> /\ b # Plain(PppEsc)
      <4>1. Len(p) = 1 /\ p[1] = b
        BY <3>7
      <4>2. i \in 1 .. l /\ e[i] = b /\ i + 1 \in i + 1 .. n
        <5>1. 1 \in 1 .. Len(p) /\ i + 1 - 1 = i
          BY <3>6, <4>1
        <5>2. i \in 1 .. l /\ e[i] = b
          BY <3>4, <4>1, <5>1
        <5> QED
          BY <1>0, <3>6, <5>2
      <4>3. Literal(e, i) = b /\ After(e, i) = i + 1
        BY <3>7, <4>2 DEF Literal, After, Escaped
      <4>4. f[i + 1] = u
        BY <3>5, <4>1, <4>2
      <4>5. ~(i > Len(e))
        BY <1>0, <4>2
      <4> QED
        BY <1>3, <3>1, <4>3, <4>4, <4>5 DEF UnescapeFrom
    <3>8. CASE \E g : p = <<Plain(PppEsc), Plain(g)>> /\ b = Plain(Flip(g))
      <4>0. PICK g : p = <<Plain(PppEsc), Plain(g)>> /\ b = Plain(Flip(g))
        BY <3>8
      <4>1. Len(p) = 2 /\ p[1] = Plain(PppEsc) /\ p[2] = Plain(g)
        BY <4>0
      <4>2. i \in 1 .. l /\ e[i] = Plain(PppEsc) /\ i + 1 \in 1 .. l /\ e[i + 1] = Plain(g)
            /\ i + 2 \in i + 1 .. n
        <5>1. 1 \in 1 .. Len(p) /\ i + 1 - 1 = i /\ 2 \in 1 .. Len(p) /\ i + 2 - 1 = i + 1
          BY <3>6, <4>1
        <5>2. i \in 1 .. l /\ e[i] = Plain(PppEsc)
          BY <3>4, <4>1, <5>1
        <5>3. i + 1 \in 1 .. l /\ e[i + 1] = Plain(g)
          BY <3>4, <4>1, <5>1
        <5> QED
          BY <1>0, <3>6, <5>2, <5>3
      <4>3. i < Len(e) /\ ~(i > Len(e))
        BY <1>0, <3>6, <4>2
      <4>4. Literal(e, i) = b /\ After(e, i) = i + 2
        <5>1. Val(Plain(g)) = g
          BY DEF Val, Plain
        <5> QED
          BY <4>0, <4>2, <4>3, <5>1 DEF Literal, After, Escaped
      <4>5. f[i + 2] = u
        BY <3>5, <4>1, <4>2
      <4> QED
        BY <1>3, <3>1, <4>3, <4>4, <4>5 DEF UnescapeFrom
    <3> QED
      BY <3>1, <3>7, <3>8, PieceBack DEF p
  <2> QED
    BY <2>2, <2>3
<1>5. 1 .. n \subseteq P
  <2> HIDE DEF P, n
  <2> QED
    BY <1>0, <1>4, Downward
<1>6. 1 \in P /\ SubSeq(e, 1, l) = e
  <2>1. 1 \in 1 .. n
    BY <1>0
  <2>2. SubSeq(e, 1, l) = e
    BY <1>1
  <2> QED
    BY <1>5, <2>1, <2>2
<1>7. f[1] = s
  BY <1>2, <1>6
<1> QED
  BY <1>2, <1>3, <1>7

-----------------------------------------------------------------------------
(* PppParser on what was sent.                                              *)

FlagByte == <<Plain(PppFlag)>>

LEMMA FlagIs ==
    /\ FlagByte \in Seq(AnyByte) /\ Len(FlagByte) = 1 /\ FlagByte[1] = Plain(PppFlag)
    /\ Inside \subseteq AnyByte /\ Plain(PppFlag) \notin Inside
    /\ \A s \in Seq(Inside) : s \in Seq(AnyByte)
<1>1. Plain(PppFlag) \in AnyByte
  BY PppFramesAssumption, ByteIs
<1>2. Inside \subseteq AnyByte /\ Plain(PppFlag) \notin Inside
  BY DEF Inside
<1> QED
  BY <1>1, <1>2 DEF FlagByte

(* What has no flag is part of what precedes the first.                     *)
LEMMA NotLonger ==
    ASSUME NEW x \in Seq(Inside), NEW y \in Seq(AnyByte), NEW w \in Seq(AnyByte),
           NEW v \in Seq(AnyByte), x \o w = y \o (FlagByte \o v)
    PROVE  /\ Len(x) <= Len(y)
           /\ Follows(AnyByte, y, x, w, FlagByte \o v)
<1> DEFINE t == FlagByte \o v
<1>1. x \in Seq(AnyByte) /\ Len(x) \in Nat /\ Len(y) \in Nat
  BY FlagIs, LenProperties
<1>2. t \in Seq(AnyByte) /\ Len(t) > 0 /\ t[1] = Plain(PppFlag)
  <2>1. /\ t \in Seq(AnyByte) /\ Len(t) = Len(FlagByte) + Len(v) /\ Len(v) \in Nat
        /\ \A i \in 1 .. Len(FlagByte) + Len(v) :
               t[i] = IF i <= Len(FlagByte) THEN FlagByte[i] ELSE v[i - Len(FlagByte)]
    BY FlagIs, ConcatProperties, LenProperties
  <2>2. 1 \in 1 .. 1 + Len(v)
    BY <2>1
  <2> HIDE DEF t
  <2> QED
    BY <2>1, <2>2, FlagIs
<1>3. x \o w = y \o t
  OBVIOUS
<1> HIDE DEF t
<1>4. ASSUME Len(x) > Len(y) PROVE FALSE
  <2>1. Follows(AnyByte, x, y, t, w)
    <3>1. Len(x) >= Len(y)
      BY <1>1, <1>4
    <3> QED
      BY <1>1, <1>2, <1>3, <3>1, Overlap
  <2>2. PICK u \in Seq(AnyByte) : x = y \o u /\ t = u \o w
    BY <2>1 DEF Follows
  <2>3. /\ Len(x) = Len(y) + Len(u) /\ Len(u) \in Nat
        /\ \A i \in 1 .. Len(y) + Len(u) : x[i] = IF i <= Len(y) THEN y[i] ELSE u[i - Len(y)]
    BY <2>2, ConcatProperties, LenProperties
  <2>4. Len(u) >= 1
    BY <1>1, <1>4, <2>3
  <2>5. t[1] = u[1]
    <3>1. /\ Len(w) \in Nat
          /\ \A i \in 1 .. Len(u) + Len(w) : (u \o w)[i] = IF i <= Len(u) THEN u[i] ELSE w[i - Len(u)]
      BY ConcatProperties, LenProperties
    <3>2. 1 \in 1 .. Len(u) + Len(w)
      BY <2>3, <2>4, <3>1
    <3> QED
      BY <2>2, <2>4, <3>1, <3>2
  <2> DEFINE k == Len(y) + 1
  <2>6. k \in 1 .. Len(y) + Len(u) /\ ~(k <= Len(y)) /\ k - Len(y) = 1 /\ k \in 1 .. Len(x)
    BY <1>1, <2>3, <2>4
  <2> HIDE DEF k
  <2>7. x[k] = u[1] /\ x[k] \in Inside
    BY <2>3, <2>6, ElementOfSeq
  <2> QED
    BY <1>2, <2>5, <2>7, FlagIs
<1>5. Len(y) >= Len(x)
  BY <1>1, <1>4
<1>6. Follows(AnyByte, y, x, w, t)
  BY <1>1, <1>2, <1>3, <1>5, Overlap
<1> QED
  BY <1>1, <1>5, <1>6 DEF t

LEMMA FirstFlag ==
    ASSUME NEW x \in Seq(Inside), NEW y \in Seq(Inside), NEW u \in Seq(AnyByte), NEW v \in Seq(AnyByte),
           x \o (FlagByte \o u) = y \o (FlagByte \o v)
    PROVE  x = y /\ u = v
<1> DEFINE a == FlagByte \o u
           b == FlagByte \o v
<1>1. x \in Seq(AnyByte) /\ y \in Seq(AnyByte) /\ Len(x) \in Nat /\ Len(y) \in Nat
  BY FlagIs, LenProperties
<1>2. a \in Seq(AnyByte) /\ b \in Seq(AnyByte)
  BY FlagIs, ConcatProperties
<1>3. x \o a = y \o b
  OBVIOUS
<1>4. Len(x) <= Len(y) /\ Follows(AnyByte, y, x, a, b)
  <2>1. x \o a = y \o (FlagByte \o v)
    OBVIOUS
  <2> HIDE DEF a
  <2> QED
    BY <1>1, <1>2, <2>1, NotLonger
<1>5. Len(y) <= Len(x)
  <2>1. y \o b = x \o (FlagByte \o u)
    OBVIOUS
  <2> HIDE DEF b
  <2> QED
    BY <1>1, <1>2, <2>1, NotLonger
<1>6. a = FlagByte \o u /\ b = FlagByte \o v
  OBVIOUS
<1> HIDE DEF a, b
<1>7. PICK z \in Seq(AnyByte) : y = x \o z /\ a = z \o b
  BY <1>4 DEF Follows
<1>8. Len(z) = 0
  <2>1. Len(y) = Len(x) + Len(z) /\ Len(z) \in Nat
    BY <1>1, <1>7, ConcatProperties, LenProperties
  <2> QED
    BY <1>1, <1>4, <1>5, <2>1
<1>9. z = <<>>
  BY <1>8, EmptySeq
<1>10. x = y /\ a = b
  BY <1>1, <1>2, <1>7, <1>9
<1>11. u = v
  <2>1. FlagByte \o u = FlagByte \o v
    BY <1>6, <1>10
  <2>2. FlagByte \in Seq(AnyByte) /\ u \in Seq(AnyByte) /\ v \in Seq(AnyByte)
    BY FlagIs
  <2> DEFINE one == FlagByte
             k == Len(one)
  <2>3. /\ Len(one \o u) = k + Len(u)
        /\ SubSeq(one \o u, k + 1, k + Len(u)) = u
    BY ONLY <2>2, Halves
  <2>4. /\ Len(one \o v) = k + Len(v)
        /\ SubSeq(one \o v, k + 1, k + Len(v)) = v
    BY ONLY <2>2, Halves
  <2> HIDE DEF one
  <2>5. one \o u = one \o v
    BY <2>1 DEF one
  <2> QED
    BY <2>3, <2>4, <2>5
<1> QED
  BY <1>10, <1>11

(* The code of a packet: a body between flags, after bytes that are none.   *)
IsPppCode(b, p) ==
    \E j \in Seq(Inside), c \in Seq(Inside) :
        /\ b = j \o (FlagByte \o (c \o FlagByte))
        /\ PppSound(Unescape(c)) /\ PacketOf(Unescape(c)) = p

PppCodes == {y \in Seq(AnyByte) \X Packet : IsPppCode(y[1], y[2])}

(* s carries the packets ps: their codes, and bytes without a flag.         *)
Carried(s, ps) ==
    \E a \in Seq(AnyByte), j \in Seq(Inside) : s = a \o j /\ Encodes(PppCodes, a, ps)

LEMMA MakePppFrameIsCode ==
    ASSUME NEW p \in Packet, NEW compressed, Fit(p, compressed), NEW j \in Seq(Inside)
    PROVE  LET b == j \o MakePppFrame(p, compressed) IN
           /\ MakePppFrame(p, compressed) \in Seq(AnyByte)
           /\ b \in Seq(AnyByte) /\ <<b, p>> \in PppCodes
<1> DEFINE c == PppContent(p, compressed)
           s == c \o PppCheck(c)
           e == Escape(s)
           m == MakePppFrame(p, compressed)
           b == j \o m
<1>1. s \in Seq(PppByte) /\ PacketOf(s) = p /\ PppSound(s)
  BY ContentBack
<1>2. m = (FlagByte \o e) \o FlagByte
  BY DEF MakePppFrame, FlagByte
<1> HIDE DEF s, m
<1>3. e \in Seq(Inside) /\ Unescape(e) = s
  BY <1>1, EscapeInside, EscapeBack
<1> HIDE DEF e
<1>4. e \in Seq(AnyByte) /\ j \in Seq(AnyByte) /\ FlagByte \in Seq(AnyByte)
  BY <1>3, FlagIs
<1>5. m = FlagByte \o (e \o FlagByte)
  <2>1. (FlagByte \o e) \o FlagByte = FlagByte \o (e \o FlagByte)
    BY ONLY <1>4, Assoc, SMTT(30)
  <2> QED
    BY <1>2, <2>1
<1>6. m \in Seq(AnyByte)
  BY <1>4, <1>5
<1>7. b \in Seq(AnyByte)
  BY <1>4, <1>6
<1>8. b = j \o (FlagByte \o (e \o FlagByte))
  BY <1>5
<1> HIDE DEF b
<1>9. IsPppCode(b, p)
  BY <1>1, <1>3, <1>8 DEF IsPppCode
<1>10. <<b, p>> \in PppCodes
  BY <1>7, <1>9 DEF PppCodes
<1> QED
  BY <1>6, <1>7, <1>10 DEF b, m

LEMMA EncodesEmpty ==
    ASSUME NEW E, NEW S, NEW q \in Seq(S), Encodes(E, <<>>, q),
           \A b \in Seq(AnyByte) : \A x \in S : <<b, x>> \in E => b # <<>>
    PROVE  q = <<>>
<1> SUFFICES ASSUME q # <<>> PROVE FALSE
  OBVIOUS
<1> DEFINE none == <<>>
<1>0. Encodes(E, none, q)
  OBVIOUS
<1>1. none = <<>>
  OBVIOUS
<1> HIDE DEF none
<1>2. Head(q) \in S /\ Begins(E, none, Head(q), Tail(q))
  BY <1>0, EncodesFirst
<1>3. PICK b \in Seq(AnyByte), t \in Seq(AnyByte) : none = b \o t /\ <<b, Head(q)>> \in E
  BY <1>2 DEF Begins
<1>4. b # <<>>
  BY <1>2, <1>3
<1>5. Len(none) = Len(b) + Len(t) /\ Len(b) \in Nat /\ Len(t) \in Nat
  BY <1>3, ConcatProperties, LenProperties
<1>6. Len(b) # 0 /\ Len(none) = 0
  BY <1>1, <1>4, EmptySeq
<1> QED
  <2> DEFINE x == Len(b)
             y == Len(t)
             z == Len(none)
  <2>1. z = x + y /\ x \in Nat /\ y \in Nat /\ x # 0 /\ z = 0
    BY <1>5, <1>6
  <2> HIDE DEF x, y, z
  <2> QED
    BY ONLY <2>1

Associate(a, b, c) == (a \o b) \o c = a \o (b \o c)

LEMMA Joined ==
    ASSUME NEW a \in Seq(AnyByte), NEW b \in Seq(AnyByte), NEW c \in Seq(AnyByte)
    PROVE  Associate(a, b, c)
BY Assoc DEF Associate

(* s is p between flags, perhaps after other bytes, and then carries qs.    *)
Opens(s, p, qs) ==
    \E j \in Seq(Inside), c \in Seq(Inside), v \in Seq(AnyByte) :
        /\ s = j \o (FlagByte \o (c \o (FlagByte \o v)))
        /\ PppSound(Unescape(c)) /\ PacketOf(Unescape(c)) = p
        /\ Carried(v, qs)

LEMMA CarriedHead ==
    ASSUME NEW s, NEW ps \in Seq(Packet), ps # <<>>, Carried(s, ps)
    PROVE  /\ Head(ps) \in Packet /\ Tail(ps) \in Seq(Packet) /\ ps = <<Head(ps)>> \o Tail(ps)
           /\ Opens(s, Head(ps), Tail(ps))
<1> DEFINE p == Head(ps)
           qs == Tail(ps)
<1>1. PICK a \in Seq(AnyByte), k \in Seq(Inside) : s = a \o k /\ Encodes(PppCodes, a, ps)
  BY DEF Carried
<1>2. /\ p \in Packet /\ qs \in Seq(Packet) /\ ps = <<p>> \o qs
      /\ Begins(PppCodes, a, p, qs)
  BY <1>1, EncodesFirst
<1> HIDE DEF p, qs
<1>3. PICK b \in Seq(AnyByte), t \in Seq(AnyByte) :
          a = b \o t /\ <<b, p>> \in PppCodes /\ Encodes(PppCodes, t, qs)
  BY <1>2 DEF Begins
<1>4. IsPppCode(b, p)
  BY <1>2, <1>3 DEF PppCodes
<1>5. PICK j \in Seq(Inside), c \in Seq(Inside) :
          /\ b = j \o (FlagByte \o (c \o FlagByte))
          /\ PppSound(Unescape(c)) /\ PacketOf(Unescape(c)) = p
  BY <1>4 DEF IsPppCode
<1> DEFINE fl == FlagByte
           v == t \o k
           cf == c \o fl
           fcf == fl \o cf
<1>6. fl \in Seq(AnyByte) /\ k \in Seq(AnyByte) /\ j \in Seq(AnyByte) /\ c \in Seq(AnyByte)
  BY FlagIs
<1>7. b = j \o fcf /\ cf = c \o fl /\ fcf = fl \o cf /\ v = t \o k
  BY <1>5
<1> HIDE DEF fl
<1>8. v \in Seq(AnyByte) /\ cf \in Seq(AnyByte)
  BY <1>6, ConcatProperties
<1> HIDE DEF v, cf
<1>9. fcf \in Seq(AnyByte)
  BY <1>6, <1>8, ConcatProperties
<1> HIDE DEF fcf
<1>10. s = b \o v
  <2>0. b \in Seq(AnyByte) /\ t \in Seq(AnyByte) /\ k \in Seq(AnyByte)
    BY <1>6
  <2>1. (b \o t) \o k = b \o (t \o k)
    BY ONLY <2>0, Joined DEF Associate
  <2> QED
    BY <1>1, <1>3, <1>7, <2>1
<1>11. (j \o fcf) \o v = j \o (fcf \o v)
  <2>1. j \in Seq(AnyByte) /\ fcf \in Seq(AnyByte) /\ v \in Seq(AnyByte)
    BY <1>6, <1>8, <1>9
  <2>2. Associate(j, fcf, v)
    BY ONLY <2>1, Joined
  <2> QED
    BY <2>2 DEF Associate
<1>12. (fl \o cf) \o v = fl \o (cf \o v)
  <2>1. fl \in Seq(AnyByte) /\ cf \in Seq(AnyByte) /\ v \in Seq(AnyByte)
    BY <1>6, <1>8
  <2>2. Associate(fl, cf, v)
    BY ONLY <2>1, Joined
  <2> QED
    BY <2>2 DEF Associate
<1>13. (c \o fl) \o v = c \o (fl \o v)
  <2>1. c \in Seq(AnyByte) /\ fl \in Seq(AnyByte) /\ v \in Seq(AnyByte)
    BY <1>6, <1>8
  <2>2. Associate(c, fl, v)
    BY ONLY <2>1, Joined
  <2> QED
    BY <2>2 DEF Associate
<1>14. s = j \o (fl \o (c \o (fl \o v)))
  BY <1>7, <1>10, <1>11, <1>12, <1>13
<1>15. Carried(v, qs)
  BY <1>3, <1>7 DEF Carried
<1> QED
  BY <1>2, <1>5, <1>8, <1>14, <1>15 DEF p, qs, fl, Opens

LEMMA CarriedNone ==
    /\ Carried(<<>>, <<>>)
    /\ \A s \in Seq(Inside) : Carried(s, <<>>)
    /\ \A s : Carried(s, <<>>) => s \in Seq(Inside)
    /\ \A ps \in Seq(Packet) : Carried(<<>>, ps) => ps = <<>>
<1> DEFINE none == <<>>
<1>1. Encodes(PppCodes, none, none) /\ none \in Seq(AnyByte) /\ none \in Seq(Inside)
  BY EncodesNone
<1>2. ASSUME NEW s \in Seq(Inside) PROVE Carried(s, <<>>)
  <2>1. s = none \o s
    OBVIOUS
  <2>2. none = <<>>
    OBVIOUS
  <2> HIDE DEF none
  <2>3. Carried(s, none)
    BY <1>1, <2>1 DEF Carried
  <2> QED
    BY <2>2, <2>3
<1>3. ASSUME NEW s, Carried(s, <<>>) PROVE s \in Seq(Inside)
  <2>1. PICK a \in Seq(AnyByte), j \in Seq(Inside) : s = a \o j /\ Encodes(PppCodes, a, <<>>)
    BY <1>3 DEF Carried
  <2>2. a = <<>>
    BY <2>1, EncodesNone
  <2> QED
    BY <2>1, <2>2
<1>4. ASSUME NEW ps \in Seq(Packet), Carried(<<>>, ps), ps # <<>> PROVE FALSE
  <2>0. Carried(none, ps)
    BY <1>4
  <2>1. Len(none) = 0
    OBVIOUS
  <2> HIDE DEF none
  <2>20. Opens(none, Head(ps), Tail(ps))
    BY <1>4, <2>0, CarriedHead
  <2>2. PICK j \in Seq(Inside), c \in Seq(Inside), v \in Seq(AnyByte) :
            none = j \o (FlagByte \o (c \o (FlagByte \o v)))
    BY <2>20 DEF Opens
  <2> DEFINE x == FlagByte \o v
             y == c \o x
             z == FlagByte \o y
  <2>3. FlagByte \in Seq(AnyByte) /\ Len(FlagByte) = 1 /\ j \in Seq(AnyByte) /\ c \in Seq(AnyByte)
    BY FlagIs
  <2>4. x \in Seq(AnyByte)
    BY <2>3, ConcatProperties
  <2>5. none = j \o z
    BY <2>2
  <2> HIDE DEF x
  <2>6. y \in Seq(AnyByte)
    BY <2>3, <2>4, ConcatProperties
  <2> HIDE DEF y
  <2>7. z \in Seq(AnyByte) /\ Len(z) = 1 + Len(y) /\ Len(y) \in Nat
    <3>1. z \in Seq(AnyByte) /\ Len(z) = Len(FlagByte) + Len(y)
      BY ONLY <2>3, <2>6, ConcatProperties
    <3>2. Len(y) \in Nat
      BY <2>6, LenProperties
    <3> QED
      BY <2>3, <3>1, <3>2
  <2> HIDE DEF z
  <2>8. Len(none) = Len(j) + Len(z) /\ Len(j) \in Nat
    BY <2>3, <2>5, <2>7, ConcatProperties, LenProperties
  <2> QED
    <3> DEFINE k == Len(j)
               l == Len(y)
    <3>1. k \in Nat /\ l \in Nat /\ 0 = k + (1 + l)
      BY <2>1, <2>7, <2>8
    <3> HIDE DEF k, l
    <3> QED
      BY ONLY <3>1
<1>5. Carried(<<>>, <<>>)
  BY <1>1, <1>2
<1> QED
  BY <1>2, <1>3, <1>4, <1>5

(* Bytes before the first flag are passed over.                             *)
LEMMA CarriedDrop ==
    ASSUME NEW x \in Seq(Inside), NEW w \in Seq(AnyByte), NEW ps \in Seq(Packet),
           Carried(x \o w, ps)
    PROVE  Carried(w, ps)
<1> DEFINE s == x \o w
<1>0. x \in Seq(AnyByte) /\ Carried(s, ps) /\ s = x \o w
  BY FlagIs
<1> HIDE DEF s
<1>1. CASE ps = <<>>
  <2>1. s \in Seq(Inside)
    BY <1>0, <1>1, CarriedNone
  <2>2. w \in Seq(Inside)
    <3>1. SubSeq(s, Len(x) + 1, Len(x) + Len(w)) = w /\ Len(s) = Len(x) + Len(w)
      BY <1>0, Halves
    <3>2. Len(x) \in Nat /\ Len(w) \in Nat
      BY <1>0, LenProperties
    <3> DEFINE i == Len(x) + 1
               n == Len(s)
    <3>3. i \in 1 .. n + 1
      BY <3>1, <3>2
    <3>4. SubSeq(s, i, n) = w
      BY <3>1
    <3> HIDE DEF i
    <3>5. SubSeq(s, i, n) \in Seq(Inside)
      BY <2>1, <3>3, FromIs
    <3> QED
      BY <3>4, <3>5
  <2> QED
    BY <1>1, <2>2, CarriedNone
<1>2. CASE ps # <<>>
  <2> DEFINE p == Head(ps)
             qs == Tail(ps)
  <2>1. /\ p \in Packet /\ qs \in Seq(Packet) /\ ps = <<p>> \o qs
        /\ Opens(s, p, qs)
    BY <1>0, <1>2, CarriedHead
  <2> HIDE DEF p, qs
  <2>2. PICK j \in Seq(Inside), c \in Seq(Inside), v \in Seq(AnyByte) :
            /\ s = j \o (FlagByte \o (c \o (FlagByte \o v)))
            /\ PppSound(Unescape(c)) /\ PacketOf(Unescape(c)) = p
            /\ Carried(v, qs)
    BY <2>1 DEF Opens
  <2>3. FlagByte \in Seq(AnyByte) /\ j \in Seq(AnyByte) /\ c \in Seq(AnyByte)
    BY FlagIs
  <2> DEFINE fv == FlagByte \o v
             cfv == c \o fv
  <2>4. fv \in Seq(AnyByte)
    BY <2>3, ConcatProperties
  <2>5. cfv = c \o fv /\ s = j \o (FlagByte \o cfv) /\ fv = FlagByte \o v
    BY <2>2
  <2> HIDE DEF fv
  <2>6. cfv \in Seq(AnyByte)
    BY <2>3, <2>4, ConcatProperties
  <2> HIDE DEF cfv
  <2>7. Follows(AnyByte, j, x, w, FlagByte \o cfv)
    BY <1>0, <2>3, <2>5, <2>6, NotLonger
  <2>8. PICK z \in Seq(AnyByte) : j = x \o z /\ w = z \o (FlagByte \o cfv)
    BY <2>7 DEF Follows
  <2>9. z \in Seq(Inside)
    <3>1. SubSeq(j, Len(x) + 1, Len(x) + Len(z)) = z /\ Len(j) = Len(x) + Len(z)
      BY <1>0, <2>8, Halves
    <3>2. Len(x) \in Nat /\ Len(z) \in Nat
      BY <1>0, LenProperties
    <3> DEFINE i == Len(x) + 1
               n == Len(j)
    <3>3. i \in 1 .. n + 1
      BY <3>1, <3>2
    <3>4. SubSeq(j, i, n) = z
      BY <3>1
    <3> HIDE DEF i
    <3>5. SubSeq(j, i, n) \in Seq(Inside)
      BY <3>3, FromIs
    <3> QED
      BY <3>4, <3>5
  <2>10. PICK a \in Seq(AnyByte), k \in Seq(Inside) : v = a \o k /\ Encodes(PppCodes, a, qs)
    BY <2>2 DEF Carried
  <2> DEFINE fl == FlagByte
             cf == c \o fl
             fcf == fl \o cf
             b == z \o fcf
  <2>11. b = z \o (FlagByte \o (c \o FlagByte))
    OBVIOUS
  <2>12. cf = c \o fl /\ fcf = fl \o cf /\ b = z \o fcf /\ fl = FlagByte /\ fl \in Seq(AnyByte)
    BY <2>3
  <2> HIDE DEF fl
  <2>13. cf \in Seq(AnyByte)
    BY <2>3, <2>12, ConcatProperties
  <2> HIDE DEF cf
  <2>14. fcf \in Seq(AnyByte)
    BY <2>12, <2>13, ConcatProperties
  <2> HIDE DEF fcf
  <2>15. b \in Seq(AnyByte)
    BY <2>14, ConcatProperties
  <2> HIDE DEF b
  <2>16. <<b, p>> \in PppCodes
    <3>1. IsPppCode(b, p)
      BY <2>2, <2>9, <2>11 DEF IsPppCode
    <3> QED
      BY <2>1, <2>15, <3>1 DEF PppCodes
  <2>17. w = b \o v
    <3>1. (c \o fl) \o v = c \o (fl \o v)
      <4>1. c \in Seq(AnyByte) /\ fl \in Seq(AnyByte) /\ v \in Seq(AnyByte)
        BY <2>3, <2>12
      <4>2. Associate(c, fl, v)
        BY ONLY <4>1, Joined
      <4> QED
        BY <4>2 DEF Associate
    <3>2. (fl \o cf) \o v = fl \o (cf \o v)
      <4>1. fl \in Seq(AnyByte) /\ cf \in Seq(AnyByte) /\ v \in Seq(AnyByte)
        BY <2>12, <2>13
      <4>2. Associate(fl, cf, v)
        BY ONLY <4>1, Joined
      <4> QED
        BY <4>2 DEF Associate
    <3>3. (z \o fcf) \o v = z \o (fcf \o v)
      <4>1. z \in Seq(AnyByte) /\ fcf \in Seq(AnyByte) /\ v \in Seq(AnyByte)
        BY <2>14
      <4>2. Associate(z, fcf, v)
        BY ONLY <4>1, Joined
      <4> QED
        BY <4>2 DEF Associate
    <3> QED
      BY <2>5, <2>8, <2>12, <3>1, <3>2, <3>3
  <2>18. w = (b \o a) \o k
    <3>1. k \in Seq(AnyByte)
      BY FlagIs
    <3>2. Associate(b, a, k)
      BY <2>15, <3>1, Joined
    <3> QED
      BY <2>10, <2>17, <3>2 DEF Associate
  <2>19. Encodes(PppCodes, b \o a, <<p>> \o qs)
    <3>1. Encodes(PppCodes, b, <<p>>)
      BY <2>15, <2>16, EncodesOne
    <3>2. <<p>> \in Seq(Packet)
      BY <2>1
    <3> QED
      BY <2>1, <2>10, <3>1, <3>2, EncodesConcat
  <2>20. b \o a \in Seq(AnyByte)
    BY <2>15, ConcatProperties
  <2>21. Carried(w, <<p>> \o qs)
    BY <2>18, <2>19, <2>20 DEF Carried
  <2> QED
    BY <2>1, <2>21
<1> QED
  BY <1>1, <1>2

(* The same after a flag.                                                   *)
LEMMA CarriedFlag ==
    ASSUME NEW w \in Seq(AnyByte), NEW ps \in Seq(Packet), Carried(FlagByte \o w, ps)
    PROVE  /\ ps # <<>> /\ Head(ps) \in Packet /\ Tail(ps) \in Seq(Packet)
           /\ ps = <<Head(ps)>> \o Tail(ps)
           /\ \E c \in Seq(Inside), v \in Seq(AnyByte) :
                  /\ w = c \o (FlagByte \o v)
                  /\ PppSound(Unescape(c)) /\ PacketOf(Unescape(c)) = Head(ps)
                  /\ Carried(v, Tail(ps))
<1> DEFINE s == FlagByte \o w
           none == <<>>
<1>1. /\ s \in Seq(AnyByte) /\ Len(s) = 1 + Len(w) /\ Len(w) \in Nat
      /\ \A i \in 1 .. Len(FlagByte) + Len(w) :
             s[i] = IF i <= Len(FlagByte) THEN FlagByte[i] ELSE w[i - Len(FlagByte)]
  BY FlagIs, ConcatProperties, LenProperties
<1>2. Carried(s, ps) /\ s = FlagByte \o w
  OBVIOUS
<1> HIDE DEF s
<1>3. Len(s) >= 1 /\ s[1] = Plain(PppFlag)
  <2>1. 1 \in 1 .. Len(FlagByte) + Len(w) /\ 1 <= Len(FlagByte)
    BY <1>1, FlagIs
  <2>2. s[1] = FlagByte[1]
    BY <1>1, <2>1
  <2> QED
    BY <1>1, <2>2, FlagIs
<1>4. ps # <<>>
  <2>1. ASSUME ps = <<>> PROVE FALSE
    <3>1. s \in Seq(Inside)
      BY <1>2, <2>1, CarriedNone
    <3>2. s[1] \in Inside
      BY <1>3, <3>1, ElementOfSeq
    <3> QED
      BY <1>3, <3>2, FlagIs
  <2> QED
    BY <2>1
<1>5. /\ Head(ps) \in Packet /\ Tail(ps) \in Seq(Packet) /\ ps = <<Head(ps)>> \o Tail(ps)
      /\ Opens(s, Head(ps), Tail(ps))
  BY <1>2, <1>4, CarriedHead
<1>6. PICK j \in Seq(Inside), c \in Seq(Inside), v \in Seq(AnyByte) :
          /\ s = j \o (FlagByte \o (c \o (FlagByte \o v)))
          /\ PppSound(Unescape(c)) /\ PacketOf(Unescape(c)) = Head(ps)
          /\ Carried(v, Tail(ps))
  BY <1>5 DEF Opens
<1> DEFINE fv == FlagByte \o v
           u == c \o fv
<1>7. fv \in Seq(AnyByte)
  BY FlagIs, ConcatProperties
<1>8. u = c \o (FlagByte \o v) /\ s = j \o (FlagByte \o u)
  BY <1>6
<1> HIDE DEF fv
<1>9. u \in Seq(AnyByte)
  BY <1>7, FlagIs, ConcatProperties
<1> HIDE DEF u
<1>10. none \in Seq(Inside) /\ none \o (FlagByte \o w) = s
  BY <1>1, <1>2
<1> HIDE DEF none
<1>11. none = j /\ w = u
  <2>1. none \o (FlagByte \o w) = j \o (FlagByte \o u)
    BY <1>8, <1>10
  <2> QED
    BY <1>9, <1>10, <2>1, FirstFlag, ZenonT(40)
<1>12. w = c \o (FlagByte \o v)
  BY <1>8, <1>11
<1> QED
  BY <1>4, <1>5, <1>6, <1>12

(* res is what PppParser makes of the beginning of what carries ps.         *)
Unpacked(res, w, ps) ==
    /\ res.packets \in Seq(Packet) /\ res.buffer \in Seq(AnyByte)
    /\ \E qs \in Seq(Packet) : ps = res.packets \o qs /\ Carried(res.buffer \o w, qs)
    /\ w = <<>> => res.buffer = <<>>

LEMMA UnpackedRest ==
    ASSUME NEW r \in Seq(AnyByte), NEW w, NEW ps \in Seq(Packet),
           Carried(r \o w, ps), w = <<>> => r = <<>>
    PROVE  Unpacked([buffer |-> r, packets |-> <<>>], w, ps)
<1>1. <<>> \in Seq(Packet) /\ ps = <<>> \o ps
  OBVIOUS
<1> QED
  BY <1>1 DEF Unpacked

LEMMA UnpackedMore ==
    ASSUME NEW res, NEW w, NEW ps \in Seq(Packet), NEW p \in Packet, NEW qs \in Seq(Packet),
           ps = <<p>> \o qs, Unpacked(res, w, qs)
    PROVE  Unpacked([buffer |-> res.buffer, packets |-> <<p>> \o res.packets], w, ps)
<1> DEFINE one == <<p>>
           rp == res.packets
           new == [buffer |-> res.buffer, packets |-> one \o rp]
<1>1. one \in Seq(Packet) /\ ps = one \o qs
  OBVIOUS
<1>2. rp \in Seq(Packet) /\ res.buffer \in Seq(AnyByte) /\ (w = <<>> => res.buffer = <<>>)
  BY DEF Unpacked
<1>3. PICK rs \in Seq(Packet) : qs = rp \o rs /\ Carried(res.buffer \o w, rs)
  BY DEF Unpacked
<1> HIDE DEF one
<1>4. one \o rp \in Seq(Packet)
  BY <1>1, <1>2
<1>5. new.buffer = res.buffer /\ new.packets = one \o rp
  OBVIOUS
<1>6. ps = (one \o rp) \o rs
  <2>1. one \in Seq(Packet) /\ rp \in Seq(Packet) /\ rs \in Seq(Packet)
    BY <1>1, <1>2, <1>3
  <2>2. ps = one \o (rp \o rs)
    BY <1>1, <1>3
  <2> HIDE DEF rp
  <2>3. (one \o rp) \o rs = one \o (rp \o rs)
    BY ONLY <2>1, Assoc, SMTT(20)
  <2> QED
    BY <2>2, <2>3
<1> HIDE DEF new
<1>7. Unpacked(new, w, ps)
  BY <1>2, <1>3, <1>4, <1>5, <1>6 DEF Unpacked
<1> QED
  BY <1>7 DEF new, one

(* Where the flags are.                                                     *)
LEMMA FlagsCut ==
    ASSUME NEW x \in Seq(AnyByte), NEW i \in 1 .. Len(x) + 1
    PROVE  LET r == SubSeq(x, i, Len(x))
               a == First(x, i)
               u == SubSeq(x, a + 1, Len(x))
           IN  /\ FlagsAt(x, i) = {} => r \in Seq(Inside)
               /\ FlagsAt(x, i) # {} =>
                      /\ a \in i .. Len(x) /\ u \in Seq(AnyByte)
                      /\ SubSeq(x, i, a - 1) \in Seq(Inside)
                      /\ r = SubSeq(x, i, a - 1) \o (FlagByte \o u)
                      /\ SubSeq(x, a, Len(x)) = FlagByte \o u
                      /\ FlagsAt(x, i) = {a} => u \in Seq(Inside)
<1> DEFINE l == Len(x)
           r == SubSeq(x, i, l)
           T == FlagsAt(x, i)
           a == First(x, i)
           u == SubSeq(x, a + 1, l)
           y == SubSeq(x, i, a - 1)
<1>0. l \in Nat /\ \A j \in 1 .. l : x[j] \in AnyByte
  OBVIOUS
<1>1. ASSUME NEW s \in Seq(AnyByte), \A j \in 1 .. Len(s) : s[j] # Plain(PppFlag)
      PROVE  s \in Seq(Inside)
  <2>1. \A j \in 1 .. Len(s) : s[j] \in Inside
    BY <1>1, ElementOfSeq DEF Inside
  <2>2. Len(s) \in Nat /\ s = [j \in 1 .. Len(s) |-> s[j]]
    OBVIOUS
  <2> DEFINE n == Len(s)
  <2>3. n \in Nat /\ (\A j \in 1 .. n : s[j] \in Inside) /\ s = [j \in 1 .. n |-> s[j]]
    BY <2>1, <2>2
  <2> HIDE DEF n
  <2>4. [j \in 1 .. n |-> s[j]] \in Seq(Inside)
    BY <2>3
  <2> QED
    BY <2>3, <2>4
<1>2. r \in Seq(AnyByte) /\ Len(r) = l - i + 1 /\ \A j \in 1 .. l - i + 1 : r[j] = x[i + j - 1]
  BY FromIs
<1>3. \A k \in i .. l : k \notin T => x[k] # Plain(PppFlag)
  BY DEF FlagsAt
<1>4. ASSUME T = {} PROVE r \in Seq(Inside)
  <2>1. ASSUME NEW j \in 1 .. Len(r) PROVE r[j] # Plain(PppFlag)
    <3>1. i + j - 1 \in i .. l /\ j \in 1 .. l - i + 1
      BY <1>0, <1>2
    <3> HIDE DEF r, l, T
    <3>2. x[i + j - 1] # Plain(PppFlag)
      BY <1>3, <1>4, <3>1
    <3> QED
      BY <1>2, <3>1, <3>2
  <2> HIDE DEF r
  <2> QED
    BY <1>1, <1>2, <2>1
<1>5. ASSUME T # {}
      PROVE  /\ a \in i .. l /\ u \in Seq(AnyByte) /\ y \in Seq(Inside)
             /\ r = y \o (FlagByte \o u) /\ SubSeq(x, a, l) = FlagByte \o u
             /\ T = {a} => u \in Seq(Inside)
  <2>1. a \in i .. l /\ x[a] = Plain(PppFlag)
    BY <1>5, PairIs
  <2>2. \A k \in T : a <= k
    <3>1. T \in SUBSET Nat /\ a = Min(T)
      BY <1>0 DEF FlagsAt, First
    <3> HIDE DEF T
    <3> QED
      BY <1>5, <3>1, MinIs
  <2> HIDE DEF a, T
  <2>3. /\ y \in Seq(AnyByte) /\ Len(y) = a - i /\ \A j \in 1 .. a - i : y[j] = x[i + j - 1]
        /\ u \in Seq(AnyByte) /\ Len(u) = l - a /\ \A j \in 1 .. l - a : u[j] = x[a + j]
        /\ r = y \o (<<x[a]>> \o u)
    BY <2>1, CutAt
  <2>4. SubSeq(x, a, l) = FlagByte \o u
    <3>1. a \in 1 .. l + 1 /\ a \in a .. l
      BY <1>0, <2>1
    <3>2. SubSeq(x, a, l) = SubSeq(x, a, a - 1) \o (<<x[a]>> \o u)
      BY <3>1, CutAt
    <3>3. SubSeq(x, a, a - 1) = <<>>
      <4>1. a \in Int /\ a - 1 \in Int /\ a - 1 < a
        BY <1>0, <2>1
      <4> QED
        BY <4>1, SubSeqEmpty
    <3>4. FlagByte \o u \in Seq(AnyByte)
      BY <2>3, FlagIs, ConcatProperties
    <3>5. <<x[a]>> = FlagByte
      BY <2>1 DEF FlagByte
    <3> DEFINE fu == FlagByte \o u
    <3>6. SubSeq(x, a, l) = <<>> \o fu /\ fu \in Seq(AnyByte)
      BY <3>2, <3>3, <3>4, <3>5
    <3> HIDE DEF fu
    <3>7. <<>> \o fu = fu
      BY <3>6
    <3> QED
      BY <3>6, <3>7 DEF fu
  <2>5. y \in Seq(Inside)
    <3>1. ASSUME NEW j \in 1 .. Len(y) PROVE y[j] # Plain(PppFlag)
      <4>1. j \in 1 .. a - i
        BY <2>3
      <4> DEFINE k == i + j - 1
      <4>2. k \in i .. l /\ k < a /\ k = i + j - 1
        BY <1>0, <2>1, <4>1
      <4> HIDE DEF k
      <4>3. k \notin T
        BY <1>0, <2>1, <2>2, <4>2
      <4> HIDE DEF y, l
      <4>4. x[k] # Plain(PppFlag)
        BY <1>3, <4>2, <4>3
      <4> QED
        BY <2>3, <4>1, <4>2, <4>4
    <3> HIDE DEF y
    <3> QED
      BY <1>1, <2>3, <3>1
  <2>6. ASSUME T = {a} PROVE u \in Seq(Inside)
    <3>1. ASSUME NEW j \in 1 .. Len(u) PROVE u[j] # Plain(PppFlag)
      <4>1. j \in 1 .. l - a
        BY <2>3
      <4> DEFINE k == a + j
      <4>2. k \in i .. l /\ k # a /\ k = a + j
        BY <1>0, <2>1, <4>1
      <4> HIDE DEF k
      <4>3. k \notin T
        BY <2>6, <4>2
      <4> HIDE DEF u, l
      <4>4. x[k] # Plain(PppFlag)
        BY <1>3, <4>2, <4>3
      <4> QED
        BY <2>3, <4>1, <4>2, <4>4
    <3> HIDE DEF u
    <3> QED
      BY <1>1, <2>3, <3>1
  <2>7. r = y \o (FlagByte \o u)
    BY <2>1, <2>3 DEF FlagByte
  <2> QED
    BY <2>1, <2>3, <2>4, <2>5, <2>6, <2>7
<1> QED
  BY <1>4, <1>5

(* s is a body and the flag that ends it, and then carries the rest of ps.  *)
Framed(s, ps) ==
    /\ ps # <<>> /\ Head(ps) \in Packet /\ Tail(ps) \in Seq(Packet)
    /\ ps = <<Head(ps)>> \o Tail(ps)
    /\ \E c \in Seq(Inside), v \in Seq(AnyByte) :
           /\ s = c \o (FlagByte \o v)
           /\ PppSound(Unescape(c)) /\ PacketOf(Unescape(c)) = Head(ps)
           /\ Carried(v, Tail(ps))

LEMMA FlagFramed ==
    ASSUME NEW w \in Seq(AnyByte), NEW ps \in Seq(Packet), Carried(FlagByte \o w, ps)
    PROVE  Framed(w, ps)
BY CarriedFlag DEF Framed

(* From its first flag on the input carries the same packets.               *)
LEMMA OpenedAt ==
    ASSUME NEW x \in Seq(AnyByte), NEW w \in Seq(AnyByte), NEW i \in 1 .. Len(x) + 1,
           NEW ps \in Seq(Packet), Carried(SubSeq(x, i, Len(x)) \o w, ps), FlagsAt(x, i) # {}
    PROVE  LET a == First(x, i)
               u == SubSeq(x, a + 1, Len(x))
           IN  /\ a \in i .. Len(x) /\ u \in Seq(AnyByte)
               /\ Carried((FlagByte \o u) \o w, ps)
               /\ Framed(u \o w, ps)
<1> DEFINE a == First(x, i)
           u == SubSeq(x, a + 1, Len(x))
           y == SubSeq(x, i, a - 1)
           r == SubSeq(x, i, Len(x))
           fu == FlagByte \o u
           uw == u \o w
<1>1. a \in i .. Len(x) /\ u \in Seq(AnyByte) /\ y \in Seq(Inside) /\ r = y \o fu
  BY FlagsCut
<1>2. Carried(r \o w, ps) /\ fu = FlagByte \o u /\ uw = u \o w
  OBVIOUS
<1> HIDE DEF u, y, r
<1>3. fu \in Seq(AnyByte) /\ uw \in Seq(AnyByte) /\ FlagByte \in Seq(AnyByte) /\ y \in Seq(AnyByte)
  BY <1>1, FlagIs, ConcatProperties
<1> HIDE DEF fu
<1>4. r \o w = y \o (fu \o w)
  <2>1. y \in Seq(AnyByte) /\ fu \in Seq(AnyByte) /\ w \in Seq(AnyByte)
    BY <1>3
  <2>2. Associate(y, fu, w)
    BY ONLY <2>1, Joined
  <2> QED
    BY <1>1, <2>2 DEF Associate
<1>5. fu \o w \in Seq(AnyByte)
  BY <1>3, ConcatProperties
<1>6. Carried(fu \o w, ps)
  <2> DEFINE t == fu \o w
  <2>1. t \in Seq(AnyByte) /\ Carried(y \o t, ps)
    BY <1>2, <1>4, <1>5
  <2> HIDE DEF t
  <2>2. Carried(t, ps)
    BY <1>1, <2>1, CarriedDrop
  <2> QED
    BY <2>2 DEF t
<1>7. fu \o w = FlagByte \o uw
  <2>1. FlagByte \in Seq(AnyByte) /\ u \in Seq(AnyByte) /\ w \in Seq(AnyByte)
    BY <1>1, <1>3
  <2> DEFINE one == FlagByte
  <2>3. Associate(one, u, w)
    BY ONLY <2>1, Joined
  <2> HIDE DEF one
  <2>4. (one \o u) \o w = one \o (u \o w)
    BY <2>3 DEF Associate
  <2> QED
    BY <1>2, <2>4 DEF one
<1> HIDE DEF uw
<1>8. Framed(uw, ps)
  BY <1>3, <1>6, <1>7, FlagFramed
<1> QED
  BY <1>1, <1>2, <1>6, <1>8 DEF u, uw, fu

(* No flag, one flag.                                                       *)
LEMMA UnpackNone ==
    ASSUME NEW x \in Seq(AnyByte), NEW w \in Seq(AnyByte), NEW i \in 1 .. Len(x) + 1,
           NEW ps \in Seq(Packet), Carried(SubSeq(x, i, Len(x)) \o w, ps), FlagsAt(x, i) = {}
    PROVE  Unpacked([buffer |-> <<>>, packets |-> <<>>], w, ps)
<1> DEFINE r == SubSeq(x, i, Len(x))
           none == <<>>
<1>1. r \in Seq(Inside)
  BY FlagsCut
<1>2. Carried(r \o w, ps)
  OBVIOUS
<1> HIDE DEF r
<1>3. Carried(w, ps)
  BY <1>1, <1>2, CarriedDrop
<1>4. none \in Seq(AnyByte) /\ none \o w = w /\ none = <<>>
  OBVIOUS
<1> HIDE DEF none
<1>5. Carried(none \o w, ps)
  BY <1>3, <1>4
<1>6. Unpacked([buffer |-> none, packets |-> <<>>], w, ps)
  BY <1>4, <1>5, UnpackedRest
<1> QED
  BY <1>6 DEF none

LEMMA UnpackOne ==
    ASSUME NEW x \in Seq(AnyByte), NEW w \in Seq(AnyByte), NEW i \in 1 .. Len(x) + 1,
           NEW ps \in Seq(Packet), Carried(SubSeq(x, i, Len(x)) \o w, ps),
           FlagsAt(x, i) # {}, FlagsAt(x, i) = {First(x, i)}
    PROVE  Unpacked([buffer |-> SubSeq(x, First(x, i), Len(x)), packets |-> <<>>], w, ps)
<1> DEFINE a == First(x, i)
           u == SubSeq(x, a + 1, Len(x))
           b == SubSeq(x, a, Len(x))
<1>1. b = FlagByte \o u /\ u \in Seq(Inside)
  BY FlagsCut
<1>2. u \in Seq(AnyByte) /\ Carried((FlagByte \o u) \o w, ps) /\ Framed(u \o w, ps)
  BY OpenedAt
<1> HIDE DEF u, b
<1>3. b \in Seq(AnyByte)
  BY <1>1, <1>2, FlagIs, ConcatProperties
<1>4. Carried(b \o w, ps)
  BY <1>1, <1>2
<1>5. PICK c \in Seq(Inside), v \in Seq(AnyByte) : u \o w = c \o (FlagByte \o v)
  BY <1>2 DEF Framed
<1>6. c \in Seq(AnyByte)
  BY FlagIs
<1>7. Follows(AnyByte, c, u, w, FlagByte \o v)
  BY <1>1, <1>5, <1>6, NotLonger
<1>8. PICK z \in Seq(AnyByte) : w = z \o (FlagByte \o v)
  BY <1>7 DEF Follows
<1>9. w # <<>>
  <2> DEFINE t == FlagByte \o v
  <2>1. t \in Seq(AnyByte) /\ Len(t) = 1 + Len(v) /\ Len(v) \in Nat /\ w = z \o t
    BY <1>8, FlagIs, ConcatProperties, LenProperties
  <2> HIDE DEF t
  <2>2. Len(w) = Len(z) + Len(t) /\ Len(z) \in Nat
    BY <2>1, ConcatProperties, LenProperties
  <2>3. Len(w) # 0
    BY <2>1, <2>2
  <2> QED
    BY <2>3
<1>10. Unpacked([buffer |-> b, packets |-> <<>>], w, ps)
  BY <1>3, <1>4, <1>9, UnpackedRest
<1> QED
  BY <1>10 DEF b

(* The second flag is the first that follows the first.                     *)
LEMMA SecondIs ==
    ASSUME NEW x \in Seq(AnyByte), NEW i \in 1 .. Len(x) + 1, Paired(x, i)
    PROVE  /\ First(x, i) + 1 \in 1 .. Len(x) + 1
           /\ FlagsAt(x, First(x, i) + 1) # {}
           /\ First(x, First(x, i) + 1) = Second(x, i)
<1> DEFINE a == First(x, i)
           T == FlagsAt(x, i)
           l == Len(x)
<1>1. a \in i .. l /\ T # {} /\ T # {a} /\ l \in Nat /\ i \in 1 .. l + 1
  BY PairIs DEF Paired
<1>2. \A k \in T : a <= k
  <2>1. T \in SUBSET Nat /\ a = Min(T)
    BY <1>1 DEF FlagsAt, First
  <2> HIDE DEF T
  <2> QED
    BY <1>1, <2>1, MinIs
<1>3. a \in T
  <2>1. x[a] = Plain(PppFlag)
    BY <1>1, PairIs
  <2> HIDE DEF a
  <2> QED
    BY <1>1, <2>1 DEF FlagsAt
<1> DEFINE m == a + 1
           U == FlagsAt(x, m)
<1>4. U = T \ {a}
  <2>1. \A k \in m .. l : k \in i .. l /\ k # a
    <3> HIDE DEF a, l
    <3> QED
      BY <1>1
  <2>2. \A k \in i .. l : k >= a /\ k # a => k \in m .. l
    <3> HIDE DEF a, l
    <3> QED
      BY <1>1
  <2>3. T = {k \in i .. l : x[k] = Plain(PppFlag)} /\ U = {k \in m .. l : x[k] = Plain(PppFlag)}
    BY DEF FlagsAt
  <2>4. ASSUME NEW k \in U PROVE k \in T \ {a}
    <3>1. k \in m .. l /\ x[k] = Plain(PppFlag)
      BY <2>3, <2>4
    <3> HIDE DEF T, U, a, m, l
    <3> QED
      BY <2>1, <2>3, <3>1
  <2>5. ASSUME NEW k \in T \ {a} PROVE k \in U
    <3>1. k \in i .. l /\ x[k] = Plain(PppFlag) /\ a <= k /\ k # a
      BY <1>2, <2>3, <2>5
    <3> HIDE DEF T, U, a, m, l
    <3>2. k >= a
      BY <1>1, <3>1
    <3>3. k \in m .. l
      BY <2>2, <3>1, <3>2
    <3> QED
      BY <2>3, <3>1, <3>3
  <2> HIDE DEF T, U, a, m
  <2> QED
    BY <2>4, <2>5
<1>5. m \in 1 .. l + 1
  <2> HIDE DEF a, l
  <2> QED
    BY <1>1
<1>6. U # {}
  <2> HIDE DEF U, T, a
  <2> QED
    BY <1>1, <1>3, <1>4
<1>7. First(x, m) = Second(x, i)
  BY <1>4 DEF First, Second
<1> QED
  BY <1>5, <1>6, <1>7

(* Two flags and what is between.                                           *)
LEMMA UnpackPair ==
    ASSUME NEW x \in Seq(AnyByte), NEW w \in Seq(AnyByte), NEW i \in 1 .. Len(x) + 1,
           NEW ps \in Seq(Packet), Carried(SubSeq(x, i, Len(x)) \o w, ps), Paired(x, i)
    PROVE  LET e == Second(x, i) + 1 IN
           /\ e \in i + 1 .. Len(x) + 1
           /\ PppSound(Body(x, i)) /\ PacketOf(Body(x, i)) = Head(ps)
           /\ ps # <<>> /\ Head(ps) \in Packet /\ Tail(ps) \in Seq(Packet)
           /\ ps = <<Head(ps)>> \o Tail(ps)
           /\ Carried(SubSeq(x, e, Len(x)) \o w, Tail(ps))
<1> DEFINE a == First(x, i)
           b == Second(x, i)
           e == b + 1
           u == SubSeq(x, a + 1, Len(x))
           c == Inner(x, i)
           t == SubSeq(x, e, Len(x))
<1>1. FlagsAt(x, i) # {}
  BY DEF Paired
<1>2. a \in i .. Len(x) /\ u \in Seq(AnyByte) /\ Framed(u \o w, ps)
  BY <1>1, OpenedAt
<1>3. b \in a + 1 .. Len(x)
  BY <1>1, PairIs
<1>4. c \in Seq(Inside) /\ t \in Seq(AnyByte) /\ u = c \o (FlagByte \o t)
  <2> DEFINE m == a + 1
  <2>1. m \in 1 .. Len(x) + 1 /\ FlagsAt(x, m) # {} /\ First(x, m) = b
    BY SecondIs
  <2> HIDE DEF m
  <2>2. /\ SubSeq(x, First(x, m) + 1, Len(x)) \in Seq(AnyByte)
        /\ SubSeq(x, m, First(x, m) - 1) \in Seq(Inside)
        /\ SubSeq(x, m, Len(x)) = SubSeq(x, m, First(x, m) - 1)
               \o (FlagByte \o SubSeq(x, First(x, m) + 1, Len(x)))
    BY <2>1, FlagsCut
  <2>3. c = SubSeq(x, m, First(x, m) - 1)
    BY <2>1 DEF Inner, m
  <2>4. u = SubSeq(x, m, Len(x))
    BY DEF m
  <2>5. t = SubSeq(x, First(x, m) + 1, Len(x))
    BY <2>1
  <2> QED
    BY <2>2, <2>3, <2>4, <2>5
<1>5. e \in i + 1 .. Len(x) + 1
  <2>1. i \in Nat /\ Len(x) \in Nat
    OBVIOUS
  <2> HIDE DEF a, b
  <2> QED
    BY <1>2, <1>3, <2>1
<1>6. PICK c2 \in Seq(Inside), v \in Seq(AnyByte) :
          /\ u \o w = c2 \o (FlagByte \o v)
          /\ PppSound(Unescape(c2)) /\ PacketOf(Unescape(c2)) = Head(ps)
          /\ Carried(v, Tail(ps))
  BY <1>2 DEF Framed
<1>7. Body(x, i) = Unescape(c)
  BY DEF Body
<1> DEFINE tw == t \o w
<1> HIDE DEF a, b, c, u, t, e
<1>8. tw \in Seq(AnyByte) /\ c \in Seq(AnyByte) /\ FlagByte \in Seq(AnyByte)
  BY <1>4, FlagIs, ConcatProperties
<1>9. u \o w = c \o (FlagByte \o tw)
  <2> DEFINE one == FlagByte
             ft == one \o t
  <2>1. t \in Seq(AnyByte) /\ one \in Seq(AnyByte) /\ c \in Seq(AnyByte) /\ w \in Seq(AnyByte)
    BY <1>4, <1>8
  <2> HIDE DEF one
  <2>2. Associate(one, t, w)
    BY ONLY <2>1, Joined
  <2>3. ft \in Seq(AnyByte)
    BY <2>1, ConcatProperties
  <2>4. u = c \o ft /\ ft = one \o t
    BY <1>4 DEF one
  <2> HIDE DEF ft
  <2>5. Associate(c, ft, w)
    BY ONLY <2>1, <2>3, Joined
  <2>6. u \o w = c \o (one \o (t \o w))
    BY <2>2, <2>4, <2>5 DEF Associate
  <2> QED
    BY <2>6 DEF one
<1> HIDE DEF tw
<1>10. c = c2 /\ tw = v
  <2>1. c \o (FlagByte \o tw) = c2 \o (FlagByte \o v)
    BY <1>6, <1>9
  <2>2. c \in Seq(Inside) /\ c2 \in Seq(Inside) /\ tw \in Seq(AnyByte) /\ v \in Seq(AnyByte)
    BY <1>4, <1>6, <1>8
  <2>3. ASSUME NEW c1 \in Seq(Inside), NEW v1 \in Seq(AnyByte),
               c1 \o (FlagByte \o v1) = c2 \o (FlagByte \o v)
        PROVE  c1 = c2 /\ v1 = v
    BY <2>3, FirstFlag
  <2> QED
    BY <2>1, <2>2, <2>3, Zenon
<1>11. Carried(t \o w, Tail(ps))
  BY <1>6, <1>10 DEF tw
<1>12. PppSound(Body(x, i)) /\ PacketOf(Body(x, i)) = Head(ps)
  BY <1>6, <1>7, <1>10
<1>13. /\ ps # <<>> /\ Head(ps) \in Packet /\ Tail(ps) \in Seq(Packet)
       /\ ps = <<Head(ps)>> \o Tail(ps)
  BY <1>2 DEF Framed
<1> QED
  BY <1>5, <1>11, <1>12, <1>13 DEF t, e, b

(* However the bytes arrive, PppParser finds every packet they carry.       *)
LEMMA PppParseClean ==
    ASSUME NEW x \in Seq(AnyByte), NEW w \in Seq(AnyByte), NEW ps \in Seq(Packet),
           Carried(x \o w, ps)
    PROVE  Unpacked(PppParse(x), w, ps)
<1> DEFINE l == Len(x)
           n == l + 1
           from(i) == SubSeq(x, i, l)
<1>1. PICK f : (\A i \in 1 .. n : f[i] = PppFrom(x, f, i)) /\ PppParse(x) = f[1]
  BY PppParseIs
<1> DEFINE P == {i \in 1 .. n : \A qs \in Seq(Packet) :
                     Carried(from(i) \o w, qs) => Unpacked(f[i], w, qs)}
<1>0. l \in Nat /\ n \in Nat /\ n = l + 1 /\ l = Len(x)
  OBVIOUS
<1>2. ASSUME NEW i \in 1 .. n, i + 1 .. n \subseteq P PROVE i \in P
  <2> SUFFICES ASSUME NEW qs \in Seq(Packet), Carried(from(i) \o w, qs)
               PROVE  Unpacked(f[i], w, qs)
    OBVIOUS
  <2>0. f[i] = PppFrom(x, f, i)
    BY <1>1
  <2>1. CASE FlagsAt(x, i) = {}
    BY <2>0, <2>1, UnpackNone DEF PppFrom
  <2>2. CASE FlagsAt(x, i) # {} /\ FlagsAt(x, i) = {First(x, i)}
    <3>1. f[i] = [buffer |-> SubSeq(x, First(x, i), l), packets |-> <<>>]
      BY <2>0, <2>2 DEF PppFrom
    <3>2. Unpacked([buffer |-> SubSeq(x, First(x, i), l), packets |-> <<>>], w, qs)
      BY <2>2, UnpackOne
    <3> QED
      BY <3>1, <3>2
  <2>3. CASE FlagsAt(x, i) # {} /\ FlagsAt(x, i) # {First(x, i)}
    <3> DEFINE e == Second(x, i) + 1
    <3>1. /\ e \in i + 1 .. n
          /\ PppSound(Body(x, i)) /\ PacketOf(Body(x, i)) = Head(qs)
          /\ Head(qs) \in Packet /\ Tail(qs) \in Seq(Packet) /\ qs = <<Head(qs)>> \o Tail(qs)
          /\ Carried(from(e) \o w, Tail(qs))
      <4>1. Paired(x, i)
        BY <2>3 DEF Paired
      <4> QED
        BY <4>1, UnpackPair
    <3>2. f[i] = [buffer |-> f[e].buffer, packets |-> <<Head(qs)>> \o f[e].packets]
      BY <2>0, <2>3, <3>1 DEF PppFrom
    <3> HIDE DEF e, from
    <3>3. Unpacked(f[e], w, Tail(qs))
      <4>1. e \in P
        <5> HIDE DEF P, n
        <5> QED
          BY <1>2, <3>1
      <4> QED
        BY <3>1, <4>1
    <3> DEFINE y == f[e]
               p == Head(qs)
    <3>4. Unpacked(y, w, Tail(qs)) /\ p \in Packet /\ Tail(qs) \in Seq(Packet) /\ qs = <<p>> \o Tail(qs)
      BY <3>1, <3>3
    <3> HIDE DEF y, p
    <3>5. Unpacked([buffer |-> y.buffer, packets |-> <<p>> \o y.packets], w, qs)
      BY <3>4, UnpackedMore
    <3> QED
      BY <3>2, <3>5 DEF y, p
  <2> QED
    BY <2>1, <2>2, <2>3
<1>3. 1 .. n \subseteq P
  <2> HIDE DEF P, n
  <2> QED
    BY <1>0, <1>2, Downward
<1>4. 1 \in P /\ from(1) = x
  <2>1. 1 \in 1 .. n
    BY <1>0
  <2>2. from(1) = x
    OBVIOUS
  <2> QED
    BY <1>3, <2>1, <2>2
<1>5. Carried(from(1) \o w, ps)
  BY <1>4
<1>6. Unpacked(f[1], w, ps)
  <2> HIDE DEF from
  <2> QED
    BY <1>4, <1>5
<1> QED
  BY <1>1, <1>6

-----------------------------------------------------------------------------
(* What PppParser holds and what is still to come, p and rest, carry the    *)
(* packets that are not received yet; it holds nothing when nothing comes.  *)
PppWhole(p, rest, outp, inp) ==
    /\ \E ps \in Seq(Packet) : outp = inp \o ps /\ Carried(p \o rest, ps)
    /\ rest = <<>> => p = <<>>

LEMMA WholeFed ==
    ASSUME NEW p \in Seq(AnyByte), NEW d \in Seq(AnyByte), NEW rest \in Seq(AnyByte),
           NEW outp \in Seq(Packet), NEW inp \in Seq(Packet), PppWhole(p, d \o rest, outp, inp)
    PROVE  LET res == PppParse(p \o d) IN
           /\ res.buffer \in Seq(AnyByte) /\ res.packets \in Seq(Packet)
           /\ PppWhole(res.buffer, rest, outp, inp \o res.packets)
<1> DEFINE pd == p \o d
           res == PppParse(pd)
           b == res.buffer
           new == res.packets
<1>1. PICK ps \in Seq(Packet) : outp = inp \o ps /\ Carried(p \o (d \o rest), ps)
  BY DEF PppWhole
<1>2. pd \in Seq(AnyByte) /\ pd = p \o d
  BY ConcatProperties
<1>3. pd \o rest = p \o (d \o rest)
  <2>1. p \in Seq(AnyByte) /\ d \in Seq(AnyByte) /\ rest \in Seq(AnyByte)
    OBVIOUS
  <2>2. Associate(p, d, rest)
    BY ONLY <2>1, Joined
  <2> QED
    BY <2>2 DEF Associate
<1> HIDE DEF pd
<1>4. Carried(pd \o rest, ps)
  BY <1>1, <1>3
<1>5. Unpacked(res, rest, ps)
  BY <1>2, <1>4, PppParseClean
<1>6. new \in Seq(Packet) /\ b \in Seq(AnyByte) /\ (rest = <<>> => b = <<>>)
  BY <1>5 DEF Unpacked
<1>7. PICK qs \in Seq(Packet) : ps = new \o qs /\ Carried(b \o rest, qs)
  BY <1>5 DEF Unpacked
<1> HIDE DEF b, new
<1>8. outp = (inp \o new) \o qs
  <2>1. inp \in Seq(Packet) /\ new \in Seq(Packet) /\ qs \in Seq(Packet)
    BY <1>6
  <2>2. (inp \o new) \o qs = inp \o (new \o qs)
    BY ONLY <2>1, Regroup, SMTT(20)
  <2> QED
    BY <1>1, <1>7, <2>2
<1>9. PppWhole(b, rest, outp, inp \o new)
  BY <1>6, <1>7, <1>8 DEF PppWhole
<1> QED
  BY <1>2, <1>6, <1>9 DEF b, new, pd

(* Before a packet is sent, what comes may be dropped.                      *)
LEMMA WholeDropped ==
    ASSUME NEW d \in Seq(AnyByte), NEW rest \in Seq(AnyByte), NEW inp \in Seq(Packet),
           PppWhole(<<>>, d \o rest, <<>>, inp)
    PROVE  PppWhole(<<>>, rest, <<>>, inp)
<1> DEFINE none == <<>>
           dr == d \o rest
<1>1. PICK ps \in Seq(Packet) : none = inp \o ps /\ Carried(none \o dr, ps)
  BY DEF PppWhole
<1>2. ps = none
  <2>1. Len(none) = Len(inp) + Len(ps) /\ Len(inp) \in Nat /\ Len(ps) \in Nat /\ Len(none) = 0
    BY <1>1, ConcatProperties, LenProperties
  <2>2. Len(ps) = 0
    BY <2>1
  <2> QED
    BY <2>2, EmptySeq
<1>3. dr \in Seq(AnyByte) /\ none \o dr = dr /\ none = <<>> /\ none \o rest = rest
  BY ConcatProperties, Regroup
<1> HIDE DEF none
<1>4. dr \in Seq(Inside)
  <2>1. Carried(dr, <<>>)
    BY <1>1, <1>2, <1>3
  <2> QED
    BY <2>1, CarriedNone
<1>5. rest \in Seq(Inside)
  <2>1. SubSeq(dr, Len(d) + 1, Len(d) + Len(rest)) = rest /\ Len(dr) = Len(d) + Len(rest)
    BY Halves
  <2>2. Len(d) \in Nat /\ Len(rest) \in Nat
    BY LenProperties
  <2> DEFINE i == Len(d) + 1
             n == Len(dr)
  <2>3. i \in 1 .. n + 1
    BY <2>1, <2>2
  <2>4. SubSeq(dr, i, n) = rest
    BY <2>1
  <2> HIDE DEF i, dr
  <2>5. SubSeq(dr, i, n) \in Seq(Inside)
    BY <1>4, <2>3, FromIs
  <2> QED
    BY <2>4, <2>5
<1>6. Carried(none \o rest, ps)
  BY <1>2, <1>3, <1>5, CarriedNone
<1>7. PppWhole(none, rest, none, inp)
  BY <1>1, <1>3, <1>6 DEF PppWhole
<1> QED
  BY <1>3, <1>7

LEMMA WholeInit == PppWhole(<<>>, <<>>, <<>>, <<>>)
<1> DEFINE none == <<>>
<1>1. none \in Seq(Packet) /\ none = none \o none /\ none = <<>>
  OBVIOUS
<1>2. Carried(none, none)
  BY CarriedNone
<1> HIDE DEF none
<1>3. PppWhole(none, none, none, none)
  BY <1>1, <1>2 DEF PppWhole
<1> QED
  BY <1>1, <1>3

LEMMA WholeDone ==
    ASSUME NEW p \in Seq(AnyByte), NEW outp \in Seq(Packet), NEW inp \in Seq(Packet),
           PppWhole(p, <<>>, outp, inp)
    PROVE  outp = inp
<1> DEFINE none == <<>>
<1>1. PICK ps \in Seq(Packet) : outp = inp \o ps /\ Carried(p \o none, ps)
  BY DEF PppWhole
<1>2. p = none
  BY DEF PppWhole
<1>3. none \o none = none /\ none = <<>>
  OBVIOUS
<1> HIDE DEF none
<1>4. ps = <<>>
  BY <1>1, <1>2, <1>3, CarriedNone
<1> QED
  BY <1>1, <1>4, Regroup

LEMMA CarriedText ==
    ASSUME NEW s \in Seq(AnyByte), NEW ps, Carried(s, ps), NEW t \in Seq(Inside)
    PROVE  Carried(s \o t, ps)
<1>1. PICK a \in Seq(AnyByte), j \in Seq(Inside) : s = a \o j /\ Encodes(PppCodes, a, ps)
  BY DEF Carried
<1>2. j \in Seq(AnyByte) /\ t \in Seq(AnyByte) /\ j \o t \in Seq(Inside)
  BY FlagIs, ConcatProperties
<1>3. s \o t = a \o (j \o t)
  <2>1. a \in Seq(AnyByte) /\ j \in Seq(AnyByte) /\ t \in Seq(AnyByte)
    BY <1>2
  <2>2. Associate(a, j, t)
    BY ONLY <2>1, Joined
  <2> QED
    BY <1>1, <2>2 DEF Associate
<1> DEFINE x == s \o t
           k == j \o t
<1>4. x = a \o k /\ k \in Seq(Inside)
  BY <1>2, <1>3
<1> HIDE DEF x, k
<1>5. Carried(x, ps)
  BY <1>1, <1>4 DEF Carried
<1> QED
  BY <1>5 DEF x

LEMMA CarriedPacket ==
    ASSUME NEW s \in Seq(AnyByte), NEW ps \in Seq(Packet), Carried(s, ps),
           NEW x \in Packet, NEW compressed, Fit(x, compressed)
    PROVE  Carried(s \o MakePppFrame(x, compressed), Append(ps, x))
<1> DEFINE m == MakePppFrame(x, compressed)
           none == <<>>
           one == <<x>>
<1>1. PICK a \in Seq(AnyByte), j \in Seq(Inside) : s = a \o j /\ Encodes(PppCodes, a, ps)
  BY DEF Carried
<1> DEFINE b == j \o m
<1>2. m \in Seq(AnyByte) /\ b \in Seq(AnyByte) /\ <<b, x>> \in PppCodes
  BY MakePppFrameIsCode
<1>3. b = j \o m /\ j \in Seq(AnyByte)
  BY FlagIs
<1> HIDE DEF m, b
<1>4. Encodes(PppCodes, a \o b, ps \o one)
  <2>1. Encodes(PppCodes, b, one)
    BY <1>2, EncodesOne
  <2>2. one \in Seq(Packet)
    OBVIOUS
  <2> HIDE DEF one
  <2> QED
    BY <1>1, <2>1, <2>2, EncodesConcat
<1>5. ps \o one = Append(ps, x)
  BY AppendIsConcat
<1>6. s \o m = a \o b
  <2>1. a \in Seq(AnyByte) /\ j \in Seq(AnyByte) /\ m \in Seq(AnyByte)
    BY <1>2, <1>3
  <2>2. Associate(a, j, m)
    BY ONLY <2>1, Joined
  <2> QED
    BY <1>1, <1>3, <2>2 DEF Associate
<1>7. none \in Seq(Inside) /\ (a \o b) \o none = a \o b /\ a \o b \in Seq(AnyByte)
  BY <1>2, ConcatProperties, Regroup
<1> DEFINE c == a \o b
           q == Append(ps, x)
<1>8. c \in Seq(AnyByte) /\ c = c \o none /\ none \in Seq(Inside) /\ Encodes(PppCodes, c, q)
  BY <1>4, <1>5, <1>7
<1> HIDE DEF c, q, none
<1>9. Carried(c, q)
  BY <1>8 DEF Carried
<1> QED
  BY <1>6, <1>9 DEF c, q, m

(* What is sent is added behind.                                            *)
LEMMA WholeMore ==
    ASSUME NEW p \in Seq(AnyByte), NEW rest \in Seq(AnyByte), NEW d \in Seq(AnyByte),
           NEW outp \in Seq(Packet), NEW inp \in Seq(Packet), PppWhole(p, rest, outp, inp)
    PROVE  /\ d \in Seq(Inside) => PppWhole(p, rest \o d, outp, inp)
           /\ \A x \in Packet : \A compressed :
                  Fit(x, compressed) /\ d = MakePppFrame(x, compressed)
                      => PppWhole(p, rest \o d, Append(outp, x), inp)
<1> DEFINE s == p \o rest
           more == rest \o d
<1>1. PICK ps \in Seq(Packet) : outp = inp \o ps /\ Carried(s, ps)
  BY DEF PppWhole
<1>2. s \in Seq(AnyByte) /\ s \o d = p \o more
  <2>1. p \in Seq(AnyByte) /\ rest \in Seq(AnyByte) /\ d \in Seq(AnyByte)
    OBVIOUS
  <2>2. Associate(p, rest, d)
    BY ONLY <2>1, Joined
  <2> QED
    BY <2>2, ConcatProperties DEF Associate
<1>3. more = <<>> => p = <<>>
  <2>1. more = <<>> => rest = <<>>
    <3>1. Len(more) = Len(rest) + Len(d) /\ Len(rest) \in Nat /\ Len(d) \in Nat
      BY ConcatProperties, LenProperties
    <3> HIDE DEF more
    <3>2. ASSUME more = <<>> PROVE Len(rest) = 0
      <4> DEFINE k == Len(more)
                 l == Len(rest)
                 n == Len(d)
      <4>1. k = 0 /\ k = l + n /\ l \in Nat /\ n \in Nat
        BY <3>1, <3>2
      <4> HIDE DEF k, l, n
      <4>2. l = 0
        BY ONLY <4>1
      <4> QED
        BY <4>2 DEF l
    <3> QED
      BY <3>2, EmptySeq
  <2> QED
    BY <2>1 DEF PppWhole
<1> HIDE DEF s, more
<1>4. ASSUME d \in Seq(Inside) PROVE PppWhole(p, more, outp, inp)
  <2>1. Carried(s \o d, ps)
    BY <1>1, <1>2, <1>4, CarriedText
  <2> QED
    BY <1>1, <1>2, <1>3, <2>1 DEF PppWhole
<1>5. ASSUME NEW x \in Packet, NEW compressed, Fit(x, compressed), d = MakePppFrame(x, compressed)
      PROVE  PppWhole(p, more, Append(outp, x), inp)
  <2> DEFINE q == Append(ps, x)
             o == Append(outp, x)
             m == MakePppFrame(x, compressed)
  <2>1. Carried(s \o m, q)
    BY <1>1, <1>2, <1>5, CarriedPacket
  <2>2. q \in Seq(Packet)
    OBVIOUS
  <2>3. o = inp \o q
    <3> DEFINE one == <<x>>
    <3>1. one \in Seq(Packet) /\ q = ps \o one /\ o = outp \o one
      BY AppendIsConcat
    <3> HIDE DEF one
    <3>2. (inp \o ps) \o one = inp \o (ps \o one)
      <4>1. inp \in Seq(Packet) /\ ps \in Seq(Packet) /\ one \in Seq(Packet)
        BY <3>1
      <4> QED
        BY ONLY <4>1, Assoc, SMTT(20)
    <3> QED
      BY <1>1, <3>1, <3>2
  <2> HIDE DEF q, o, m
  <2>4. Carried(p \o more, q)
    BY <1>2, <1>5, <2>1 DEF m
  <2>5. PppWhole(p, more, o, inp)
    BY <1>3, <2>2, <2>3, <2>4 DEF PppWhole
  <2> QED
    BY <2>5 DEF o
<1> QED
  BY <1>4, <1>5 DEF more

-----------------------------------------------------------------------------
(* What frames name and what they carry for PPP.                            *)

HeadersOf(q) == [i \in DOMAIN q |-> Header(q[i].dlci, q[i].info)]

(* all: without the multiplexer every byte is for PPP.                      *)
PppPart(all, f) == IF all \/ f.dlci = PppDlci THEN f.info ELSE <<>>
PppParts(all, q) == [i \in DOMAIN q |-> PppPart(all, q[i])]
PppData(all, q) == FlattenSeq(PppParts(all, q))

LEMMA PartsType ==
    ASSUME NEW all, NEW q \in Seq(Frame)
    PROVE  /\ HeadersOf(q) \in Seq(LineHead) /\ Len(HeadersOf(q)) = Len(q)
           /\ \A i \in 1 .. Len(q) : HeadersOf(q)[i] = Header(q[i].dlci, q[i].info)
           /\ PppParts(all, q) \in Seq(Seq(AnyByte)) /\ Len(PppParts(all, q)) = Len(q)
           /\ \A i \in 1 .. Len(q) : PppParts(all, q)[i] = PppPart(all, q[i])
           /\ PppData(all, q) \in Seq(AnyByte)
<1> DEFINE T == Seq(AnyByte)
           n == Len(q)
           h == HeadersOf(q)
           p == PppParts(all, q)
<1>1. n \in Nat /\ DOMAIN q = 1 .. n /\ \A i \in 1 .. n : q[i] \in Frame
  OBVIOUS
<1>2. \A f \in Frame : PppPart(all, f) \in T
  BY DEF Frame, PppPart
<1>3. HeadersOf(q) \in Seq(LineHead)
  BY HeadsAreLabels DEF HeadersOf
<1> HIDE DEF n
<1>4. h = [i \in 1 .. n |-> Header(q[i].dlci, q[i].info)] /\ p = [i \in 1 .. n |-> PppPart(all, q[i])]
  BY <1>1 DEF HeadersOf, PppParts
<1>5. p \in Seq(T)
  <2>1. \A i \in 1 .. n : PppPart(all, q[i]) \in T
    BY <1>1, <1>2
  <2> HIDE DEF T, p
  <2> QED
    BY <1>1, <1>4, <2>1
<1>6. Len(h) = n /\ Len(p) = n
  <2> HIDE DEF h, p
  <2> QED
    BY <1>1, <1>4
<1>7. FlattenSeq(p) \in Seq(AnyByte)
  BY <1>5, FlattenType
<1>8. \A i \in 1 .. n : h[i] = Header(q[i].dlci, q[i].info) /\ p[i] = PppPart(all, q[i])
  <2> HIDE DEF h, p
  <2> QED
    BY <1>4
<1> QED
  BY <1>3, <1>5, <1>6, <1>7, <1>8 DEF n, h, p, PppData

LEMMA PartsConcat ==
    ASSUME NEW all, NEW q \in Seq(Frame), NEW r \in Seq(Frame)
    PROVE  /\ HeadersOf(q \o r) = HeadersOf(q) \o HeadersOf(r)
           /\ PppData(all, q \o r) = PppData(all, q) \o PppData(all, r)
<1> DEFINE T == Seq(AnyByte)
           qr == q \o r
           n == Len(q)
           m == Len(r)
<1>1. /\ n \in Nat /\ m \in Nat /\ qr \in Seq(Frame) /\ Len(qr) = n + m
      /\ \A i \in 1 .. n : qr[i] = q[i] /\ i \in 1 .. n + m
      /\ \A i \in 1 .. m : qr[n + i] = r[i] /\ n + i \in 1 .. n + m
  OBVIOUS
<1> HIDE DEF qr
<1>2. HeadersOf(qr) = HeadersOf(q) \o HeadersOf(r)
  <2> DEFINE x == HeadersOf(q)
             y == HeadersOf(r)
             z == HeadersOf(qr)
  <2>1. /\ x \in Seq(LineHead) /\ y \in Seq(LineHead) /\ z \in Seq(LineHead)
        /\ Len(x) = n /\ Len(y) = m /\ Len(z) = n + m
        /\ \A i \in 1 .. n : x[i] = Header(q[i].dlci, q[i].info)
        /\ \A i \in 1 .. m : y[i] = Header(r[i].dlci, r[i].info)
        /\ \A i \in 1 .. n + m : z[i] = Header(qr[i].dlci, qr[i].info)
    <3>1. x \in Seq(LineHead) /\ Len(x) = n
          /\ \A i \in 1 .. n : x[i] = Header(q[i].dlci, q[i].info)
      BY PartsType
    <3>2. y \in Seq(LineHead) /\ Len(y) = m
          /\ \A i \in 1 .. m : y[i] = Header(r[i].dlci, r[i].info)
      BY PartsType
    <3>3. z \in Seq(LineHead) /\ Len(z) = n + m
          /\ \A i \in 1 .. n + m : z[i] = Header(qr[i].dlci, qr[i].info)
      <4>1. qr \in Seq(Frame) /\ Len(qr) = n + m
        BY <1>1
      <4> HIDE DEF qr
      <4> QED
        BY <4>1, PartsType, ZenonT(40)
    <3> QED
      BY <3>1, <3>2, <3>3
  <2> HIDE DEF x, y, z, n, m
  <2>2. ASSUME NEW i \in 1 .. n PROVE z[i] = x[i]
    <3>1. i \in 1 .. n + m /\ qr[i] = q[i]
      BY <1>1
    <3> QED
      BY <2>1, <3>1
  <2>3. ASSUME NEW i \in 1 .. m PROVE z[n + i] = y[i]
    <3> DEFINE k == n + i
    <3>1. k \in 1 .. n + m /\ qr[k] = r[i]
      BY <1>1
    <3> HIDE DEF k
    <3>2. z[k] = y[i]
      BY <2>1, <3>1
    <3> QED
      BY <3>2 DEF k
  <2>4. z = x \o y
    BY <2>1, <2>2, <2>3, ConcatIs
  <2> QED
    BY <2>4 DEF x, y, z
<1>3. PppParts(all, qr) = PppParts(all, q) \o PppParts(all, r)
  <2> DEFINE x == PppParts(all, q)
             y == PppParts(all, r)
             z == PppParts(all, qr)
  <2>1. /\ x \in Seq(T) /\ y \in Seq(T) /\ z \in Seq(T)
        /\ Len(x) = n /\ Len(y) = m /\ Len(z) = n + m
        /\ \A i \in 1 .. n : x[i] = PppPart(all, q[i])
        /\ \A i \in 1 .. m : y[i] = PppPart(all, r[i])
        /\ \A i \in 1 .. n + m : z[i] = PppPart(all, qr[i])
    <3>1. x \in Seq(T) /\ Len(x) = n /\ \A i \in 1 .. n : x[i] = PppPart(all, q[i])
      BY PartsType
    <3>2. y \in Seq(T) /\ Len(y) = m /\ \A i \in 1 .. m : y[i] = PppPart(all, r[i])
      BY PartsType
    <3>3. z \in Seq(T) /\ Len(z) = n + m /\ \A i \in 1 .. n + m : z[i] = PppPart(all, qr[i])
      <4>1. qr \in Seq(Frame) /\ Len(qr) = n + m
        BY <1>1
      <4> HIDE DEF qr
      <4> QED
        BY <4>1, PartsType, ZenonT(40)
    <3> QED
      BY <3>1, <3>2, <3>3
  <2> HIDE DEF x, y, z, n, m, T
  <2>2. ASSUME NEW i \in 1 .. n PROVE z[i] = x[i]
    <3>1. i \in 1 .. n + m /\ qr[i] = q[i]
      BY <1>1
    <3> QED
      BY <2>1, <3>1
  <2>3. ASSUME NEW i \in 1 .. m PROVE z[n + i] = y[i]
    <3> DEFINE k == n + i
    <3>1. k \in 1 .. n + m /\ qr[k] = r[i]
      BY <1>1
    <3> HIDE DEF k
    <3>2. z[k] = y[i]
      BY <2>1, <3>1
    <3> QED
      BY <3>2 DEF k
  <2>4. z = x \o y
    BY <2>1, <2>2, <2>3, ConcatIs
  <2> QED
    BY <2>4 DEF x, y, z
<1>4. PppParts(all, q) \in Seq(Seq(AnyByte)) /\ PppParts(all, r) \in Seq(Seq(AnyByte))
  BY PartsType
<1>5. PppData(all, qr) = PppData(all, q) \o PppData(all, r)
  BY <1>3, <1>4, FlattenConcat DEF PppData
<1> QED
  BY <1>2, <1>5 DEF qr

LEMMA PartsOne ==
    ASSUME NEW all, NEW f \in Frame
    PROVE  /\ HeadersOf(<<f>>) = <<Header(f.dlci, f.info)>>
           /\ PppData(all, <<f>>) = PppPart(all, f)
           /\ PppPart(all, f) \in Seq(AnyByte)
<1> DEFINE one == <<f>>
           p == PppPart(all, f)
<1>1. one \in Seq(Frame) /\ Len(one) = 1 /\ one[1] = f
  OBVIOUS
<1>2. HeadersOf(<<f>>) = <<Header(f.dlci, f.info)>>
  BY DEF HeadersOf
<1>3. PppParts(all, <<f>>) = <<p>>
  BY DEF PppParts
<1>4. p \in Seq(AnyByte)
  BY DEF Frame, PppPart
<1> HIDE DEF p
<1>5. FlattenSeq(<<p>>) = p
  BY <1>4, FlattenOne
<1> QED
  BY <1>2, <1>3, <1>4, <1>5 DEF PppData, p

LEMMA PartsNone ==
    ASSUME NEW all
    PROVE  HeadersOf(<<>>) = <<>> /\ PppData(all, <<>>) = <<>>
<1>1. HeadersOf(<<>>) = <<>> /\ PppParts(all, <<>>) = <<>>
  BY DEF HeadersOf, PppParts
<1>2. FlattenSeq(<<>>) = <<>>
  BY HeadsNone
<1> QED
  BY <1>1, <1>2 DEF PppData

-----------------------------------------------------------------------------
(* The line                                                                 *)

All == way.dir = "serial"

(* What is on the line for PPP when the frames fs are, and with it all that *)
(* has still to come to PppParser.                                          *)
OnLine(fs) == IF All THEN wire ELSE PppData(FALSE, fs)
Coming(fs) == PppData(All, queue) \o (OnLine(fs) \o Unsent)

FramesWhole(fs) ==
    /\ sent.frames = got.frames \o HeadersOf(fs)
    /\ IF All THEN fs = <<>> ELSE Encodes(FrameCodes, buf \o wire, fs)

CleanInv ==
    /\ \E fs \in Seq(Frame) :
           /\ FramesWhole(fs)
           /\ way.ppp /\ ~sent.mixed => PppWhole(ppp, Coming(fs), sent.packets, got.packets)
    /\ wire = <<>> => buf = <<>>
    /\ ~way.ppp => sent.packets = got.packets
    /\ ~running => ppp = <<>> /\ sent.packets = <<>>

LEMMA NoFlagAddress ==
    ASSUME NEW dlci \in {AtDlci, PppDlci}, NEW cr \in {0, 1}
    PROVE  Flag # Val(Address(dlci, cr))
<1>1. CASE cr = 0
  BY <1>1, PathAssumption
<1>2. CASE cr = 1
  <2>1. Flag % 4 = 1
    BY FramesAssumption
  <2>2. Val(Address(AtDlci, 1)) = 7 /\ Val(Address(PppDlci, 1)) = 11
    BY DEF Address, Plain, Val, AtDlci, PppDlci
  <2>3. Flag # 7 /\ Flag # 11
    BY <2>1
  <2> QED
    BY <1>2, <2>2, <2>3
<1> QED
  BY <1>1, <1>2

(* A frame that goes out undamaged is one more on the line.                 *)
LEMMA UihWritten ==
    ASSUME TypeInv, way.dir # "serial", faults' = faults,
           NEW dlci \in {AtDlci, PppDlci}, NEW info \in Seq(PppByte), Len(info) <= N1,
           Uih(dlci, info), UNCHANGED <<way, buf, got>>,
           sent'.frames = Append(sent.frames, Header(dlci, info)),
           NEW fs \in Seq(Frame), FramesWhole(fs)
    PROVE  LET f == [dlci |-> dlci, info |-> info]
               gs == fs \o <<f>>
           IN  /\ gs \in Seq(Frame) /\ FramesWhole(gs)'
               /\ OnLine(gs)' = OnLine(fs) \o PppPart(FALSE, f)
               /\ wire' # <<>>
<1> DEFINE cr == IF way.dir = "tx" THEN 1 ELSE 0
           f == [dlci |-> dlci, info |-> info]
           one == <<f>>
           gs == fs \o one
           h == Header(dlci, info)
<1>1. PICK v \in FcsValues : OnWire(MakeFrame(dlci, cr, Control, info, v))
  BY DEF Uih
<1> DEFINE m == MakeFrame(dlci, cr, Control, info, v)
<1>2. /\ dlci \in Nat /\ cr \in {0, 1} /\ Control \in Byte /\ 3 + 4 * dlci < 2 * LenBase
      /\ Len(info) < 2 * LenBase * LenBase /\ v \in Byte
  <2>1. dlci \in Byte /\ Byte \subseteq Nat /\ 3 + 4 * dlci < 2 * LenBase
    BY PathConstants, ByteIs
  <2>2. Len(info) < 2 * LenBase * LenBase
    <3> DEFINE top == 2 * LenBase * LenBase
    <3>1. top \in Nat
      BY PathConstants, Product
    <3>2. N1 < top /\ N1 \in Nat /\ Len(info) \in Nat
      BY PathConstants
    <3> HIDE DEF top
    <3>3. Len(info) < top
      BY <3>1, <3>2
    <3> QED
      BY <3>3 DEF top
  <2> QED
    BY <2>1, <2>2, PathConstants
<1>3. info \in Seq(AnyByte)
  BY PppByteIs
<1> HIDE DEF cr
<1>4. Flag # Val(Address(dlci, cr))
  BY <1>2, NoFlagAddress
<1>5. m \in Seq(AnyByte) /\ f \in Frame /\ <<m, f>> \in FrameCodes
  BY <1>2, <1>3, <1>4, MakeFrameIsCode
<1>6. wire' = wire \o m
  <2>1. faults \in Nat
    BY PathConstants DEF TypeInv, Bounded
  <2>2. faults' # faults + 1
    BY <2>1
  <2> QED
    BY <1>1, <2>2 DEF OnWire
<1>7. /\ wire \in Seq(AnyByte) /\ buf \in Seq(AnyByte)
      /\ sent.frames \in Seq(LineHead) /\ got.frames \in Seq(LineHead)
  BY HeadTypes
<1>8. one \in Seq(Frame) /\ gs \in Seq(Frame) /\ gs = fs \o one
  BY <1>5
<1>9. HeadersOf(gs) = HeadersOf(fs) \o <<h>> /\ HeadersOf(fs) \in Seq(LineHead) /\ <<h>> \in Seq(LineHead)
  <2>1. HeadersOf(one) = <<h>>
    <3>1. HeadersOf(<<f>>) = <<Header(f.dlci, f.info)>>
      BY <1>5, PartsOne
    <3> QED
      BY <3>1
  <2>2. HeadersOf(one) \in Seq(LineHead) /\ HeadersOf(fs) \in Seq(LineHead)
    BY <1>8, PartsType
  <2> HIDE DEF one, h
  <2>3. HeadersOf(fs \o one) = HeadersOf(fs) \o HeadersOf(one)
    BY <1>8, PartsConcat
  <2> QED
    BY <1>8, <2>1, <2>2, <2>3
<1>10. OnLine(gs)' = OnLine(fs) \o PppPart(FALSE, f)
  <2>1. PppData(FALSE, one) = PppPart(FALSE, f)
    BY <1>5, PartsOne
  <2> HIDE DEF one
  <2>2. PppData(FALSE, fs \o one) = PppData(FALSE, fs) \o PppData(FALSE, one)
    BY <1>8, PartsConcat
  <2>3. ~All /\ ~All'
    BY DEF All
  <2> HIDE DEF f
  <2>4. OnLine(fs) = PppData(FALSE, fs) /\ OnLine(gs)' = PppData(FALSE, gs)
    BY <2>3 DEF OnLine
  <2> QED
    BY <1>8, <2>1, <2>2, <2>4
<1>11. sent'.frames = got'.frames \o HeadersOf(gs)
  <2> DEFINE hs == HeadersOf(fs)
             oh == <<h>>
  <2>1. sent.frames = got.frames \o hs /\ got.frames \in Seq(LineHead) /\ hs \in Seq(LineHead)
        /\ oh \in Seq(LineHead)
    BY <1>7, <1>9 DEF FramesWhole
  <2>2. sent'.frames = sent.frames \o oh
    <3>1. h \in LineHead
      BY <1>9
    <3> HIDE DEF h
    <3>2. Append(sent.frames, h) = sent.frames \o <<h>>
      BY <1>7, <3>1, AppendIsConcat
    <3> QED
      BY <3>2 DEF h
  <2>3. HeadersOf(gs) = hs \o oh
    BY <1>9
  <2> HIDE DEF hs, oh
  <2> DEFINE gf == got.frames
  <2>4. (gf \o hs) \o oh = gf \o (hs \o oh)
    <3>1. gf \in Seq(LineHead) /\ hs \in Seq(LineHead) /\ oh \in Seq(LineHead)
      BY <2>1
    <3> HIDE DEF gf
    <3> QED
      BY ONLY <3>1, Regroup, SMTT(20)
  <2> QED
    BY <2>1, <2>2, <2>3, <2>4
<1>12. Encodes(FrameCodes, buf' \o wire', gs)
  <2> DEFINE bw == buf \o wire
  <2>1. Encodes(FrameCodes, bw, fs) /\ bw \in Seq(AnyByte)
    BY <1>7, ConcatProperties DEF FramesWhole, All
  <2>2. Encodes(FrameCodes, m, one)
    BY <1>5, EncodesOne
  <2> HIDE DEF one, m, bw
  <2>3. Encodes(FrameCodes, bw \o m, fs \o one)
    BY <1>8, <2>1, <2>2, EncodesConcat
  <2>4. bw \o m = buf' \o wire'
    <3>1. buf \in Seq(AnyByte) /\ wire \in Seq(AnyByte) /\ m \in Seq(AnyByte)
      BY <1>5, <1>7
    <3>2. Associate(buf, wire, m)
      BY <3>1, Joined
    <3> QED
      BY <1>6, <3>2 DEF Associate, bw
  <2> QED
    BY <1>8, <2>3, <2>4
<1>13. FramesWhole(gs)'
  <2>1. ~All'
    BY DEF All
  <2> HIDE DEF gs
  <2> QED
    BY <1>11, <1>12, <2>1 DEF FramesWhole
<1>14. wire' # <<>>
  <2>1. m # <<>>
    BY <1>5 DEF FrameCodes, IsCode
  <2> HIDE DEF m
  <2>2. Len(wire') = Len(wire) + Len(m) /\ Len(wire) \in Nat /\ Len(m) \in Nat /\ Len(m) # 0
    BY <1>5, <1>6, <1>7, <2>1, ConcatProperties, LenProperties, EmptySeq
  <2>3. Len(wire') # 0
    BY <2>2
  <2> QED
    BY <2>3
<1> QED
  BY <1>8, <1>10, <1>13, <1>14

(* d is what a step of the line's near end puts on it for PPP.              *)
Written(fs, gs, d) ==
    /\ FramesWhole(gs)' /\ OnLine(gs)' = OnLine(fs) \o d
    /\ wire' = <<>> => buf' = <<>>

LEMMA ChunkWritten ==
    ASSUME TypeInv, TypeInv', faults' = faults, NEW w \in Writer, NEW bytes \in Seq(PppByte),
           NEW packets, NEW mixed, SendChunk(w, bytes, packets, mixed),
           way.dir = "serial" => left[w] = <<>>,
           UNCHANGED <<way, buf, got>>, NEW fs \in Seq(Frame), FramesWhole(fs)
    PROVE  \E gs \in Seq(Frame), d \in Seq(AnyByte) :
               Written(fs, gs, d) /\ (Alone(w) => d \o Unsent' = bytes)
<1> DEFINE none == <<>>
<1>1. /\ left \in [Writer -> Seq(PppByte)] /\ left' \in [Writer -> Seq(PppByte)] /\ sent \in Sent
      /\ bytes \in Seq(AnyByte) /\ buf \in Seq(AnyByte) /\ wire \in Seq(AnyByte)
  <2>1. bytes \in Seq(AnyByte)
    BY PppByteIs
  <2> QED
    BY <2>1 DEF TypeInv, Underway
<1>2. faults \in Nat /\ faults' # faults + 1
  <2>1. faults \in Nat
    BY PathConstants DEF TypeInv, Bounded
  <2> QED
    BY <2>1
<1>3. CASE way.dir = "serial"
  <2>1. OnWire(bytes) /\ sent' = [sent EXCEPT !.packets = packets] /\ left' = left
    BY <1>3 DEF SendChunk
  <2>2. wire' = wire \o bytes
    BY <1>2, <2>1 DEF OnWire
  <2>3. fs = none /\ All /\ All' /\ buf' = none
    BY <1>3 DEF FramesWhole, All, TypeInv, Underway
  <2>4. sent'.frames = sent.frames
    BY <1>1, <2>1 DEF Sent
  <2>5. FramesWhole(fs)' /\ OnLine(fs)' = OnLine(fs) \o bytes
    BY <2>2, <2>3, <2>4 DEF FramesWhole, OnLine
  <2>6. Unsent' = none
    <3>1. left'["one"] = none /\ left'["two"] = none
      BY <1>3, <2>1 DEF TypeInv, Underway, Writer
    <3> QED
      BY <3>1 DEF Unsent
  <2>7. bytes \o none = bytes
    BY <1>1, Regroup
  <2>8. Written(fs, fs, bytes)
    BY <2>3, <2>5 DEF Written
  <2> QED
    BY <1>1, <2>6, <2>7, <2>8
<1>4. CASE way.dir # "serial"
  <2> DEFINE n == IF Len(bytes) < N1 THEN Len(bytes) ELSE N1
             chunk == SubSeq(bytes, 1, n)
             rest == SubSeq(bytes, n + 1, Len(bytes))
             f == [dlci |-> PppDlci, info |-> chunk]
             one == <<f>>
             gs == fs \o one
  <2>1. /\ left' = [left EXCEPT ![w] = rest]
        /\ Uih(PppDlci, chunk)
        /\ sent' = [sent EXCEPT !.packets = packets, !.mixed = mixed,
                                !.frames = Append(@, Header(PppDlci, chunk))]
    BY <1>2, <1>4 DEF SendChunk
  <2>2. n \in 0 .. Len(bytes) /\ n <= N1
    BY PathConstants
  <2>3. /\ chunk \in Seq(PppByte) /\ rest \in Seq(PppByte) /\ bytes = chunk \o rest
        /\ Len(chunk) = n
    <3> DEFINE a == n + 1
    <3>1. a \in 1 .. Len(bytes) + 1 /\ 1 \in 1 .. Len(bytes) + 1 /\ a - 1 = n /\ Len(bytes) \in Nat
          /\ n \in Nat
      <4> HIDE DEF n
      <4> QED
        BY <2>2
    <3> HIDE DEF n, a
    <3>2. SubSeq(bytes, 1, Len(bytes)) = SubSeq(bytes, 1, a - 1) \o SubSeq(bytes, a, Len(bytes))
      BY <3>1, Tails
    <3>3. SubSeq(bytes, 1, Len(bytes)) = bytes
      BY SubSeqFull
    <3>4. SubSeq(bytes, 1, a - 1) \in Seq(PppByte) /\ SubSeq(bytes, a, Len(bytes)) \in Seq(PppByte)
      BY <3>1, Tails
    <3>5. SubSeq(bytes, 1, n) = chunk /\ SubSeq(bytes, a, Len(bytes)) = rest
      BY DEF a
    <3>6. Len(chunk) = n
      BY <2>2
    <3> QED
      BY <3>1, <3>2, <3>3, <3>4, <3>5, <3>6
  <2> HIDE DEF n, chunk, rest
  <2>4. sent'.frames = Append(sent.frames, Header(PppDlci, chunk))
    BY <1>1, <2>1 DEF Sent
  <2>5. /\ gs \in Seq(Frame) /\ FramesWhole(gs)'
        /\ OnLine(gs)' = OnLine(fs) \o PppPart(FALSE, f)
        /\ wire' # <<>>
    BY <1>4, <2>1, <2>2, <2>3, <2>4, UihWritten
  <2>6. PppPart(FALSE, f) = chunk
    BY DEF PppPart
  <2>7. chunk \in Seq(AnyByte) /\ rest \in Seq(AnyByte)
    BY <2>3, PppByteIs
  <2> HIDE DEF gs
  <2>8. Written(fs, gs, chunk)
    BY <2>5, <2>6 DEF Written
  <2>9. Alone(w) => Unsent' = rest
    <3>1. ASSUME Alone(w) PROVE left'["one"] \o left'["two"] = left'[w]
      <4> DEFINE l == left'
      <4>1. \A o \in Writer : o # w => l[o] = <<>>
        BY <1>1, <2>1, <3>1 DEF Alone
      <4>2. l \in [Writer -> Seq(PppByte)]
        BY <1>1
      <4> HIDE DEF l
      <4>3. l["one"] \o l["two"] = l[w]
        BY <4>1, <4>2, OneOnly
      <4> QED
        BY <4>3 DEF l
    <3>2. left'[w] = rest
      BY <1>1, <2>1
    <3> QED
      BY <3>1, <3>2 DEF Unsent
  <2>10. Alone(w) => chunk \o Unsent' = bytes
    BY <2>3, <2>9
  <2> QED
    BY <2>5, <2>7, <2>8, <2>10
<1> QED
  BY <1>3, <1>4

LEMMA ComingTypes ==
    ASSUME TypeInv, NEW fs \in Seq(Frame)
    PROVE  /\ PppData(All, queue) \in Seq(AnyByte) /\ OnLine(fs) \in Seq(AnyByte)
           /\ Unsent \in Seq(AnyByte) /\ Coming(fs) \in Seq(AnyByte)
           /\ ppp \in Seq(AnyByte) /\ wire \in Seq(AnyByte) /\ buf \in Seq(AnyByte)
           /\ sent.packets \in Seq(Packet) /\ got.packets \in Seq(Packet)
<1>1. /\ ppp \in Seq(AnyByte) /\ wire \in Seq(AnyByte) /\ buf \in Seq(AnyByte)
      /\ Unsent \in Seq(AnyByte)
      /\ sent.packets \in Seq(Packet) /\ got.packets \in Seq(Packet)
  BY StreamTypes
<1>2. PppData(All, queue) \in Seq(AnyByte)
  <2>1. queue \in Seq(Frame)
    BY DEF TypeInv, Underway
  <2> QED
    BY <2>1, PartsType
<1>3. OnLine(fs) \in Seq(AnyByte)
  BY <1>1, PartsType DEF OnLine
<1>4. Coming(fs) \in Seq(AnyByte)
  <2> DEFINE q == PppData(All, queue)
             l == OnLine(fs)
             u == Unsent
  <2>1. q \in Seq(AnyByte) /\ l \in Seq(AnyByte) /\ u \in Seq(AnyByte)
    BY <1>1, <1>2, <1>3
  <2> HIDE DEF q, l, u
  <2>2. q \o (l \o u) \in Seq(AnyByte)
    BY <2>1
  <2> QED
    BY <2>2 DEF Coming, q, l, u
<1> QED
  BY <1>1, <1>2, <1>3, <1>4

Moves(q, l, d, u) ==
    /\ q \o ((l \o d) \o u) = q \o (l \o (d \o u))
    /\ (q \o (l \o <<>>)) \o (d \o u) = q \o (l \o (d \o u))

LEMMA MovesOn ==
    ASSUME NEW q \in Seq(AnyByte), NEW l \in Seq(AnyByte), NEW d \in Seq(AnyByte), NEW u \in Seq(AnyByte)
    PROVE  Moves(q, l, d, u)
<1> DEFINE du == d \o u
<1>1. du \in Seq(AnyByte) /\ l \o <<>> = l
  BY ConcatProperties, Regroup
<1>2. Associate(l, d, u)
  BY Joined
<1> HIDE DEF du
<1>3. Associate(q, l, du)
  BY <1>1, Joined
<1> QED
  BY <1>1, <1>2, <1>3 DEF Moves, Associate, du

(* Alone on the line's near end, a thread moves its bytes on.               *)
LEMMA WrittenComing ==
    ASSUME TypeInv, TypeInv', UNCHANGED <<way, queue>>, NEW fs \in Seq(Frame), NEW gs \in Seq(Frame),
           NEW d \in Seq(AnyByte), Written(fs, gs, d)
    PROVE  /\ Unsent = <<>> => Coming(gs)' = Coming(fs) \o (d \o Unsent')
           /\ Unsent = d \o Unsent' => Coming(gs)' = Coming(fs)
<1> DEFINE q == PppData(All, queue)
           l == OnLine(fs)
           u == Unsent'
<1>1. q \in Seq(AnyByte) /\ l \in Seq(AnyByte) /\ u \in Seq(AnyByte)
  <2>1. Unsent' \in Seq(AnyByte)
    <3>1. left' \in [Writer -> Seq(PppByte)]
      BY DEF TypeInv, Underway
    <3> DEFINE m == left'
    <3>2. m["one"] \in Seq(PppByte) /\ m["two"] \in Seq(PppByte)
      BY <3>1 DEF Writer
    <3>3. m["one"] \in Seq(AnyByte) /\ m["two"] \in Seq(AnyByte)
      BY <3>2, PppByteIs
    <3>4. m["one"] \o m["two"] \in Seq(AnyByte)
      <4> DEFINE x == m["one"]
                 y == m["two"]
      <4>1. x \in Seq(AnyByte) /\ y \in Seq(AnyByte)
        BY <3>3
      <4> HIDE DEF x, y
      <4>2. x \o y \in Seq(AnyByte)
        BY <4>1
      <4> QED
        BY <4>2 DEF x, y
    <3> QED
      BY <3>4 DEF Unsent
  <2> QED
    BY <2>1, ComingTypes
<1>2. Coming(gs)' = q \o ((l \o d) \o u)
  <2>1. All' = All
    BY DEF All
  <2>2. OnLine(gs)' = l \o d
    BY DEF Written
  <2>3. Coming(gs)' = PppData(All', queue') \o (OnLine(gs)' \o u)
    BY DEF Coming
  <2> QED
    BY <2>1, <2>2, <2>3
<1>3. Coming(fs) = q \o (l \o Unsent)
  BY DEF Coming
<1> HIDE DEF q, l, u
<1>4. Moves(q, l, d, u)
  BY <1>1, MovesOn
<1>5. ASSUME Unsent = <<>> PROVE Coming(gs)' = Coming(fs) \o (d \o u)
  BY <1>2, <1>3, <1>4, <1>5 DEF Moves
<1>6. ASSUME Unsent = d \o u PROVE Coming(gs)' = Coming(fs)
  BY <1>2, <1>3, <1>4, <1>6 DEF Moves
<1> QED
  BY <1>5, <1>6 DEF u

LEMMA UnsentIs ==
    ASSUME TypeInv, NEW w \in Writer, Alone(w)
    PROVE  Unsent = left[w]
<1>1. left \in [Writer -> Seq(PppByte)] /\ \A o \in Writer : o # w => left[o] = <<>>
  BY DEF TypeInv, Underway, Alone
<1>2. left["one"] \o left["two"] = left[w]
  BY <1>1, OneOnly
<1> QED
  BY <1>2 DEF Unsent

LEMMA SendPacketClean ==
    ASSUME TypeInv, TypeInv', CleanInv, faults' = faults, NEW w \in Writer, SendPacket(w)
    PROVE  CleanInv'
<1>1. /\ way.ppp /\ running /\ left[w] = <<>>
      /\ UNCHANGED <<way, running, buf, queue, ppp, got>>
  BY DEF SendPacket, Unread
<1>2. PICK fs \in Seq(Frame) :
          /\ FramesWhole(fs)
          /\ way.ppp /\ ~sent.mixed => PppWhole(ppp, Coming(fs), sent.packets, got.packets)
  BY DEF CleanInv
<1> DEFINE mixed == sent.mixed \/ \E o \in Writer : left[o] # <<>>
<1>3. PICK p \in Packets :
          SendChunk(w, MakePppFrame(p.packet, p.compressed), Append(sent.packets, p.packet), mixed)
  BY DEF SendPacket
<1> DEFINE x == p.packet
           c == p.compressed
           bytes == MakePppFrame(x, c)
           packets == Append(sent.packets, x)
<1>4. x \in Packet /\ Fit(x, c)
  BY PathAssumption DEF Sendable, Packet, Fit
<1> HIDE DEF x, c
<1>5. bytes \in Seq(PppByte)
  BY <1>4, MakePppFrameMarks
<1>6. SendChunk(w, bytes, packets, mixed)
  BY <1>3 DEF x, c
<1>7. sent'.packets = packets
  <2>1. sent \in Sent
    BY DEF TypeInv
  <2> HIDE DEF bytes, packets, mixed
  <2> QED
    BY <1>6, <2>1 DEF SendChunk, Sent
<1>8. PICK gs \in Seq(Frame), d \in Seq(AnyByte) :
          Written(fs, gs, d) /\ (Alone(w) => d \o Unsent' = bytes)
  <2> HIDE DEF bytes, packets, mixed
  <2> QED
    BY <1>1, <1>2, <1>5, <1>6, ChunkWritten
<1>9. ASSUME ~sent'.mixed
      PROVE  PppWhole(ppp', Coming(gs)', sent'.packets, got'.packets)
  <2>1. ~sent.mixed /\ Alone(w)
    BY <1>9, SendPacketAlone
  <2>2. Unsent = <<>>
    BY <1>1, <2>1, UnsentIs
  <2>3. Coming(gs)' = Coming(fs) \o bytes
    BY <1>1, <1>8, <2>1, <2>2, WrittenComing
  <2>4. PppWhole(ppp, Coming(fs), sent.packets, got.packets)
    BY <1>1, <1>2, <2>1
  <2> DEFINE r == Coming(fs)
             o == sent.packets
             i == got.packets
  <2>5. /\ ppp \in Seq(AnyByte) /\ r \in Seq(AnyByte) /\ o \in Seq(Packet) /\ i \in Seq(Packet)
        /\ PppWhole(ppp, r, o, i)
    BY <2>4, ComingTypes
  <2> HIDE DEF r, o, i
  <2>6. bytes \in Seq(AnyByte) /\ bytes = MakePppFrame(x, c)
    BY <1>4, MakePppFrameIsCode, CarriedNone
  <2>7. PppWhole(ppp, r \o bytes, Append(o, x), i)
    <3> HIDE DEF bytes
    <3> QED
      BY <1>4, <2>5, <2>6, WholeMore
  <2> QED
    BY <1>1, <1>7, <2>3, <2>7 DEF r, o, i
<1> QED
  BY <1>1, <1>8, <1>9 DEF CleanInv, Written

LEMMA NextChunkClean ==
    ASSUME TypeInv, TypeInv', LineInv, CleanInv, faults' = faults, NEW w \in Writer, NextChunk(w)
    PROVE  CleanInv'
<1>1. /\ left[w] # <<>> /\ UNCHANGED <<way, running, buf, queue, ppp, got>>
      /\ SendChunk(w, left[w], sent.packets, sent.mixed)
  BY DEF NextChunk, Unread
<1>2. PICK fs \in Seq(Frame) :
          /\ FramesWhole(fs)
          /\ way.ppp /\ ~sent.mixed => PppWhole(ppp, Coming(fs), sent.packets, got.packets)
  BY DEF CleanInv
<1>3. left[w] \in Seq(PppByte) /\ way.dir # "serial" /\ sent \in Sent
  BY <1>1 DEF TypeInv, Underway
<1>4. sent'.packets = sent.packets
  BY <1>1, <1>3 DEF SendChunk, Sent
<1> DEFINE bytes == left[w]
           packets == sent.packets
           mixed == sent.mixed
<1>5. PICK gs \in Seq(Frame), d \in Seq(AnyByte) :
          Written(fs, gs, d) /\ (Alone(w) => d \o Unsent' = bytes)
  <2>1. bytes \in Seq(PppByte) /\ SendChunk(w, bytes, packets, mixed)
    BY <1>1, <1>3
  <2> HIDE DEF bytes, packets, mixed
  <2> QED
    BY <1>1, <1>2, <1>3, <2>1, ChunkWritten
<1>6. ASSUME way'.ppp, ~sent'.mixed
      PROVE  PppWhole(ppp', Coming(gs)', sent'.packets, got'.packets)
  <2>1. ~sent.mixed /\ Alone(w)
    BY <1>6, NextChunkAlone
  <2>2. Unsent = d \o Unsent'
    BY <1>5, <2>1, UnsentIs
  <2>3. Coming(gs)' = Coming(fs)
    BY <1>1, <1>5, <2>2, WrittenComing
  <2> QED
    BY <1>1, <1>2, <1>4, <1>6, <2>1, <2>3
<1> QED
  BY <1>1, <1>4, <1>5, <1>6 DEF CleanInv, Written

(* Without the multiplexer the texts of the modem and PPP share the bytes.  *)
TextsApart ==
    (\E w \in Ways : w.dir = "serial" /\ w.ppp)
        => \A t \in Texts : \A i \in DOMAIN t : t[i] # PppFlag

LEMMA TextIs ==
    ASSUME NEW t \in Texts
    PROVE  LET info == [i \in DOMAIN t |-> Plain(t[i])] IN
           /\ info \in Seq(PppByte) /\ info \in Seq(AnyByte) /\ Len(info) <= N1
           /\ (\A i \in DOMAIN t : t[i] # PppFlag) => info \in Seq(Inside)
<1> DEFINE info == [i \in DOMAIN t |-> Plain(t[i])]
           n == Len(t)
<1>1. t \in Seq(Byte) /\ n \in 1 .. N1 /\ n \in Nat /\ DOMAIN t = 1 .. n /\ \A i \in 1 .. n : t[i] \in Byte
  BY PathAssumption
<1>2. \A v \in Byte : Plain(v) \in PppByte /\ Plain(v) \in AnyByte /\ (v # PppFlag => Plain(v) # Plain(PppFlag))
  <2>1. \A v \in Byte : v # PppFlag => Plain(v) # Plain(PppFlag)
    BY DEF Plain
  <2>2. \A v \in Byte : Plain(v) \in PlainByte
    BY ByteIs
  <2>3. PlainByte \subseteq PppByte
    BY DEF PppByte
  <2> QED
    BY <2>1, <2>2, <2>3, PppByteIs
<1> HIDE DEF n
<1>3. info = [i \in 1 .. n |-> Plain(t[i])]
  BY <1>1
<1> HIDE DEF info
<1>4. info \in Seq(PppByte) /\ Len(info) = n
  <2>1. \A i \in 1 .. n : Plain(t[i]) \in PppByte
    BY <1>1, <1>2
  <2> QED
    BY <1>1, <1>3, <2>1
<1>5. info \in Seq(AnyByte)
  BY <1>4, PppByteIs
<1>6. ASSUME \A i \in DOMAIN t : t[i] # PppFlag PROVE info \in Seq(Inside)
  <2>1. \A i \in 1 .. n : Plain(t[i]) \in Inside
    BY <1>1, <1>2, <1>6 DEF Inside
  <2> QED
    BY <1>1, <1>3, <2>1
<1>7. n <= N1
  BY <1>1, PathConstants
<1> QED
  BY <1>4, <1>5, <1>6, <1>7 DEF info

LEMMA ModemTextClean ==
    ASSUME TextsApart, TypeInv, TypeInv', CleanInv, faults' = faults, ModemText
    PROVE  CleanInv'
<1> DEFINE none == <<>>
<1>1. UNCHANGED <<way, running, left, buf, queue, ppp, got>>
  BY DEF ModemText, Unread
<1>2. PICK fs \in Seq(Frame) :
          /\ FramesWhole(fs)
          /\ way.ppp /\ ~sent.mixed => PppWhole(ppp, Coming(fs), sent.packets, got.packets)
  BY DEF CleanInv
<1>3. PICK t \in Texts :
        LET info == [i \in DOMAIN t |-> Plain(t[i])] IN
        IF way.dir = "serial"
        THEN OnWire(info) /\ UNCHANGED sent
        ELSE /\ Uih(AtDlci, info)
             /\ sent' = [sent EXCEPT !.frames = Append(@, Header(AtDlci, info))]
  BY DEF ModemText
<1> DEFINE info == [i \in DOMAIN t |-> Plain(t[i])]
<1>4. /\ info \in Seq(PppByte) /\ info \in Seq(AnyByte) /\ Len(info) <= N1
      /\ (\A i \in DOMAIN t : t[i] # PppFlag) => info \in Seq(Inside)
  BY TextIs
<1>5. \/ way.dir = "serial" /\ OnWire(info) /\ UNCHANGED sent
      \/ /\ way.dir # "serial" /\ Uih(AtDlci, info)
         /\ sent' = [sent EXCEPT !.frames = Append(@, Header(AtDlci, info))]
  BY <1>3
<1> HIDE DEF info
<1>6. Unsent' = Unsent /\ sent \in Sent
  BY <1>1 DEF Unsent, TypeInv
<1>7. sent'.packets = sent.packets /\ sent'.mixed = sent.mixed
  BY <1>5, <1>6 DEF Sent
<1>8. CASE way.dir = "serial"
  <2>1. fs = none /\ All /\ All' /\ buf' = none
    BY <1>1, <1>2, <1>8 DEF FramesWhole, All, TypeInv, Underway
  <2>2. wire' = wire \o info
    <3>1. faults \in Nat
      BY PathConstants DEF TypeInv, Bounded
    <3>2. faults' # faults + 1
      BY <3>1
    <3> QED
      BY <1>5, <1>8, <3>2 DEF OnWire
  <2>3. sent' = sent
    BY <1>5, <1>8
  <2>4. FramesWhole(fs)' /\ OnLine(fs)' = OnLine(fs) \o info
    BY <1>1, <1>2, <2>1, <2>2, <2>3 DEF FramesWhole, OnLine
  <2>5. Written(fs, fs, info)
    BY <2>1, <2>4 DEF Written
  <2>6. Unsent = none /\ Unsent' = none
    <3>1. left["one"] = none /\ left["two"] = none
      BY <1>8 DEF TypeInv, Underway, Writer
    <3>2. Unsent = none
      BY <3>1 DEF Unsent
    <3> QED
      BY <1>6, <3>2
  <2>7. Coming(fs)' = Coming(fs) \o info
    <3>1. Coming(fs)' = Coming(fs) \o (info \o Unsent')
      BY <1>1, <1>4, <2>5, <2>6, WrittenComing
    <3>2. info \o none = info
      BY <1>4, Regroup
    <3> QED
      BY <2>6, <3>1, <3>2
  <2>8. ASSUME way'.ppp, ~sent'.mixed
        PROVE  PppWhole(ppp', Coming(fs)', sent'.packets, got'.packets)
    <3>1. info \in Seq(Inside)
      <4>1. way \in Ways /\ way.ppp
        BY <1>1, <2>8 DEF TypeInv
      <4> QED
        BY <1>4, <1>8, <4>1 DEF TextsApart
    <3>2. PppWhole(ppp, Coming(fs), sent.packets, got.packets)
      BY <1>1, <1>2, <1>7, <2>8
    <3> DEFINE r == Coming(fs)
               o == sent.packets
               i == got.packets
    <3>3. /\ ppp \in Seq(AnyByte) /\ r \in Seq(AnyByte) /\ o \in Seq(Packet) /\ i \in Seq(Packet)
          /\ PppWhole(ppp, r, o, i)
      BY <3>2, ComingTypes
    <3> HIDE DEF r, o, i
    <3>4. PppWhole(ppp, r \o info, o, i)
      BY <1>4, <3>1, <3>3, WholeMore
    <3> QED
      BY <1>1, <1>7, <2>7, <3>4 DEF r, o, i
  <2> QED
    BY <1>1, <1>7, <2>4, <2>5, <2>8 DEF CleanInv, Written
<1>9. CASE way.dir # "serial"
  <2> DEFINE f == [dlci |-> AtDlci, info |-> info]
             gs == fs \o <<f>>
  <2>1. Uih(AtDlci, info) /\ sent'.frames = Append(sent.frames, Header(AtDlci, info))
    BY <1>5, <1>6, <1>9 DEF Sent
  <2>2. /\ gs \in Seq(Frame) /\ FramesWhole(gs)'
        /\ OnLine(gs)' = OnLine(fs) \o PppPart(FALSE, f)
        /\ wire' # <<>>
    BY <1>1, <1>2, <1>4, <1>9, <2>1, UihWritten
  <2>3. PppPart(FALSE, f) = none
    BY DEF PppPart, AtDlci, PppDlci
  <2> HIDE DEF gs, f
  <2>4. Written(fs, gs, none)
    BY <2>2, <2>3 DEF Written
  <2>5. Unsent = none \o Unsent' /\ none \in Seq(AnyByte)
    BY <1>6, ComingTypes, Regroup
  <2> HIDE DEF none
  <2>6. Coming(gs)' = Coming(fs)
    BY <1>1, <2>2, <2>4, <2>5, WrittenComing
  <2>7. ASSUME way'.ppp, ~sent'.mixed
        PROVE  PppWhole(ppp', Coming(gs)', sent'.packets, got'.packets)
    BY <1>1, <1>2, <1>7, <2>6, <2>7
  <2> QED
    BY <1>1, <1>7, <2>2, <2>7 DEF CleanInv
<1> QED
  BY <1>8, <1>9

-----------------------------------------------------------------------------
(* What is read and fed                                                     *)

LEMMA ReadClean ==
    ASSUME TypeInv, TypeInv', CleanInv, Read
    PROVE  CleanInv'
<1> DEFINE none == <<>>
<1>1. queue = none /\ UNCHANGED <<way, running, left, ppp, sent>>
  BY DEF Read
<1>2. PICK fs \in Seq(Frame) :
          /\ FramesWhole(fs)
          /\ way.ppp /\ ~sent.mixed => PppWhole(ppp, Coming(fs), sent.packets, got.packets)
  BY DEF CleanInv
<1>3. /\ wire \in Seq(AnyByte) /\ buf \in Seq(AnyByte) /\ got \in Got
      /\ way.dir = "serial" => buf = none
      /\ got.frames \in Seq(LineHead) /\ Unsent \in Seq(AnyByte) /\ Unsent' = Unsent
      /\ wire' \in Seq(AnyByte) /\ buf' \in Seq(AnyByte)
  <2>1. Unsent' = Unsent
    BY <1>1 DEF Unsent
  <2> QED
    BY <2>1, ComingTypes DEF TypeInv, Underway, Got
<1>4. PICK n \in 1 .. Len(wire) :
        LET raw == SubSeq(wire, 1, n)
            parsed == Parse(buf \o raw)
            frames == parsed.frames
        IN  /\ wire' = SubSeq(wire, n + 1, Len(wire))
            /\ IF way.dir = "serial"
               THEN /\ queue' = <<[dlci |-> 0, info |-> raw]>>
                    /\ UNCHANGED <<buf, got>>
               ELSE /\ buf' = parsed.buffer
                    /\ queue' = frames
                    /\ got' = [got EXCEPT !.frames = @ \o HeadersOf(frames)]
  BY DEF Read, HeadersOf
<1> DEFINE raw == SubSeq(wire, 1, n)
           parsed == Parse(buf \o raw)
           frames == parsed.frames
<1>5. raw \in Seq(AnyByte) /\ wire = raw \o wire'
  <2> DEFINE a == n + 1
  <2>1. 1 \in 1 .. Len(wire) + 1 /\ a \in 1 .. Len(wire) + 1 /\ a - 1 = n /\ Len(wire) \in Nat
    <3>1. Len(wire) \in Nat /\ n \in 1 .. Len(wire)
      BY <1>3
    <3> QED
      BY ONLY <3>1 DEF a
  <2> HIDE DEF a
  <2>2. /\ SubSeq(wire, 1, a - 1) \in Seq(AnyByte)
        /\ SubSeq(wire, 1, Len(wire)) = SubSeq(wire, 1, a - 1) \o SubSeq(wire, a, Len(wire))
    BY <1>3, <2>1, Tails
  <2>3. SubSeq(wire, 1, Len(wire)) = wire
    BY <1>3, SubSeqFull
  <2>4. wire' = SubSeq(wire, a, Len(wire))
    BY <1>4 DEF a
  <2> QED
    BY <2>1, <2>2, <2>3, <2>4
<1>6. \/ way.dir = "serial" /\ queue' = <<[dlci |-> 0, info |-> raw]>> /\ buf' = buf /\ got' = got
      \/ /\ way.dir # "serial" /\ buf' = parsed.buffer /\ queue' = frames
         /\ got' = [got EXCEPT !.frames = @ \o HeadersOf(frames)]
  BY <1>4
<1> HIDE DEF raw
<1>7. PppData(All, queue) = none /\ All' = All
  BY <1>1, PartsNone DEF All
<1>8. got'.packets = got.packets
  BY <1>3, <1>6 DEF Got
<1>9. ASSUME NEW gs \in Seq(Frame), FramesWhole(gs)',
             OnLine(fs) = PppData(All, queue') \o OnLine(gs)', wire' = none => buf' = none
      PROVE  CleanInv'
  <2> DEFINE q == PppData(All, queue')
             l == OnLine(gs)'
             u == Unsent
  <2>1. q \in Seq(AnyByte) /\ l \in Seq(AnyByte) /\ u \in Seq(AnyByte)
    <3>1. queue' \in Seq(Frame)
      BY DEF TypeInv, Underway
    <3>2. PppData(All, queue') \in Seq(AnyByte) /\ PppData(FALSE, gs) \in Seq(AnyByte)
      BY <3>1, PartsType
    <3>3. OnLine(gs)' \in Seq(AnyByte)
      BY <1>3, <3>2 DEF OnLine
    <3> QED
      BY <1>3, <3>2, <3>3
  <2>2. Coming(gs)' = q \o (l \o u)
    BY <1>3, <1>7 DEF Coming
  <2>3. Coming(fs) = none \o ((q \o l) \o u)
    BY <1>7, <1>9 DEF Coming
  <2> HIDE DEF q, l, u
  <2>4. Coming(fs) = q \o (l \o u)
    <3>1. Associate(q, l, u)
      BY <2>1, Joined
    <3> DEFINE lu == l \o u
    <3>2. lu \in Seq(AnyByte)
      BY <2>1, ConcatProperties
    <3> HIDE DEF lu
    <3> DEFINE qlu == q \o lu
    <3>3. qlu \in Seq(AnyByte)
      BY <2>1, <3>2, ConcatProperties
    <3> HIDE DEF qlu
    <3>4. none \o qlu = qlu
      BY <3>3, Regroup
    <3>5. (q \o l) \o u = qlu
      BY <3>1 DEF Associate, lu, qlu
    <3> QED
      BY <2>3, <3>4, <3>5 DEF lu, qlu
  <2>5. ASSUME way'.ppp, ~sent'.mixed
        PROVE  PppWhole(ppp', Coming(gs)', sent'.packets, got'.packets)
    BY <1>1, <1>2, <1>8, <2>2, <2>4, <2>5
  <2>6. (~way'.ppp => sent'.packets = got'.packets) /\ (~running' => ppp' = <<>> /\ sent'.packets = <<>>)
    BY <1>1, <1>8 DEF CleanInv
  <2> QED
    BY <1>9, <2>5, <2>6 DEF CleanInv
<1>10. CASE way.dir = "serial"
  <2> DEFINE f == [dlci |-> 0, info |-> raw]
  <2>1. queue' = <<f>> /\ buf' = buf /\ got' = got /\ All /\ All' /\ buf = none
    <3>1. All /\ All' /\ buf = none
      BY <1>1, <1>3, <1>10 DEF All
    <3>2. queue' = <<f>> /\ buf' = buf /\ got' = got
      BY <1>6, <1>10
    <3> QED
      BY <3>1, <3>2
  <2>2. f \in Frame /\ PppPart(All, f) = raw
    BY <1>5, <2>1, PathConstants DEF Frame, PppPart
  <2> HIDE DEF f
  <2>3. PppData(All, queue') = raw
    BY <2>1, <2>2, PartsOne
  <2>4. FramesWhole(fs)'
    BY <1>1, <1>2, <2>1 DEF FramesWhole
  <2>5. OnLine(fs) = raw \o OnLine(fs)'
    BY <1>5, <2>1 DEF OnLine
  <2> QED
    BY <1>9, <2>1, <2>3, <2>4, <2>5
<1>11. CASE way.dir # "serial"
  <2> DEFINE s == buf \o raw
  <2>1. buf' = parsed.buffer /\ queue' = frames /\ got'.frames = got.frames \o HeadersOf(frames)
        /\ ~All /\ ~All' /\ Encodes(FrameCodes, buf \o wire, fs)
    <3>1. ~All /\ ~All'
      BY <1>1, <1>11 DEF All
    <3>2. Encodes(FrameCodes, buf \o wire, fs)
      BY <1>2, <3>1 DEF FramesWhole
    <3> HIDE DEF parsed
    <3>3. /\ buf' = parsed.buffer /\ queue' = frames
          /\ got' = [got EXCEPT !.frames = @ \o HeadersOf(frames)]
      BY <1>6, <1>11
    <3> HIDE DEF frames
    <3>4. got'.frames = got.frames \o HeadersOf(frames)
      BY <1>3, <3>3 DEF Got
    <3> QED
      BY <3>1, <3>2, <3>3, <3>4
  <2>2. s \in Seq(AnyByte) /\ s \o wire' = buf \o wire
    <3>1. Associate(buf, raw, wire')
      <4> DEFINE w == wire'
      <4>1. buf \in Seq(AnyByte) /\ raw \in Seq(AnyByte) /\ w \in Seq(AnyByte)
        BY <1>3, <1>5
      <4> HIDE DEF w
      <4>2. Associate(buf, raw, w)
        BY <4>1, Joined
      <4> QED
        BY <4>2 DEF w
    <3> QED
      BY <1>3, <1>5, <3>1, ConcatProperties DEF Associate
  <2>3. parsed = Parse(s)
    OBVIOUS
  <2> HIDE DEF s, parsed
  <2>4. Cleaned(parsed, wire', fs)
    <3> DEFINE w == wire'
    <3>1. w \in Seq(AnyByte) /\ Encodes(FrameCodes, s \o w, fs)
      BY <1>3, <2>1, <2>2
    <3> HIDE DEF w
    <3>2. Cleaned(Parse(s), w, fs)
      BY <2>2, <3>1, ParseClean
    <3> QED
      BY <2>3, <3>2 DEF w
  <2>5. PICK gs \in Seq(Frame) : fs = frames \o gs /\ Encodes(FrameCodes, parsed.buffer \o wire', gs)
    BY <2>4 DEF Cleaned
  <2>6. frames \in Seq(Frame) /\ (wire' = <<>> => buf' = <<>>)
    BY <2>1, <2>4 DEF Cleaned
  <2> HIDE DEF frames
  <2>7. HeadersOf(fs) = HeadersOf(frames) \o HeadersOf(gs)
        /\ PppData(FALSE, fs) = PppData(FALSE, frames) \o PppData(FALSE, gs)
    BY <2>5, <2>6, PartsConcat
  <2>8. sent'.frames = got'.frames \o HeadersOf(gs)
    <3> DEFINE g == got.frames
               x == HeadersOf(frames)
               y == HeadersOf(gs)
    <3>1. g \in Seq(LineHead) /\ x \in Seq(LineHead) /\ y \in Seq(LineHead)
      BY <1>3, <2>5, <2>6, PartsType
    <3>2. sent'.frames = g \o (x \o y) /\ got'.frames = g \o x
      BY <1>1, <1>2, <2>1, <2>7 DEF FramesWhole
    <3> HIDE DEF g, x, y
    <3>3. (g \o x) \o y = g \o (x \o y)
      BY ONLY <3>1, Regroup, SMTT(20)
    <3> QED
      BY <3>2, <3>3 DEF y
  <2>9. FramesWhole(gs)'
    BY <2>1, <2>5, <2>8 DEF FramesWhole
  <2>10. OnLine(fs) = PppData(All, queue') \o OnLine(gs)'
    <3>1. All = FALSE
      BY <2>1 DEF All
    <3> QED
      BY <2>1, <2>7, <3>1 DEF OnLine
  <2> QED
    BY <1>9, <2>6, <2>9, <2>10
<1> QED
  BY <1>10, <1>11

LEMMA DispatchClean ==
    ASSUME TypeInv, TypeInv', CleanInv, Dispatch
    PROVE  CleanInv'
<1> DEFINE none == <<>>
           f == Head(queue)
           d == PppPart(All, f)
<1>1. queue # <<>> /\ queue' = Tail(queue) /\ UNCHANGED <<way, running, left, wire, buf, sent>>
  BY DEF Dispatch
<1>2. PICK fs \in Seq(Frame) :
          /\ FramesWhole(fs)
          /\ way.ppp /\ ~sent.mixed => PppWhole(ppp, Coming(fs), sent.packets, got.packets)
  BY DEF CleanInv
<1>3. \/ /\ running /\ f.info # <<>> /\ ToPpp(f.dlci) /\ FeedPpp(f.info)
      \/ /\ ~running \/ f.info = <<>> \/ ~ToPpp(f.dlci)
         /\ UNCHANGED <<ppp, at, got>> \/ FeedAt(f.info)
  BY DEF Dispatch
<1>4. got \in Got /\ queue \in Seq(Frame) /\ queue' \in Seq(Frame)
  BY DEF TypeInv, Underway
<1>5. f \in Frame /\ queue = <<f>> \o queue'
  BY <1>1, <1>4
<1> HIDE DEF f
<1>6. d \in Seq(AnyByte) /\ f.info \in Seq(AnyByte)
  BY <1>5, PartsOne DEF Frame
<1>7. /\ ppp \in Seq(AnyByte) /\ sent.packets \in Seq(Packet) /\ got.packets \in Seq(Packet)
      /\ ppp' \in Seq(AnyByte) /\ Coming(fs)' \in Seq(AnyByte)
  <2>1. OnLine(fs) \in Seq(AnyByte) /\ Unsent \in Seq(AnyByte)
    BY ComingTypes
  <2>2. PppData(All, queue') \in Seq(AnyByte)
    BY <1>4, PartsType
  <2>3. Coming(fs)' = PppData(All, queue') \o (OnLine(fs) \o Unsent)
    BY <1>1 DEF Coming, OnLine, All, Unsent
  <2> DEFINE q == PppData(All, queue')
             l == OnLine(fs)
             u == Unsent
  <2>4. q \in Seq(AnyByte) /\ l \in Seq(AnyByte) /\ u \in Seq(AnyByte)
    BY <2>1, <2>2
  <2> HIDE DEF q, l, u
  <2>5. q \o (l \o u) \in Seq(AnyByte)
    BY <2>4
  <2>6. Coming(fs)' \in Seq(AnyByte)
    BY <2>3, <2>5 DEF q, l, u
  <2>7. ppp' \in Seq(AnyByte)
    BY DEF TypeInv, Underway
  <2> QED
    BY <2>6, <2>7, ComingTypes
<1>8. Coming(fs) = d \o Coming(fs)'
  <2> DEFINE q == PppData(All, queue')
             lu == OnLine(fs) \o Unsent
             one == <<f>>
             rest == queue'
  <2>1. one \in Seq(Frame) /\ rest \in Seq(Frame) /\ queue = one \o rest
    BY <1>4, <1>5
  <2>2. PppData(All, one) = d
    BY <1>5, PartsOne
  <2> HIDE DEF one, rest
  <2>3. PppData(All, queue) = PppData(All, one) \o PppData(All, rest)
    BY <2>1, PartsConcat
  <2>4. PppData(All, queue) = d \o q
    BY <2>2, <2>3 DEF rest
  <2>5. Coming(fs) = (d \o q) \o lu /\ Coming(fs)' = q \o lu
    <3>1. Coming(fs)' = q \o lu
      BY <1>1 DEF Coming, OnLine, All, Unsent
    <3>2. Coming(fs) = (d \o q) \o lu
      BY <2>4 DEF Coming
    <3> QED
      BY <3>1, <3>2
  <2>6. q \in Seq(AnyByte) /\ lu \in Seq(AnyByte)
    <3>1. OnLine(fs) \in Seq(AnyByte) /\ Unsent \in Seq(AnyByte)
      BY ComingTypes
    <3> DEFINE l == OnLine(fs)
               u == Unsent
    <3>2. l \in Seq(AnyByte) /\ u \in Seq(AnyByte)
      BY <3>1
    <3> HIDE DEF l, u
    <3>3. l \o u \in Seq(AnyByte)
      BY <3>2
    <3>4. q \in Seq(AnyByte)
      BY <1>4, PartsType
    <3> QED
      BY <3>3, <3>4 DEF l, u
  <2> HIDE DEF q, lu, d
  <2>7. Associate(d, q, lu)
    BY <1>6, <2>6, Joined
  <2> QED
    BY <2>5, <2>7 DEF Associate
<1>9. got'.frames = got.frames
  BY <1>3, <1>4 DEF FeedPpp, FeedAt, Got
<1>10. FramesWhole(fs)'
  BY <1>1, <1>2, <1>9 DEF FramesWhole, All
<1> DEFINE r == Coming(fs)'
           o == sent.packets
           i == got.packets
<1>11. CASE running /\ f.info # <<>> /\ ToPpp(f.dlci) /\ FeedPpp(f.info)
  <2> DEFINE res == PppParse(ppp \o d)
  <2>1. way.ppp /\ d = f.info
    BY <1>11 DEF ToPpp, PppPart, All
  <2>2. ppp' = res.buffer /\ got' = [got EXCEPT !.packets = @ \o res.packets]
    BY <1>11, <2>1 DEF FeedPpp
  <2> HIDE DEF res
  <2>3. got'.packets = got.packets \o res.packets
    BY <1>4, <2>2 DEF Got
  <2>4. ASSUME ~sent'.mixed PROVE PppWhole(ppp', r, sent'.packets, got'.packets)
    <3>1. PppWhole(ppp, d \o r, o, i)
      <4>1. ~sent.mixed
        BY <1>1, <2>4
      <4> HIDE DEF d
      <4> QED
        BY <1>2, <1>8, <2>1, <4>1
    <3>2. ppp \in Seq(AnyByte) /\ r \in Seq(AnyByte) /\ o \in Seq(Packet) /\ i \in Seq(Packet)
      BY <1>7
    <3> HIDE DEF r, o, i, d
    <3>3. PppWhole(res.buffer, r, o, i \o res.packets)
      BY <1>6, <3>1, <3>2, WholeFed DEF res
    <3> QED
      BY <1>1, <2>2, <2>3, <3>3 DEF o, i
  <2> QED
    BY <1>1, <1>10, <1>11, <2>1, <2>4 DEF CleanInv
<1>12. CASE /\ ~running \/ f.info = <<>> \/ ~ToPpp(f.dlci)
            /\ UNCHANGED <<ppp, at, got>> \/ FeedAt(f.info)
  <2>1. ppp' = ppp /\ got'.packets = got.packets
    BY <1>4, <1>12 DEF FeedAt, Got
  <2>2. ASSUME way'.ppp, ~sent'.mixed
        PROVE  PppWhole(ppp', r, sent'.packets, got'.packets)
    <3>1. PppWhole(ppp, d \o r, o, i)
      <4>1. way.ppp /\ ~sent.mixed
        BY <1>1, <2>2
      <4> HIDE DEF d
      <4> QED
        BY <1>2, <1>8, <4>1
    <3>2. ppp \in Seq(AnyByte) /\ r \in Seq(AnyByte) /\ o \in Seq(Packet) /\ i \in Seq(Packet)
      BY <1>7
    <3>3. CASE ~running
      <4>1. ppp = <<>> /\ o = <<>>
        BY <3>3 DEF CleanInv
      <4> HIDE DEF r, o, i, d
      <4>2. PppWhole(<<>>, d \o r, <<>>, i)
        BY <3>1, <4>1
      <4>3. PppWhole(<<>>, r, <<>>, i)
        BY <1>6, <3>2, <4>2, WholeDropped
      <4> QED
        BY <1>1, <2>1, <4>1, <4>3 DEF o, i
    <3>4. CASE f.info = <<>> \/ ~ToPpp(f.dlci)
      <4>1. d = <<>>
        BY <1>1, <2>2, <3>4 DEF PppPart, All, ToPpp
      <4>2. <<>> \o r = r
        <5> HIDE DEF r
        <5> QED
          BY <3>2, Regroup
      <4> HIDE DEF r, o, i, d
      <4>3. PppWhole(ppp, r, o, i)
        BY <3>1, <4>1, <4>2
      <4> QED
        BY <1>1, <2>1, <4>3 DEF o, i
    <3> QED
      BY <1>12, <3>3, <3>4
  <2>3. (~way'.ppp => sent'.packets = got'.packets) /\ (~running' => ppp' = <<>> /\ sent'.packets = <<>>)
    BY <1>1, <2>1 DEF CleanInv
  <2>4. wire' = <<>> => buf' = <<>>
    BY <1>1 DEF CleanInv
  <2> QED
    BY <1>10, <2>2, <2>3, <2>4 DEF CleanInv
<1> QED
  BY <1>3, <1>11, <1>12

(* Nothing else touches the line.                                           *)
LEMMA RestClean ==
    ASSUME CleanInv, UNCHANGED <<way, left, wire, buf, queue, ppp, sent>>,
           got'.frames = got.frames, got'.packets = got.packets, running => running'
    PROVE  CleanInv'
<1>1. PICK fs \in Seq(Frame) :
          /\ FramesWhole(fs)
          /\ way.ppp /\ ~sent.mixed => PppWhole(ppp, Coming(fs), sent.packets, got.packets)
  BY DEF CleanInv
<1>2. All' = All
  BY DEF All
<1>3. FramesWhole(fs)'
  BY <1>1, <1>2 DEF FramesWhole
<1>4. Coming(fs)' = Coming(fs)
  BY <1>2 DEF Coming, OnLine, Unsent
<1>5. way'.ppp /\ ~sent'.mixed => PppWhole(ppp', Coming(fs)', sent'.packets, got'.packets)
  BY <1>1, <1>4
<1>6. /\ wire' = <<>> => buf' = <<>>
      /\ ~way'.ppp => sent'.packets = got'.packets
      /\ ~running' => ppp' = <<>> /\ sent'.packets = <<>>
  BY DEF CleanInv
<1> QED
  BY <1>3, <1>5, <1>6 DEF CleanInv

LEMMA FaultsStay ==
    ASSUME TypeInv, [Next]_vars, faults' = 0
    PROVE  faults = 0
<1>1. faults \in Nat
  BY PathConstants DEF TypeInv, Bounded
<1>2. \A b : OnWire(b) => faults' = faults \/ faults' = faults + 1
  BY DEF OnWire
<1>3. \A w, b, p, m : SendChunk(w, b, p, m) => faults' = faults \/ faults' = faults + 1
  BY <1>2 DEF SendChunk, Uih
<1>4. ASSUME NEW w \in Writer, SendPacket(w) PROVE faults' = faults \/ faults' = faults + 1
  <2>1. \E b, p, m : SendChunk(w, b, p, m)
    BY <1>4 DEF SendPacket
  <2> QED
    BY <1>3, <2>1
<1>5. ASSUME NEW w \in Writer, NextChunk(w) PROVE faults' = faults \/ faults' = faults + 1
  <2>1. \E b, p, m : SendChunk(w, b, p, m)
    BY <1>5 DEF NextChunk
  <2> QED
    BY <1>3, <2>1
<1>6. ASSUME ModemText PROVE faults' = faults \/ faults' = faults + 1
  <2>1. PICK t \in Texts :
            LET info == [i \in DOMAIN t |-> Plain(t[i])] IN
            IF way.dir = "serial" THEN OnWire(info) ELSE Uih(AtDlci, info)
    BY <1>6 DEF ModemText
  <2>2. \A d, info : Uih(d, info) => faults' = faults \/ faults' = faults + 1
    BY <1>2 DEF Uih
  <2> QED
    BY <1>2, <2>1, <2>2
<1>7. CASE Register \/ Read \/ Dispatch \/ Command \/ Take \/ Answered
  BY <1>7 DEF Register, Read, Dispatch, Command, Take, Answered
<1>8. CASE UNCHANGED vars
  BY <1>8 DEF vars
<1>9. faults' = faults \/ faults' = faults + 1
  BY <1>4, <1>5, <1>6, <1>7, <1>8 DEF Next
<1> QED
  BY <1>1, <1>9

LEMMA CleanNext ==
    ASSUME TextsApart, TypeInv, LineInv, faults = 0 => CleanInv, [Next]_vars, faults' = 0
    PROVE  CleanInv'
<1>1. TypeInv'
  BY TypeNext
<1>2. faults = 0 /\ CleanInv /\ faults' = faults
  BY FaultsStay
<1>3. got \in Got
  BY DEF TypeInv
<1>4. ASSUME NEW w \in Writer, SendPacket(w) PROVE CleanInv'
  BY <1>1, <1>2, <1>4, SendPacketClean
<1>5. ASSUME NEW w \in Writer, NextChunk(w) PROVE CleanInv'
  BY <1>1, <1>2, <1>5, NextChunkClean
<1>6. CASE ModemText
  BY <1>1, <1>2, <1>6, ModemTextClean
<1>7. CASE Read
  BY <1>1, <1>2, <1>7, ReadClean
<1>8. CASE Dispatch
  BY <1>1, <1>2, <1>8, DispatchClean
<1>9. CASE Command \/ Take
  <2>1. got'.frames = got.frames /\ got'.packets = got.packets
    BY <1>3, <1>9 DEF Command, Take, Got
  <2>2. UNCHANGED <<way, left, wire, buf, queue, ppp, sent>> /\ running' = running
    BY <1>9 DEF Command, Take
  <2> QED
    BY <1>2, <2>1, <2>2, RestClean
<1>10. CASE Register \/ Answered
  <2>1. UNCHANGED <<way, left, wire, buf, queue, ppp, sent, got>> /\ (running => running')
    BY <1>10 DEF Register, Answered
  <2> QED
    BY <1>2, <2>1, RestClean
<1>11. CASE UNCHANGED vars
  <2>1. UNCHANGED <<way, left, wire, buf, queue, ppp, sent, got, running>>
    BY <1>11 DEF vars
  <2> QED
    BY <1>2, <2>1, RestClean
<1> QED
  BY <1>4, <1>5, <1>6, <1>7, <1>8, <1>9, <1>10, <1>11 DEF Next

LEMMA CleanInit == Init => CleanInv
<1> SUFFICES ASSUME Init PROVE CleanInv
  OBVIOUS
<1> DEFINE none == <<>>
<1>1. /\ got.packets = none /\ sent.packets = none /\ got.frames = none /\ sent.frames = none
      /\ left["one"] = none /\ left["two"] = none
      /\ ppp = none /\ buf = none /\ wire = none /\ queue = none
  BY DEF Init, Writer
<1>2. /\ none \in Seq(Frame) /\ none \o none = none /\ HeadersOf(none) = none
      /\ PppData(All, none) = none /\ PppData(FALSE, none) = none
      /\ Encodes(FrameCodes, none, none) /\ PppWhole(none, none, none, none)
  <2>1. none \in Seq(Frame) /\ none \o none = none
    OBVIOUS
  <2>2. HeadersOf(none) = none /\ \A all : PppData(all, none) = none
    BY PartsNone
  <2>3. Encodes(FrameCodes, none, none)
    BY EncodesNone
  <2>4. PppWhole(none, none, none, none)
    BY WholeInit
  <2> QED
    BY <2>1, <2>2, <2>3, <2>4
<1> HIDE DEF none
<1>3. FramesWhole(none)
  <2>1. none = <<>>
    BY DEF none
  <2> QED
    BY <1>1, <1>2, <2>1 DEF FramesWhole
<1>4. Coming(none) = none
  <2>1. Unsent = none /\ OnLine(none) = none
    BY <1>1, <1>2 DEF Unsent, OnLine
  <2> QED
    BY <1>1, <1>2, <2>1 DEF Coming
<1>5. PppWhole(ppp, Coming(none), sent.packets, got.packets)
  BY <1>1, <1>2, <1>4
<1> QED
  BY <1>1, <1>2, <1>3, <1>5 DEF CleanInv, none

LEMMA CleanEnd ==
    ASSUME TypeInv, CleanInv, Idle
    PROVE  got.frames = sent.frames /\ (~sent.mixed => got.packets = sent.packets)
<1> DEFINE none == <<>>
<1>1. /\ wire = none /\ queue = none /\ left["one"] = none /\ left["two"] = none /\ buf = none
  BY DEF Idle, Writer, CleanInv
<1>2. PICK fs \in Seq(Frame) :
          /\ FramesWhole(fs)
          /\ way.ppp /\ ~sent.mixed => PppWhole(ppp, Coming(fs), sent.packets, got.packets)
  BY DEF CleanInv
<1>3. /\ none \o none = none /\ HeadersOf(none) = none /\ none = <<>>
      /\ PppData(All, none) = none /\ PppData(FALSE, none) = none
  <2>1. none \o none = none /\ none = <<>>
    OBVIOUS
  <2>2. HeadersOf(none) = none /\ \A all : PppData(all, none) = none
    BY PartsNone
  <2> QED
    BY <2>1, <2>2
<1> HIDE DEF none
<1>4. fs = none
  <2>1. CASE All
    BY <1>2, <1>3, <2>1 DEF FramesWhole
  <2>2. CASE ~All
    <3>1. Encodes(FrameCodes, <<>>, fs)
      BY <1>1, <1>2, <1>3, <2>2 DEF FramesWhole
    <3>2. \A b \in Seq(AnyByte) : \A x \in Frame : <<b, x>> \in FrameCodes => b # <<>>
      BY DEF FrameCodes, IsCode
    <3> QED
      BY <1>3, <3>1, <3>2, EncodesEmpty
  <2> QED
    BY <2>1, <2>2
<1>5. got.frames = sent.frames
  <2>1. got.frames \in Seq(LineHead)
    BY HeadTypes
  <2>2. sent.frames = got.frames \o <<>>
    BY <1>2, <1>3, <1>4 DEF FramesWhole
  <2> QED
    BY <2>1, <2>2, Regroup
<1>6. Coming(fs) = <<>>
  <2>1. Unsent = none /\ OnLine(fs) = none
    BY <1>1, <1>3, <1>4 DEF Unsent, OnLine
  <2> QED
    BY <1>1, <1>3, <2>1 DEF Coming
<1>7. ASSUME ~sent.mixed PROVE got.packets = sent.packets
  <2>1. CASE ~way.ppp
    BY <2>1 DEF CleanInv
  <2>2. CASE way.ppp
    <3>1. PppWhole(ppp, <<>>, sent.packets, got.packets)
      BY <1>2, <1>6, <1>7, <2>2
    <3> QED
      BY <3>1, ComingTypes, WholeDone
  <2> QED
    BY <2>1, <2>2
<1> QED
  BY <1>5, <1>7

(* A line that damages nothing delivers every frame and every packet, in    *)
(* order and unaltered, however its bytes arrive: what was sent can be read *)
(* off the bytes under way (FrameParser, PppParser, make_frame()).          *)
THEOREM CleanLine ==
    ASSUME TextsApart
    PROVE  Spec => []CleanLineKeepsAll
<1> DEFINE I == LineInv /\ (faults = 0 => CleanInv)
<1>1. Init => I
  BY LineInit, CleanInit
<1>2. TypeInv /\ I /\ [Next]_vars => I'
  BY PacketsNext, CleanNext
<1>3. TypeInv /\ I => CleanLineKeepsAll
  BY CleanEnd DEF CleanLineKeepsAll
<1> QED
  BY <1>1, <1>2, <1>3, TypeAlways, PTL DEF Spec
=============================================================================
