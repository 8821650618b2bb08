---------------------------- MODULE FrameProofs -----------------------------
(***************************************************************************)
(* What the operators of CmuxFrames and PppFrames do, for every input:     *)
(* the facts that FramePathProofs rests on.                                *)
(***************************************************************************)
EXTENDS PppFrames, SequenceTheorems, WellFoundedInduction, TLAPS

LEMMA Least ==
    ASSUME NEW T \in SUBSET Nat, T # {}
    PROVE  \E x \in T : \A y \in T : x <= y
<1> DEFINE R == {ss \in Nat \X Nat : ss[1] < ss[2]}
<1>1. IsWellFoundedOn(R, Nat)
  BY NatLessThanWellFounded DEF OpToRel
<1>2. PICK x \in T : \A y \in T : ~(<<y, x>> \in R)
  <2> HIDE DEF R
  <2> QED
    BY <1>1, WFMin
<1>3. ASSUME NEW y \in T PROVE x <= y
  <2>1. <<y, x>> \in Nat \X Nat /\ ~(y < x)
    BY <1>2
  <2> QED
    BY <2>1
<1> QED
  BY <1>3

LEMMA MinIs ==
    ASSUME NEW T \in SUBSET Nat, T # {}
    PROVE  Min(T) \in T /\ \A y \in T : Min(T) <= y
<1>1. PICK x \in T : \A y \in T : x <= y
  BY Least
<1> QED
  BY <1>1 DEF Min

(* What each number inherits from all larger ones holds of all.             *)
LEMMA Downward ==
    ASSUME NEW n \in Nat, NEW P,
           \A i \in 1 .. n : i + 1 .. n \subseteq P => i \in P
    PROVE  1 .. n \subseteq P
<1> DEFINE T == {k \in 0 .. n - 1 : n - k \notin P}
<1> SUFFICES ASSUME T # {} PROVE FALSE
  <2> SUFFICES ASSUME NEW i \in 1 .. n, i \notin P PROVE FALSE
    OBVIOUS
  <2>1. n - i \in 0 .. n - 1 /\ n - (n - i) = i
    OBVIOUS
  <2> QED
    BY <2>1
<1>1. T \in SUBSET Nat
  OBVIOUS
<1>2. PICK k \in T : \A y \in T : k <= y
  <2> HIDE DEF T
  <2> QED
    BY <1>1, Least
<1>3. n - k \in 1 .. n /\ n - k \notin P
  OBVIOUS
<1>4. PICK j \in (n - k) + 1 .. n : j \notin P
  BY <1>3
<1>5. n - j \in 0 .. n - 1 /\ n - (n - j) = j /\ n - j < k
  BY <1>4
<1> QED
  BY <1>2, <1>4, <1>5

(* What each number inherits from all smaller ones holds of all.            *)
LEMMA Upward ==
    ASSUME NEW n \in Nat, NEW P,
           \A i \in 1 .. n : 1 .. i - 1 \subseteq P => i \in P
    PROVE  1 .. n \subseteq P
<1> DEFINE T == {k \in 1 .. n : k \notin P}
<1> SUFFICES ASSUME T # {} PROVE FALSE
  OBVIOUS
<1>1. T \in SUBSET Nat
  OBVIOUS
<1>2. PICK k \in T : \A y \in T : k <= y
  <2> HIDE DEF T
  <2> QED
    BY <1>1, Least
<1>3. PICK j \in 1 .. k - 1 : j \notin P
  OBVIOUS
<1> QED
  BY <1>2, <1>3

(* A function whose value at a place is given by its value at a later one.  *)
Descends(n, T, go, next, base, step) ==
    /\ n \in Nat
    /\ next \in [1 .. n -> Int] /\ \A i \in 1 .. n : i \in go => next[i] \in i + 1 .. n
    /\ base \in [1 .. n -> T] /\ step \in [(1 .. n) \X T -> T]

Solves(f, n, T, go, next, base, step) ==
    /\ f \in [1 .. n -> T]
    /\ \A i \in 1 .. n : f[i] = IF i \in go THEN step[<<i, f[next[i]]>>] ELSE base[i]

LEMMA RecursionDown ==
    ASSUME NEW n, NEW T, NEW go, NEW next, NEW base, NEW step,
           Descends(n, T, go, next, base, step)
    PROVE  \E f : Solves(f, n, T, go, next, base, step)
<1>0. /\ n \in Nat
      /\ next \in [1 .. n -> Int] /\ \A i \in 1 .. n : i \in go => next[i] \in i + 1 .. n
      /\ base \in [1 .. n -> T] /\ step \in [(1 .. n) \X T -> T]
  BY DEF Descends
<1> DEFINE Val1(f, i) == IF i \in go THEN step[<<i, f[next[i]]>>] ELSE base[i]
           P == {i \in 1 .. n : \E f \in [1 .. n -> T] : \A j \in i .. n : f[j] = Val1(f, j)}
<1>1. ASSUME NEW i \in 1 .. n, i + 1 .. n \subseteq P PROVE i \in P
  <2>1. PICK f \in [1 .. n -> T] : \A j \in i + 1 .. n : f[j] = Val1(f, j)
    <3>1. CASE i = n
      BY <1>0, <3>1
    <3>2. CASE i # n
      <4>1. i + 1 \in P
        <5> HIDE DEF P
        <5>1. i + 1 \in i + 1 .. n
          BY <1>0, <3>2
        <5> QED
          BY <1>1, <5>1
      <4> QED
        BY <4>1
    <3> QED
      BY <3>1, <3>2
  <2> DEFINE v == Val1(f, i)
             g == [j \in 1 .. n |-> IF j = i THEN v ELSE f[j]]
  <2>2. v \in T
    <3>1. i \in go => <<i, f[next[i]]>> \in (1 .. n) \X T
      BY <1>0
    <3> QED
      BY <1>0, <3>1
  <2>3. g \in [1 .. n -> T]
    <3> HIDE DEF v
    <3> QED
      BY <2>2
  <2>4. ASSUME NEW j \in i .. n PROVE g[j] = Val1(g, j)
    <3>1. j \in go => g[next[j]] = f[next[j]]
      <4>1. j \in 1 .. n
        BY <1>0
      <4>2. j \in go => next[j] \in j + 1 .. n
        BY <1>0, <4>1
      <4> HIDE DEF v
      <4> QED
        BY <1>0, <4>2
    <3>2. j = i \/ j \in i + 1 .. n
      BY <1>0
    <3>3. g[j] = IF j = i THEN v ELSE f[j]
      <4> HIDE DEF v
      <4> QED
        BY <1>0
    <3>4. g[j] = Val1(f, j)
      <4> HIDE DEF g
      <4> QED
        BY <2>1, <3>2, <3>3
    <3> HIDE DEF g, v
    <3> QED
      BY <3>1, <3>4
  <2> HIDE DEF g, Val1
  <2> QED
    BY <2>3, <2>4
<1>2. 1 .. n \subseteq P
  <2> HIDE DEF P
  <2> QED
    BY <1>0, <1>1, Downward
<1>3. CASE n = 0
  <2>1. 1 .. n = {}
    BY <1>3
  <2>2. Solves(base, n, T, go, next, base, step)
    BY <1>0, <2>1 DEF Solves
  <2> QED
    BY <2>2
<1>4. CASE n # 0
  <2>1. 1 \in P
    <3> HIDE DEF P
    <3>1. 1 \in 1 .. n
      BY <1>0, <1>4
    <3> QED
      BY <1>2, <3>1
  <2> HIDE DEF Val1
  <2>2. \E f \in [1 .. n -> T] : \A j \in 1 .. n : f[j] = Val1(f, j)
    BY <2>1
  <2>3. PICK f \in [1 .. n -> T] : \A j \in 1 .. n : f[j] = Val1(f, j)
    BY <2>2
  <2>4. Solves(f, n, T, go, next, base, step)
    BY <2>3 DEF Solves, Val1
  <2> QED
    BY <2>4
<1> QED
  BY <1>0, <1>3, <1>4

-----------------------------------------------------------------------------
(* Marks. z and y are sequences of sets; what is marked in z is marked in y *)
(* in the same order.                                                       *)

Carries(c, z, y) ==
    /\ c \in [DOMAIN z -> Int]
    /\ \A i \in DOMAIN z : z[i] # {} => c[i] \in DOMAIN y /\ y[c[i]] = z[i]
    /\ \A i, j \in DOMAIN z : i < j /\ z[i] # {} /\ z[j] # {} => c[i] < c[j]

Within(z, y) == \E c : Carries(c, z, y)

LEMMA WithinSelf ==
    ASSUME NEW S, NEW z \in Seq(S)
    PROVE  Within(z, z)
<1>1. Carries([i \in DOMAIN z |-> i], z, z)
  BY DEF Carries
<1> QED
  BY <1>1 DEF Within

LEMMA WithinBlank ==
    ASSUME NEW S, NEW z \in Seq(S), NEW y, \A i \in 1 .. Len(z) : z[i] = {}
    PROVE  Within(z, y)
<1>1. Carries([i \in DOMAIN z |-> i], z, y)
  BY DEF Carries
<1> QED
  BY <1>1 DEF Within

LEMMA WithinNone ==
    ASSUME NEW y
    PROVE  Within(<<>>, y)
<1>1. DOMAIN <<>> = {}
  OBVIOUS
<1>2. Carries([i \in DOMAIN <<>> |-> 0], <<>>, y)
  BY <1>1 DEF Carries
<1> QED
  BY <1>2 DEF Within

LEMMA WithinTrans ==
    ASSUME NEW S, NEW z \in Seq(S), NEW y \in Seq(S), NEW x \in Seq(S),
           Within(z, y), Within(y, x)
    PROVE  Within(z, x)
<1>1. PICK c : Carries(c, z, y)
  BY DEF Within
<1>2. PICK d : Carries(d, y, x)
  BY DEF Within
<1> DEFINE e == [i \in DOMAIN z |-> IF c[i] \in DOMAIN y THEN d[c[i]] ELSE 0]
<1>3. /\ \A i \in DOMAIN z : c[i] \in Int /\ (z[i] # {} => c[i] \in DOMAIN y /\ y[c[i]] = z[i])
      /\ \A i, j \in DOMAIN z : i < j /\ z[i] # {} /\ z[j] # {} => c[i] < c[j]
  BY <1>1 DEF Carries
<1>4. /\ \A k \in DOMAIN y : d[k] \in Int /\ (y[k] # {} => d[k] \in DOMAIN x /\ x[d[k]] = y[k])
      /\ \A k, l \in DOMAIN y : k < l /\ y[k] # {} /\ y[l] # {} => d[k] < d[l]
  BY <1>2 DEF Carries
<1>5. \A i \in DOMAIN z : e[i] = IF c[i] \in DOMAIN y THEN d[c[i]] ELSE 0
  OBVIOUS
<1>6. e \in [DOMAIN z -> Int]
  BY <1>3, <1>4
<1> HIDE DEF e
<1>7. \A i \in DOMAIN z : z[i] # {} => e[i] \in DOMAIN x /\ x[e[i]] = z[i]
  BY <1>3, <1>4, <1>5
<1>8. \A i, j \in DOMAIN z : i < j /\ z[i] # {} /\ z[j] # {} => e[i] < e[j]
  BY <1>3, <1>4, <1>5
<1>9. Carries(e, z, x)
  BY <1>6, <1>7, <1>8 DEF Carries
<1> QED
  BY <1>9 DEF Within

LEMMA WithinConcat ==
    ASSUME NEW S, NEW a \in Seq(S), NEW b \in Seq(S), NEW y \in Seq(S), NEW x \in Seq(S),
           Within(a, y), Within(b, x)
    PROVE  Within(a \o b, y \o x)
<1>1. PICK c : Carries(c, a, y)
  BY DEF Within
<1>2. PICK d : Carries(d, b, x)
  BY DEF Within
<1> DEFINE z == a \o b
           w == y \o x
           n == Len(a)
           m == Len(y)
           e == [i \in 1 .. Len(z) |-> IF i <= n THEN c[i] ELSE m + d[i - n]]
<1>3. /\ z \in Seq(S) /\ Len(z) = n + Len(b) /\ DOMAIN z = 1 .. Len(z) /\ Len(z) \in Nat
      /\ \A i \in 1 .. n : z[i] = a[i]
      /\ \A i \in n + 1 .. Len(z) : z[i] = b[i - n] /\ i - n \in 1 .. Len(b)
      /\ DOMAIN a = 1 .. n /\ DOMAIN b = 1 .. Len(b) /\ n \in Nat /\ Len(b) \in Nat
  OBVIOUS
<1>4. /\ DOMAIN w = 1 .. m + Len(x) /\ m \in Nat /\ Len(x) \in Nat
      /\ \A k \in 1 .. m : w[k] = y[k]
      /\ \A k \in 1 .. Len(x) : w[m + k] = x[k] /\ m + k \in DOMAIN w
      /\ DOMAIN y = 1 .. m /\ DOMAIN x = 1 .. Len(x)
  OBVIOUS
<1>5. /\ \A i \in 1 .. n : c[i] \in Int /\ (a[i] # {} => c[i] \in 1 .. m /\ y[c[i]] = a[i])
      /\ \A i, j \in 1 .. n : i < j /\ a[i] # {} /\ a[j] # {} => c[i] < c[j]
  <2> HIDE DEF n, m
  <2> QED
    BY <1>1, <1>3, <1>4 DEF Carries
<1>6. /\ \A i \in 1 .. Len(b) : d[i] \in Int /\ (b[i] # {} => d[i] \in 1 .. Len(x) /\ x[d[i]] = b[i])
      /\ \A i, j \in 1 .. Len(b) : i < j /\ b[i] # {} /\ b[j] # {} => d[i] < d[j]
  BY <1>2, <1>3, <1>4 DEF Carries
<1> HIDE DEF z, w, n, m
<1>7. \A i \in 1 .. n : e[i] = c[i]
  BY <1>3
<1>8. \A i \in n + 1 .. Len(z) : e[i] = m + d[i - n]
  BY <1>3
<1>9. e \in [DOMAIN z -> Int]
  <2>1. ASSUME NEW i \in 1 .. Len(z) PROVE e[i] \in Int
    <3>1. CASE i \in 1 .. n
      BY <1>5, <1>7, <3>1
    <3>2. CASE i \in n + 1 .. Len(z)
      <4>1. i - n \in 1 .. Len(b) /\ e[i] = m + d[i - n]
        BY <1>3, <1>8, <3>2
      <4> QED
        BY <1>4, <1>6, <4>1
    <3> QED
      BY <1>3, <3>1, <3>2
  <2>2. e = [i \in 1 .. Len(z) |-> e[i]]
    OBVIOUS
  <2> HIDE DEF e
  <2> QED
    BY <1>3, <2>1, <2>2
<1> HIDE DEF e
<1>10. ASSUME NEW i \in 1 .. Len(z), z[i] # {} PROVE e[i] \in DOMAIN w /\ w[e[i]] = z[i]
  <2>1. CASE i \in 1 .. n
    <3>1. e[i] = c[i] /\ a[i] = z[i]
      BY <1>3, <1>7, <2>1
    <3>2. c[i] \in 1 .. m /\ y[c[i]] = a[i]
      BY <1>10, <1>5, <2>1, <3>1
    <3> QED
      BY <1>4, <3>1, <3>2
  <2>2. CASE i \in n + 1 .. Len(z)
    <3>1. e[i] = m + d[i - n] /\ b[i - n] = z[i] /\ i - n \in 1 .. Len(b)
      BY <1>3, <1>8, <2>2
    <3>2. d[i - n] \in 1 .. Len(x) /\ x[d[i - n]] = b[i - n]
      BY <1>10, <1>6, <3>1
    <3> QED
      BY <1>4, <3>1, <3>2
  <2> QED
    BY <1>3, <2>1, <2>2
<1>11. ASSUME NEW i \in 1 .. Len(z), NEW j \in 1 .. Len(z), i < j, z[i] # {}, z[j] # {}
       PROVE  e[i] < e[j]
  <2>1. CASE j <= n
    <3>1. i \in 1 .. n /\ j \in 1 .. n
      BY <1>11, <1>3, <2>1
    <3> QED
      BY <1>11, <1>3, <1>5, <1>7, <3>1
  <2>2. CASE i <= n /\ j > n
    <3>1. i \in 1 .. n /\ j \in n + 1 .. Len(z)
      BY <1>11, <1>3, <2>2
    <3>2. e[i] \in 1 .. m
      BY <1>11, <1>3, <1>5, <1>7, <3>1
    <3>3. e[j] = m + d[j - n] /\ d[j - n] \in 1 .. Len(x)
      BY <1>11, <1>3, <1>6, <1>8, <3>1
    <3> QED
      BY <1>4, <3>2, <3>3
  <2>3. CASE i > n
    <3>1. i \in n + 1 .. Len(z) /\ j \in n + 1 .. Len(z)
      BY <1>11, <1>3, <2>3
    <3>2. /\ i - n \in 1 .. Len(b) /\ j - n \in 1 .. Len(b) /\ i - n < j - n
          /\ z[i] = b[i - n] /\ z[j] = b[j - n]
      BY <1>11, <1>3, <3>1
    <3>3. d[i - n] < d[j - n] /\ d[i - n] \in Int /\ d[j - n] \in Int
      BY <1>11, <1>6, <3>2
    <3> QED
      BY <1>4, <1>8, <3>1, <3>3
  <2> QED
    BY <1>3, <2>1, <2>2, <2>3
<1>12. Carries(e, z, w)
  BY <1>3, <1>9, <1>10, <1>11 DEF Carries
<1> QED
  BY <1>12 DEF Within, z, w

LEMMA WithinPart ==
    ASSUME NEW S, NEW z \in Seq(S), NEW a \in 1 .. Len(z) + 1, NEW b \in a - 1 .. Len(z)
    PROVE  Within(SubSeq(z, a, b), z)
<1> DEFINE y == SubSeq(z, a, b)
           c == [i \in 1 .. b - a + 1 |-> a + i - 1]
<1>1. DOMAIN y = 1 .. b - a + 1 /\ \A i \in 1 .. b - a + 1 : y[i] = z[a + i - 1]
  OBVIOUS
<1>2. /\ c \in [1 .. b - a + 1 -> Int]
      /\ \A i \in 1 .. b - a + 1 : c[i] = a + i - 1 /\ c[i] \in DOMAIN z
  OBVIOUS
<1> HIDE DEF y, c
<1>3. Carries(c, y, z)
  BY <1>1, <1>2 DEF Carries
<1> QED
  BY <1>3 DEF Within, y

LEMMA WithinErased ==
    ASSUME NEW S, {} \in S, NEW z \in Seq(S), NEW i \in DOMAIN z
    PROVE  Within([z EXCEPT ![i] = {}], z)
<1>1. Carries([k \in DOMAIN z |-> k], [z EXCEPT ![i] = {}], z)
  BY DEF Carries
<1> QED
  BY <1>1 DEF Within

-----------------------------------------------------------------------------
(* Bytes as they occur on the line, and what the checksums among them name: *)
(* the header of a frame of the multiplexer, or a PPP packet.               *)

Headers == {h \in Seq(PlainByte) : Len(h) \in {3, 4}}
Contents == Seq(PlainByte)

AnyByte ==
    PlainByte \union {Check(v, h) : v \in Byte, h \in Headers}
              \union {Check(v, <<c>>) : v \in Byte, c \in Contents}

Label == [dlci : Int, len : Int] \union [proto : Int, info : Seq(PlainByte)]
Mark == SUBSET Label

HeaderIn(h) ==
    [dlci |-> Val(h[1]) \div 4,
     len |-> Val(h[3]) \div 2 + IF Len(h) = 4 THEN Val(h[4]) * LenBase ELSE 0]

PacketIn(c) == PacketOf(c \o PppCheck(c))

HeadMark(b) ==
    {x \in Label : Len(b) = 2 /\ Len(b[2]) \in {3, 4} /\ x = HeaderIn(b[2])}

PackMark(b) ==
    {x \in Label : Len(b) = 2 /\ b[1] = 1 /\ Len(b[2]) = 1 /\ x = PacketIn(b[2][1])}

MarkOf(k, b) == IF k = "head" THEN HeadMark(b) ELSE PackMark(b)

MarksOf(k, s) == [i \in DOMAIN s |-> MarkOf(k, s[i])]

LEMMA ByteIs ==
    /\ \A b \in AnyByte : Val(b) \in Byte
    /\ \A v \in Byte : Plain(v) \in AnyByte /\ Plain(v) \in PlainByte
    /\ \A b \in PlainByte : b \in AnyByte /\ Len(b) = 1
    /\ Byte \subseteq Nat
<1>1. Byte \subseteq Nat
  BY FramesAssumption DEF Byte
<1>2. \A b \in AnyByte : Val(b) \in Byte
  BY DEF AnyByte, PlainByte, Plain, Check, Val
<1>3. \A v \in Byte : Plain(v) \in AnyByte /\ Plain(v) \in PlainByte
  BY DEF AnyByte, PlainByte
<1>4. \A b \in PlainByte : b \in AnyByte /\ Len(b) = 1
  BY DEF AnyByte, PlainByte, Plain
<1> QED
  BY <1>1, <1>2, <1>3, <1>4

LEMMA MarkIs ==
    ASSUME NEW k
    PROVE  /\ \A b : MarkOf(k, b) \in Mark
           /\ \A b \in PlainByte : MarkOf(k, b) = {}
<1>1. \A b : MarkOf(k, b) \in Mark
  BY DEF MarkOf, HeadMark, PackMark, Mark
<1>2. \A b \in PlainByte : Len(b) = 1
  BY ByteIs
<1>3. \A b \in PlainByte : MarkOf(k, b) = {}
  BY <1>2 DEF MarkOf, HeadMark, PackMark
<1> QED
  BY <1>1, <1>3

LEMMA MarksType ==
    ASSUME NEW k, NEW B, NEW s \in Seq(B)
    PROVE  /\ MarksOf(k, s) \in Seq(Mark)
           /\ Len(MarksOf(k, s)) = Len(s)
           /\ \A i \in 1 .. Len(s) : MarksOf(k, s)[i] = MarkOf(k, s[i])
<1>1. DOMAIN s = 1 .. Len(s) /\ Len(s) \in Nat
  OBVIOUS
<1>2. \A b : MarkOf(k, b) \in Mark
  BY MarkIs
<1> DEFINE n == Len(s)
           u == [i \in 1 .. n |-> MarkOf(k, s[i])]
<1>3. u \in Seq(Mark) /\ Len(u) = n /\ \A i \in 1 .. n : u[i] = MarkOf(k, s[i])
  <2>1. n \in Nat
    BY <1>1
  <2> HIDE DEF n
  <2> QED
    BY <1>2, <2>1
<1>4. MarksOf(k, s) = u
  BY <1>1 DEF MarksOf
<1> HIDE DEF u
<1> QED
  BY <1>3, <1>4

LEMMA MarksConcat ==
    ASSUME NEW k, NEW B, NEW s \in Seq(B), NEW t \in Seq(B)
    PROVE  MarksOf(k, s \o t) = MarksOf(k, s) \o MarksOf(k, t)
<1> DEFINE st == s \o t
           x == MarksOf(k, st)
           u == MarksOf(k, s)
           v == MarksOf(k, t)
           y == u \o v
<1>1. /\ st \in Seq(B) /\ Len(st) = Len(s) + Len(t)
      /\ \A i \in 1 .. Len(s) + Len(t) :
             st[i] = IF i <= Len(s) THEN s[i] ELSE t[i - Len(s)]
  BY ConcatProperties
<1> HIDE DEF st
<1>2. /\ x \in Seq(Mark) /\ Len(x) = Len(s) + Len(t)
      /\ \A i \in 1 .. Len(s) + Len(t) : x[i] = MarkOf(k, st[i])
  <2>1. /\ x \in Seq(Mark) /\ Len(x) = Len(st)
        /\ \A i \in 1 .. Len(st) : x[i] = MarkOf(k, st[i])
    BY <1>1, MarksType
  <2> HIDE DEF x
  <2> QED
    BY <1>1, <2>1
<1>3. /\ u \in Seq(Mark) /\ v \in Seq(Mark) /\ Len(u) = Len(s) /\ Len(v) = Len(t)
      /\ \A i \in 1 .. Len(s) : u[i] = MarkOf(k, s[i])
      /\ \A i \in 1 .. Len(t) : v[i] = MarkOf(k, t[i])
  BY MarksType
<1> HIDE DEF u, v
<1>4. /\ y \in Seq(Mark) /\ Len(y) = Len(s) + Len(t)
      /\ \A i \in 1 .. Len(s) + Len(t) : y[i] = IF i <= Len(s) THEN u[i] ELSE v[i - Len(s)]
  <2>0. u \in Seq(Mark) /\ v \in Seq(Mark)
    BY <1>3
  <2>1. /\ y \in Seq(Mark) /\ Len(y) = Len(u) + Len(v)
        /\ \A i \in 1 .. Len(u) + Len(v) : y[i] = IF i <= Len(u) THEN u[i] ELSE v[i - Len(u)]
    BY <2>0, ConcatProperties
  <2> HIDE DEF y
  <2> QED
    BY <1>3, <2>1
<1> HIDE DEF x, y
<1>5. ASSUME NEW i \in 1 .. Len(s) + Len(t) PROVE x[i] = y[i]
  <2>1. CASE i <= Len(s)
    BY <1>1, <1>2, <1>3, <1>4, <2>1
  <2>2. CASE ~(i <= Len(s))
    <3>1. i - Len(s) \in 1 .. Len(t)
      BY <2>2
    <3> QED
      BY <1>1, <1>2, <1>3, <1>4, <2>2, <3>1
  <2> QED
    BY <2>1, <2>2
<1>6. x = y
  BY <1>2, <1>4, <1>5, SeqEqual
<1> QED
  BY <1>6 DEF x, y, st, u, v

LEMMA MarksPart ==
    ASSUME NEW k, NEW B, NEW s \in Seq(B),
           NEW a \in 1 .. Len(s) + 1, NEW b \in a - 1 .. Len(s)
    PROVE  MarksOf(k, SubSeq(s, a, b)) = SubSeq(MarksOf(k, s), a, b)
<1> DEFINE p == SubSeq(s, a, b)
           u == MarksOf(k, s)
           x == MarksOf(k, p)
           y == SubSeq(u, a, b)
           n == b - a + 1
<1>1. /\ p \in Seq(B) /\ Len(p) = n /\ \A i \in 1 .. n : p[i] = s[a + i - 1]
  OBVIOUS
<1> HIDE DEF p
<1>2. u \in Seq(Mark) /\ Len(u) = Len(s) /\ \A i \in 1 .. Len(s) : u[i] = MarkOf(k, s[i])
  BY MarksType
<1>3. x \in Seq(Mark) /\ Len(x) = Len(p) /\ \A i \in 1 .. Len(p) : x[i] = MarkOf(k, p[i])
  BY <1>1, MarksType
<1> HIDE DEF u, x
<1>4. y \in Seq(Mark) /\ Len(y) = n /\ \A i \in 1 .. n : y[i] = u[a + i - 1]
  BY <1>2
<1> HIDE DEF y
<1>5. ASSUME NEW i \in 1 .. n PROVE x[i] = y[i]
  <2>1. a + i - 1 \in 1 .. Len(s) /\ i \in 1 .. Len(p)
    BY <1>1
  <2>2. x[i] = MarkOf(k, p[i]) /\ p[i] = s[a + i - 1] /\ y[i] = u[a + i - 1]
    <3> HIDE DEF n
    <3> QED
      BY <1>1, <1>3, <1>4, <2>1
  <2>3. u[a + i - 1] = MarkOf(k, s[a + i - 1])
    BY <1>2, <2>1
  <2> QED
    BY <2>2, <2>3
<1>6. x = y
  BY <1>1, <1>3, <1>4, <1>5, SeqEqual
<1> QED
  BY <1>6 DEF x, y, u, p

(* Bytes without marks may come and go, and any byte may be lost.           *)
LEMMA MarksBlank ==
    ASSUME NEW k, NEW B, NEW s \in Seq(B), NEW y, \A i \in 1 .. Len(s) : MarkOf(k, s[i]) = {}
    PROVE  Within(MarksOf(k, s), y)
<1> DEFINE x == MarksOf(k, s)
<1>1. x \in Seq(Mark) /\ Len(x) = Len(s) /\ \A i \in 1 .. Len(s) : x[i] = MarkOf(k, s[i])
  BY MarksType
<1> HIDE DEF x
<1>2. Within(x, y)
  BY <1>1, WithinBlank
<1> QED
  BY <1>2 DEF x

LEMMA MarksLost ==
    ASSUME NEW k, NEW B, NEW s \in Seq(B), NEW i \in DOMAIN s
    PROVE  /\ RemoveAt(s, i) \in Seq(B)
           /\ Within(MarksOf(k, RemoveAt(s, i)), MarksOf(k, s))
<1> DEFINE z == MarksOf(k, s)
           n == Len(s)
           y == SubSeq(z, i, n)
           l == SubSeq(s, 1, i - 1)
           r == SubSeq(s, i + 1, n)
<1>0. n \in Nat /\ i \in 1 .. n
  OBVIOUS
<1>1. z \in Seq(Mark) /\ Len(z) = n
  BY MarksType
<1>2. l \in Seq(B) /\ r \in Seq(B) /\ RemoveAt(s, i) = l \o r
  BY <1>0 DEF RemoveAt
<1>3. MarksOf(k, l \o r) = MarksOf(k, l) \o MarksOf(k, r)
  <2> HIDE DEF l, r
  <2> QED
    BY <1>2, MarksConcat
<1>4. MarksOf(k, l) = SubSeq(z, 1, i - 1)
  <2>1. 1 \in 1 .. n + 1 /\ i - 1 \in 1 - 1 .. n
    BY <1>0
  <2> QED
    BY <2>1, MarksPart
<1>5. MarksOf(k, r) = SubSeq(z, i + 1, n)
  <2>1. i + 1 \in 1 .. n + 1 /\ n \in (i + 1) - 1 .. n
    BY <1>0
  <2> QED
    BY <2>1, MarksPart
<1> HIDE DEF z, n
<1>6. /\ SubSeq(z, 1, i - 1) \in Seq(Mark) /\ SubSeq(z, i + 1, n) \in Seq(Mark)
      /\ y \in Seq(Mark) /\ Len(y) = n - i + 1
  BY <1>0, <1>1
<1>7. Within(SubSeq(z, i + 1, n), y)
  <2>1. SubSeq(z, i + 1, n) = SubSeq(y, 2, Len(y))
    BY <1>0, <1>1, SMTT(20)
  <2>2. 2 \in 1 .. Len(y) + 1 /\ Len(y) \in 2 - 1 .. Len(y)
    BY <1>0, <1>6
  <2> HIDE DEF y
  <2> QED
    BY <1>6, <2>1, <2>2, WithinPart
<1>8. Within(SubSeq(z, 1, i - 1), SubSeq(z, 1, i - 1))
  BY <1>6, WithinSelf
<1>9. Within(SubSeq(z, 1, i - 1) \o SubSeq(z, i + 1, n), SubSeq(z, 1, i - 1) \o y)
  <2> HIDE DEF y
  <2> QED
    BY <1>6, <1>7, <1>8, WithinConcat
<1>10. SubSeq(z, 1, i - 1) \o y = z
  <2>1. 1 \in 1 .. Len(z) + 1 /\ i - 1 \in 1 - 1 .. Len(z) /\ n \in i - 1 .. Len(z) /\ (i - 1) + 1 = i
    BY <1>0, <1>1
  <2>2. SubSeq(z, 1, i - 1) \o SubSeq(z, (i - 1) + 1, n) = SubSeq(z, 1, n)
    BY <1>1, <2>1, ConcatAdjacentSubSeq
  <2>3. SubSeq(z, 1, Len(z)) = z
    BY <1>1, SubSeqFull
  <2> QED
    BY <1>1, <2>1, <2>2, <2>3
<1>11. RemoveAt(s, i) \in Seq(B)
  BY <1>2
<1>12. Within(MarksOf(k, l \o r), z)
  BY <1>3, <1>4, <1>5, <1>9, <1>10
<1> QED
  BY <1>2, <1>11, <1>12 DEF z

LEMMA MarksAltered ==
    ASSUME NEW k, NEW s \in Seq(AnyByte), NEW i \in DOMAIN s, NEW b \in PlainByte
    PROVE  /\ ReplaceAt(s, i, b) \in Seq(AnyByte)
           /\ Within(MarksOf(k, ReplaceAt(s, i, b)), MarksOf(k, s))
<1>0. b \in AnyByte /\ MarkOf(k, b) = {}
  BY ByteIs, MarkIs
<1>1. [s EXCEPT ![i] = b] \in Seq(AnyByte)
  BY <1>0
<1>2. MarksOf(k, [s EXCEPT ![i] = b]) = [MarksOf(k, s) EXCEPT ![i] = {}]
  BY <1>0 DEF MarksOf
<1>3. MarksOf(k, s) \in Seq(Mark) /\ i \in DOMAIN MarksOf(k, s)
  <2>1. MarksOf(k, s) \in Seq(Mark) /\ Len(MarksOf(k, s)) = Len(s)
    BY MarksType
  <2> QED
    BY <2>1
<1>4. {} \in Mark
  BY DEF Mark
<1>5. Within([MarksOf(k, s) EXCEPT ![i] = {}], MarksOf(k, s))
  BY <1>3, <1>4, WithinErased
<1> QED
  BY <1>1, <1>2, <1>5 DEF ReplaceAt

-----------------------------------------------------------------------------
(* Sequences of sequences.                                                  *)

(* The partial concatenations of q are a function that f is to be.          *)
Flattens(f, q) ==
    f = [i \in 1 .. Len(q) |-> IF i = 1 THEN q[i] ELSE f[i - 1] \o q[i]]

LEMMA FlattensExists ==
    ASSUME NEW S, NEW q \in Seq(Seq(S))
    PROVE  \E f : Flattens(f, q)
<1> DEFINE n == Len(q)
           next == [i \in 1 .. n |-> i + 1]
           go == 1 .. n - 1
           T == Seq(S)
           base == [i \in 1 .. n |-> q[n + 1 - i]]
           step == [x \in (1 .. n) \X T |-> x[2] \o q[n + 1 - x[1]]]
<1>1. n \in Nat /\ \A i \in 1 .. n : q[i] \in T
  OBVIOUS
<1>2. /\ next \in [1 .. n -> Int] /\ \A i \in 1 .. n : next[i] = i + 1
      /\ \A i \in 1 .. n : i \in go => next[i] \in i + 1 .. n
  BY <1>1
<1>3. base \in [1 .. n -> T] /\ \A i \in 1 .. n : base[i] = q[n + 1 - i]
  BY <1>1
<1>4. /\ step \in [(1 .. n) \X T -> T]
      /\ \A i \in 1 .. n : \A x \in T : step[<<i, x>>] = x \o q[n + 1 - i]
  <2>1. ASSUME NEW x \in (1 .. n) \X T PROVE x[2] \o q[n + 1 - x[1]] \in T
    <3>1. x[2] \in T /\ n + 1 - x[1] \in 1 .. n
      BY <1>1
    <3>2. q[n + 1 - x[1]] \in T
      BY <1>1, <3>1
    <3> QED
      BY <3>1, <3>2
  <2>2. \A i \in 1 .. n : \A x \in T : <<i, x>> \in (1 .. n) \X T
    OBVIOUS
  <2> HIDE DEF T, n
  <2> QED
    BY <2>1, <2>2
<1> HIDE DEF n, next, go, T, base, step
<1>5. PICK f \in [1 .. n -> T] : \A i \in 1 .. n :
          f[i] = IF i \in go THEN step[<<i, f[next[i]]>>] ELSE base[i]
  <2>1. Descends(n, T, go, next, base, step)
    BY <1>1, <1>2, <1>3, <1>4 DEF Descends
  <2> QED
    BY <2>1, RecursionDown DEF Solves
<1> DEFINE g == [i \in 1 .. n |-> f[n + 1 - i]]
<1>6. ASSUME NEW i \in 1 .. n PROVE g[i] = IF i = 1 THEN q[i] ELSE g[i - 1] \o q[i]
  <2>1. n + 1 - i \in 1 .. n /\ n + 1 - (n + 1 - i) = i /\ g[i] = f[n + 1 - i]
    BY <1>1
  <2>2. CASE i = 1
    <3>1. n + 1 - i \notin go
      BY <1>1, <2>2 DEF go
    <3> QED
      BY <1>3, <1>5, <2>1, <2>2, <3>1
  <2>3. CASE i # 1
    <3>1. /\ n + 1 - i \in go /\ i - 1 \in 1 .. n /\ n + 1 - (i - 1) = (n + 1 - i) + 1
          /\ (n + 1 - i) + 1 \in 1 .. n
      BY <1>1, <2>3 DEF go
    <3>2. g[i - 1] = f[(n + 1 - i) + 1] /\ f[(n + 1 - i) + 1] \in T
      BY <1>5, <3>1
    <3>3. f[n + 1 - i] = step[<<n + 1 - i, f[(n + 1 - i) + 1]>>]
      BY <1>2, <1>5, <2>1, <3>1
    <3>4. f[n + 1 - i] = f[(n + 1 - i) + 1] \o q[n + 1 - (n + 1 - i)]
      BY <1>4, <2>1, <3>2, <3>3
    <3> HIDE DEF g
    <3> QED
      BY <2>1, <2>3, <3>2, <3>4
  <2> QED
    BY <2>2, <2>3
<1>7. g = [i \in 1 .. n |-> g[i]]
  OBVIOUS
<1> HIDE DEF g
<1>8. Flattens(g, q)
  BY <1>6, <1>7 DEF Flattens, n
<1> QED
  BY <1>8

LEMMA FlattenIs ==
    ASSUME NEW S, NEW q \in Seq(Seq(S)), q # <<>>
    PROVE  \E f \in [1 .. Len(q) -> Seq(S)] :
               /\ f[1] = q[1]
               /\ \A i \in 2 .. Len(q) : f[i] = f[i - 1] \o q[i]
               /\ FlattenSeq(q) = f[Len(q)]
<1> DEFINE F == CHOOSE f : Flattens(f, q)
           n == Len(q)
           P == {i \in 1 .. n : F[i] \in Seq(S)}
<1>0. n \in Nat \ {0} /\ \A i \in 1 .. n : q[i] \in Seq(S)
  OBVIOUS
<1>1. Flattens(F, q)
  BY FlattensExists
<1>2. FlattenSeq(q) = F[n]
  BY <1>0 DEF FlattenSeq, Flattens
<1> HIDE DEF F
<1>3. \A i \in 1 .. n : F[i] = IF i = 1 THEN q[i] ELSE F[i - 1] \o q[i]
  <2> DEFINE G == [i \in 1 .. n |-> IF i = 1 THEN q[i] ELSE F[i - 1] \o q[i]]
  <2>1. F = G
    BY <1>1 DEF Flattens
  <2>2. \A i \in 1 .. n : G[i] = IF i = 1 THEN q[i] ELSE F[i - 1] \o q[i]
    OBVIOUS
  <2> HIDE DEF G
  <2> QED
    BY <2>1, <2>2
<1>4. DOMAIN F = 1 .. n /\ F = [i \in 1 .. n |-> F[i]]
  BY <1>1 DEF Flattens
<1> HIDE DEF n
<1>5. ASSUME NEW i \in 1 .. n, 1 .. i - 1 \subseteq P PROVE i \in P
  <2>1. CASE i = 1
    BY <1>0, <1>3, <2>1
  <2>2. CASE i # 1
    <3>1. i - 1 \in 1 .. i - 1
      BY <1>0, <2>2
    <3>2. F[i - 1] \in Seq(S)
      BY <1>5, <3>1
    <3>3. F[i] = F[i - 1] \o q[i] /\ q[i] \in Seq(S)
      BY <1>0, <1>3, <2>2
    <3>4. F[i - 1] \o q[i] \in Seq(S)
      BY <3>2, <3>3
    <3> QED
      BY <3>3, <3>4
  <2> QED
    BY <2>1, <2>2
<1>6. 1 .. n \subseteq P
  <2> HIDE DEF P
  <2> QED
    BY <1>0, <1>5, Upward
<1>7. F \in [1 .. n -> Seq(S)]
  BY <1>4, <1>6
<1>8. F[1] = q[1] /\ \A i \in 2 .. n : F[i] = F[i - 1] \o q[i]
  <2>1. 1 \in 1 .. n /\ \A i \in 2 .. n : i \in 1 .. n /\ i # 1
    BY <1>0
  <2> QED
    BY <1>3, <2>1
<1> QED
  BY <1>2, <1>7, <1>8 DEF n

LEMMA FlattenType ==
    ASSUME NEW S, NEW q \in Seq(Seq(S))
    PROVE  FlattenSeq(q) \in Seq(S)
<1>1. CASE q = <<>>
  <2>1. FlattenSeq(q) = <<>>
    BY <1>1 DEF FlattenSeq
  <2> QED
    BY <2>1
<1>2. CASE q # <<>>
  <2>1. PICK f \in [1 .. Len(q) -> Seq(S)] : FlattenSeq(q) = f[Len(q)]
    BY <1>2, FlattenIs
  <2>2. Len(q) \in 1 .. Len(q)
    BY <1>2
  <2> QED
    BY <2>1, <2>2
<1> QED
  BY <1>1, <1>2

LEMMA FlattenConcat ==
    ASSUME NEW S, NEW q \in Seq(Seq(S)), NEW r \in Seq(Seq(S))
    PROVE  FlattenSeq(q \o r) = FlattenSeq(q) \o FlattenSeq(r)
<1>1. CASE q = <<>>
  <2>1. FlattenSeq(q) = <<>> /\ q \o r = r
    BY <1>1 DEF FlattenSeq
  <2>2. FlattenSeq(r) \in Seq(S)
    BY FlattenType
  <2> QED
    BY <2>1, <2>2
<1>2. CASE r = <<>>
  <2>1. FlattenSeq(r) = <<>> /\ q \o r = q
    BY <1>2 DEF FlattenSeq
  <2>2. FlattenSeq(q) \in Seq(S)
    BY FlattenType
  <2> QED
    BY <2>1, <2>2
<1>3. CASE q # <<>> /\ r # <<>>
  <2> DEFINE s == q \o r
             n == Len(q)
             m == Len(r)
             whole == FlattenSeq(q)
  <2>1. /\ s \in Seq(Seq(S)) /\ s # <<>> /\ Len(s) = n + m /\ n \in Nat \ {0} /\ m \in Nat \ {0}
        /\ \A i \in 1 .. n : s[i] = q[i]
        /\ \A i \in 1 .. m : s[n + i] = r[i]
        /\ \A i \in 1 .. m : r[i] \in Seq(S)
    BY <1>3
  <2>2. PICK f \in [1 .. n -> Seq(S)] :
               /\ f[1] = q[1]
               /\ \A i \in 2 .. n : f[i] = f[i - 1] \o q[i]
               /\ whole = f[n]
    BY <1>3, FlattenIs
  <2>3. PICK g \in [1 .. m -> Seq(S)] :
               /\ g[1] = r[1]
               /\ \A i \in 2 .. m : g[i] = g[i - 1] \o r[i]
               /\ FlattenSeq(r) = g[m]
    BY <1>3, FlattenIs
  <2> HIDE DEF s, n, m, whole
  <2>4. PICK h \in [1 .. Len(s) -> Seq(S)] :
               /\ h[1] = s[1]
               /\ \A i \in 2 .. Len(s) : h[i] = h[i - 1] \o s[i]
               /\ FlattenSeq(s) = h[Len(s)]
    BY <2>1, FlattenIs
  <2> DEFINE P == {i \in 1 .. n : h[i] = f[i]}
             R == {i \in 1 .. m : h[n + i] = whole \o g[i]}
  <2>5. ASSUME NEW i \in 1 .. n, 1 .. i - 1 \subseteq P PROVE i \in P
    <3>1. CASE i = 1
      BY <2>1, <2>2, <2>4, <3>1
    <3>2. CASE i # 1
      <4>1. i \in 2 .. n /\ i \in 2 .. Len(s) /\ i - 1 \in 1 .. i - 1
        BY <2>1, <3>2
      <4>2. h[i - 1] = f[i - 1]
        BY <2>5, <4>1
      <4>3. h[i] = h[i - 1] \o s[i] /\ f[i] = f[i - 1] \o q[i] /\ s[i] = q[i]
        BY <2>1, <2>2, <2>4, <4>1
      <4> QED
        BY <4>2, <4>3
    <3> QED
      BY <3>1, <3>2
  <2>6. 1 .. n \subseteq P
    <3> HIDE DEF P
    <3> QED
      BY <2>1, <2>5, Upward
  <2>7. h[n] = whole /\ whole \in Seq(S)
    <3>1. n \in 1 .. n
      BY <2>1
    <3> QED
      BY <2>2, <2>6, <3>1
  <2>8. ASSUME NEW i \in 1 .. m, 1 .. i - 1 \subseteq R PROVE i \in R
    <3>0. h[n + i] = h[(n + i) - 1] \o s[n + i] /\ s[n + i] = r[i]
      <4>1. n + i \in 2 .. Len(s)
        BY <2>1
      <4> QED
        BY <2>1, <2>4, <4>1
    <3>1. CASE i = 1
      <4>1. (n + i) - 1 = n
        BY <2>1, <3>1
      <4> QED
        BY <2>3, <2>7, <3>0, <3>1, <4>1
    <3>2. CASE i # 1
      <4>1. i \in 2 .. m /\ i - 1 \in 1 .. i - 1 /\ (n + i) - 1 = n + (i - 1) /\ i - 1 \in 1 .. m
        BY <2>1, <3>2
      <4>2. h[(n + i) - 1] = whole \o g[i - 1]
        BY <2>8, <4>1
      <4>3. g[i] = g[i - 1] \o r[i] /\ g[i - 1] \in Seq(S) /\ r[i] \in Seq(S)
        BY <2>1, <2>3, <4>1
      <4>4. (whole \o g[i - 1]) \o r[i] = whole \o (g[i - 1] \o r[i])
        <5>1. whole \in Seq(S) /\ g[i - 1] \in Seq(S) /\ r[i] \in Seq(S)
          BY <2>7, <4>3
        <5>2. ASSUME NEW x \in Seq(S), NEW y \in Seq(S), NEW z \in Seq(S)
              PROVE  (x \o y) \o z = x \o (y \o z)
          OBVIOUS
        <5> QED
          BY <5>1, <5>2
      <4> QED
        BY <3>0, <4>2, <4>3, <4>4
    <3> QED
      BY <3>1, <3>2
  <2>9. 1 .. m \subseteq R
    <3> HIDE DEF R
    <3> QED
      BY <2>1, <2>8, Upward
  <2>10. m \in R
    <3>1. m \in 1 .. m
      BY <2>1
    <3> HIDE DEF R
    <3> QED
      BY <2>9, <3>1
  <2> QED
    BY <2>1, <2>3, <2>4, <2>10 DEF s, n, m, whole
<1> QED
  BY <1>1, <1>2, <1>3

LEMMA FlattenOne ==
    ASSUME NEW S, NEW x \in Seq(S)
    PROVE  FlattenSeq(<<x>>) = x
<1>1. <<x>> \in Seq(Seq(S)) /\ <<x>> # <<>> /\ Len(<<x>>) = 1 /\ <<x>>[1] = x
  OBVIOUS
<1>2. PICK f \in [1 .. Len(<<x>>) -> Seq(S)] :
          f[1] = <<x>>[1] /\ FlattenSeq(<<x>>) = f[Len(<<x>>)]
  BY <1>1, FlattenIs
<1> QED
  BY <1>1, <1>2

-----------------------------------------------------------------------------
(* FrameParser                                                              *)

Frame == [dlci : Byte, info : Seq(AnyByte)]
Results == [buffer : Seq(AnyByte), frames : Seq(Frame)]

LEMMA Product ==
    ASSUME NEW x \in Nat, NEW y \in Nat
    PROVE  x * y \in Nat
OBVIOUS

LEMMA FrameShape ==
    ASSUME NEW r \in Seq(AnyByte), r # <<>>, Complete(r)
    PROVE  /\ FrameStart(r) \in 2 .. Len(r) - 4
           /\ InfoStart(r) = FrameStart(r) + IF LongForm(r) THEN 4 ELSE 3
           /\ InfoLen(r) \in Nat
           /\ FrameEnd(r) = InfoStart(r) + InfoLen(r) + 1 /\ FrameEnd(r) \in 1 .. Len(r)
           /\ FrameOf(r) \in Frame
<1> DEFINE s == FrameStart(r)
           at(i) == Val(r[s + i])
           T == {i \in 2 .. Len(r) : ~IsFlag(r[i])} \union {Len(r) + 1}
<1>0. Len(r) \in Nat \ {0} /\ \A i \in 1 .. Len(r) : r[i] \in AnyByte
  OBVIOUS
<1>1. s \in 2 .. Len(r) + 1
  <2>1. T \in SUBSET (2 .. Len(r) + 1) /\ T \in SUBSET Nat /\ T # {}
    BY <1>0
  <2>2. s = Min(T)
    BY DEF FrameStart
  <2>3. Min(T) \in T
    <3> HIDE DEF T
    <3> QED
      BY <2>1, MinIs
  <2> HIDE DEF T, s
  <2> QED
    BY <2>1, <2>2, <2>3
<1>2. s <= Len(r) - 4 /\ (LongForm(r) => s <= Len(r) - 5)
  <2>1. Len(r) - s + 1 >= 5 /\ (LongForm(r) => Len(r) - s + 1 >= 6)
    BY DEF Complete
  <2> HIDE DEF s
  <2> QED
    BY <1>0, <1>1, <2>1
<1>3. InfoLen(r) = at(2) \div 2 + IF LongForm(r) THEN at(3) * LenBase ELSE 0
  BY DEF InfoLen
<1>4. InfoStart(r) = s + IF LongForm(r) THEN 4 ELSE 3
  BY DEF InfoStart
<1>5. Len(r) - InfoStart(r) + 1 >= InfoLen(r) + 2
  BY DEF Complete
<1>6. FrameEnd(r) = InfoStart(r) + InfoLen(r) + 1
  BY DEF FrameEnd
<1>7. FrameOf(r) = [dlci |-> Val(r[s]) \div 4, info |-> SubSeq(r, InfoStart(r), FrameEnd(r) - 2)]
  BY DEF FrameOf
<1> HIDE DEF s, T
<1>8. InfoLen(r) \in Nat
  <2>1. at(2) \in Nat
    <3>1. s + 2 \in 1 .. Len(r)
      BY <1>0, <1>1, <1>2
    <3> QED
      BY <1>0, <3>1, ByteIs
  <2>2. ASSUME LongForm(r) PROVE at(3) * LenBase \in Nat
    <3>1. s + 3 \in 1 .. Len(r)
      BY <1>0, <1>1, <1>2, <2>2
    <3>2. at(3) \in Nat /\ LenBase \in Nat
      BY <1>0, <3>1, ByteIs, FramesAssumption
    <3> HIDE DEF at
    <3> QED
      BY <3>2, Product
  <2>3. at(2) \div 2 \in Nat
    <3> HIDE DEF at
    <3> QED
      BY <2>1
  <2> HIDE DEF at
  <2> QED
    BY <1>3, <2>2, <2>3
<1>9. FrameEnd(r) \in 1 .. Len(r) /\ InfoStart(r) \in 5 .. Len(r)
  BY <1>0, <1>1, <1>2, <1>4, <1>5, <1>6, <1>8
<1>10. FrameOf(r) \in Frame
  <2>1. Val(r[s]) \div 4 \in Byte
    <3>1. Val(r[s]) \in Byte
      <4>1. s \in 1 .. Len(r)
        BY <1>0, <1>1, <1>2
      <4> QED
        BY <1>0, <4>1, ByteIs
    <3> QED
      BY <3>1, FramesAssumption DEF Byte
  <2>2. SubSeq(r, InfoStart(r), FrameEnd(r) - 2) \in Seq(AnyByte)
    BY <1>0, <1>9
  <2> QED
    BY <1>7, <2>1, <2>2 DEF Frame
<1> QED
  BY <1>0, <1>1, <1>2, <1>4, <1>6, <1>8, <1>9, <1>10 DEF s

FlagsFrom(buf, i) == {k \in i .. Len(buf) : IsFlag(buf[k])}
RestFrom(buf, i) == SubSeq(buf, Min(FlagsFrom(buf, i)), Len(buf))
NextFrom(buf, i) == Min(FlagsFrom(buf, i)) + FrameEnd(RestFrom(buf, i))
FrameAt(buf, i) == FlagsFrom(buf, i) # {} /\ Complete(RestFrom(buf, i))

(* Where the parser looks next; f is what it makes of the rest.             *)
ParseFrom(buf, f, i) ==
    IF FlagsFrom(buf, i) = {} THEN [buffer |-> SubSeq(buf, i, Len(buf)), frames |-> <<>>]
    ELSE IF ~Complete(RestFrom(buf, i)) THEN [buffer |-> RestFrom(buf, i), frames |-> <<>>]
    ELSE IF ~Sound(RestFrom(buf, i)) THEN f[NextFrom(buf, i)]
    ELSE [buffer |-> f[NextFrom(buf, i)].buffer,
          frames |-> <<FrameOf(RestFrom(buf, i))>> \o f[NextFrom(buf, i)].frames]

Parses(f, buf) == f = [i \in 1 .. Len(buf) + 1 |-> ParseFrom(buf, f, i)]

LEMMA RestIs ==
    ASSUME NEW buf \in Seq(AnyByte), NEW i \in 1 .. Len(buf) + 1, FlagsFrom(buf, i) # {}
    PROVE  /\ Min(FlagsFrom(buf, i)) \in i .. Len(buf)
           /\ IsFlag(buf[Min(FlagsFrom(buf, i))])
           /\ RestFrom(buf, i) \in Seq(AnyByte) /\ RestFrom(buf, i) # <<>>
           /\ Len(RestFrom(buf, i)) = Len(buf) - Min(FlagsFrom(buf, i)) + 1
           /\ Complete(RestFrom(buf, i)) =>
                  /\ NextFrom(buf, i) \in i + 1 .. Len(buf) + 1
                  /\ NextFrom(buf, i) \in Min(FlagsFrom(buf, i)) .. Len(buf) + 1
<1> DEFINE T == FlagsFrom(buf, i)
           a == Min(T)
           r == RestFrom(buf, i)
<1>0. Len(buf) \in Nat
  OBVIOUS
<1>1. T \in SUBSET (i .. Len(buf)) /\ T \in SUBSET Nat /\ T # {}
  BY <1>0 DEF FlagsFrom
<1>2. a \in T
  <2> HIDE DEF T
  <2> QED
    BY <1>1, MinIs
<1>3. a \in i .. Len(buf) /\ IsFlag(buf[a])
  BY <1>1, <1>2 DEF FlagsFrom
<1>4. r = SubSeq(buf, a, Len(buf))
  BY DEF RestFrom
<1>5. NextFrom(buf, i) = a + FrameEnd(r)
  BY DEF NextFrom
<1> HIDE DEF a, r, T
<1>6. r \in Seq(AnyByte) /\ r # <<>> /\ Len(r) = Len(buf) - a + 1
  <2>1. a \in 1 .. Len(buf) /\ Len(buf) - a + 1 > 0
    BY <1>0, <1>3
  <2>2. r \in Seq(AnyByte) /\ Len(r) = Len(buf) - a + 1
    BY <1>0, <1>4, <2>1
  <2> QED
    BY <2>1, <2>2
<1>7. ASSUME Complete(r) PROVE NextFrom(buf, i) \in a + 1 .. Len(buf) + 1
  <2>1. FrameEnd(r) \in 1 .. Len(r)
    BY <1>6, <1>7, FrameShape
  <2> QED
    BY <1>0, <1>3, <1>5, <1>6, <2>1
<1>8. Complete(r) => /\ NextFrom(buf, i) \in i + 1 .. Len(buf) + 1
                     /\ NextFrom(buf, i) \in a .. Len(buf) + 1
  BY <1>0, <1>3, <1>7
<1> QED
  BY <1>3, <1>6, <1>8 DEF a, r, T

LEMMA ParsesExists ==
    ASSUME NEW buf \in Seq(AnyByte)
    PROVE  \E f : Parses(f, buf)
<1> DEFINE n == Len(buf) + 1
           go == {i \in 1 .. n : FrameAt(buf, i)}
           next == [i \in 1 .. n |-> IF i \in go THEN NextFrom(buf, i) ELSE 0]
           base == [i \in 1 .. n |->
                       IF FlagsFrom(buf, i) = {} THEN [buffer |-> SubSeq(buf, i, Len(buf)), frames |-> <<>>]
                       ELSE [buffer |-> RestFrom(buf, i), frames |-> <<>>]]
           with(i, x) == IF i \in go /\ Sound(RestFrom(buf, i))
                         THEN [buffer |-> x.buffer, frames |-> <<FrameOf(RestFrom(buf, i))>> \o x.frames]
                         ELSE x
           step == [y \in (1 .. n) \X Results |-> with(y[1], y[2])]
<1>0. n \in Nat /\ Len(buf) \in Nat
  OBVIOUS
<1>1. ASSUME NEW i \in go
      PROVE  /\ NextFrom(buf, i) \in i + 1 .. n
             /\ FrameOf(RestFrom(buf, i)) \in Frame
  <2>1. FlagsFrom(buf, i) # {} /\ Complete(RestFrom(buf, i)) /\ i \in 1 .. Len(buf) + 1
    BY DEF FrameAt
  <2>2. RestFrom(buf, i) \in Seq(AnyByte) /\ RestFrom(buf, i) # <<>> /\ NextFrom(buf, i) \in i + 1 .. Len(buf) + 1
    BY <2>1, RestIs
  <2>3. FrameOf(RestFrom(buf, i)) \in Frame
    BY <2>1, <2>2, FrameShape
  <2> QED
    BY <2>2, <2>3
<1> HIDE DEF go
<1>2. next \in [1 .. n -> Int] /\ \A i \in 1 .. n : i \in go => next[i] = NextFrom(buf, i)
  BY <1>0, <1>1
<1>3. ASSUME NEW i \in 1 .. n, FlagsFrom(buf, i) # {}
      PROVE  [buffer |-> RestFrom(buf, i), frames |-> <<>>] \in Results
  <2>1. RestFrom(buf, i) \in Seq(AnyByte)
    BY <1>3, RestIs
  <2>2. <<>> \in Seq(Frame)
    OBVIOUS
  <2> QED
    BY <2>1, <2>2 DEF Results
<1>4. ASSUME NEW i \in 1 .. n
      PROVE  [buffer |-> SubSeq(buf, i, Len(buf)), frames |-> <<>>] \in Results
  <2>1. SubSeq(buf, i, Len(buf)) \in Seq(AnyByte) /\ <<>> \in Seq(Frame)
    BY <1>0
  <2> QED
    BY <2>1 DEF Results
<1>5. base \in [1 .. n -> Results]
  BY <1>3, <1>4
<1>6. ASSUME NEW i \in 1 .. n, NEW x \in Results PROVE with(i, x) \in Results
  <2>1. CASE i \in go /\ Sound(RestFrom(buf, i))
    <3>1. FrameOf(RestFrom(buf, i)) \in Frame /\ x.frames \in Seq(Frame) /\ x.buffer \in Seq(AnyByte)
      BY <1>1, <2>1 DEF Results
    <3>2. <<FrameOf(RestFrom(buf, i))>> \o x.frames \in Seq(Frame)
      BY <3>1
    <3> QED
      BY <2>1, <3>1, <3>2 DEF Results
  <2>2. CASE ~(i \in go /\ Sound(RestFrom(buf, i)))
    BY <2>2
  <2> QED
    BY <2>1, <2>2
<1>7. /\ step \in [(1 .. n) \X Results -> Results]
      /\ \A i \in 1 .. n : \A x \in Results : step[<<i, x>>] = with(i, x)
  <2>1. \A i \in 1 .. n : \A x \in Results : <<i, x>> \in (1 .. n) \X Results
    OBVIOUS
  <2>2. \A y \in (1 .. n) \X Results : with(y[1], y[2]) \in Results
    <3> HIDE DEF with
    <3> QED
      BY <1>6
  <2> HIDE DEF with
  <2> QED
    BY <2>1, <2>2
<1>8. \A i \in 1 .. n : base[i] =
          IF FlagsFrom(buf, i) = {} THEN [buffer |-> SubSeq(buf, i, Len(buf)), frames |-> <<>>]
          ELSE [buffer |-> RestFrom(buf, i), frames |-> <<>>]
  OBVIOUS
<1> HIDE DEF n, next, base, step, with
<1>9. PICK f \in [1 .. n -> Results] : \A i \in 1 .. n :
          f[i] = IF i \in go THEN step[<<i, f[next[i]]>>] ELSE base[i]
  <2>1. Descends(n, Results, go, next, base, step)
    BY <1>0, <1>1, <1>2, <1>5, <1>7 DEF Descends
  <2> QED
    BY <2>1, RecursionDown DEF Solves
<1>10. ASSUME NEW i \in 1 .. n PROVE f[i] = ParseFrom(buf, f, i)
  <2>1. CASE i \in go
    <3>1. next[i] = NextFrom(buf, i) /\ NextFrom(buf, i) \in 1 .. n
      BY <1>0, <1>1, <1>2, <2>1
    <3>2. f[NextFrom(buf, i)] \in Results
      BY <3>1
    <3>3. f[i] = with(i, f[NextFrom(buf, i)])
      BY <1>7, <1>9, <2>1, <3>1, <3>2
    <3>4. FlagsFrom(buf, i) # {} /\ Complete(RestFrom(buf, i))
      BY <2>1 DEF go, FrameAt
    <3> QED
      BY <2>1, <3>3, <3>4 DEF ParseFrom, with
  <2>2. CASE i \notin go
    <3>1. f[i] = base[i]
      BY <1>9, <2>2
    <3>2. ~(FlagsFrom(buf, i) # {} /\ Complete(RestFrom(buf, i)))
      BY <2>2 DEF go, FrameAt
    <3> QED
      BY <1>8, <3>1, <3>2 DEF ParseFrom
  <2> QED
    BY <2>1, <2>2
<1>11. f = [i \in 1 .. n |-> f[i]]
  OBVIOUS
<1>12. Parses(f, buf)
  BY <1>10, <1>11 DEF Parses, n
<1> QED
  BY <1>12

LEMMA ParseIs ==
    ASSUME NEW buf \in Seq(AnyByte)
    PROVE  \E f : /\ \A i \in 1 .. Len(buf) + 1 : f[i] = ParseFrom(buf, f, i)
                  /\ Parse(buf) = f[1]
<1> DEFINE F == CHOOSE f : Parses(f, buf)
           G == [i \in 1 .. Len(buf) + 1 |-> ParseFrom(buf, F, i)]
<1>1. Parses(F, buf)
  BY ParsesExists
<1>2. Parse(buf) = F[1]
  BY DEF Parse, Parses, ParseFrom, RestFrom, NextFrom, FlagsFrom
<1> HIDE DEF F
<1>3. F = G
  BY <1>1 DEF Parses
<1>4. \A i \in 1 .. Len(buf) + 1 : G[i] = ParseFrom(buf, F, i)
  OBVIOUS
<1> HIDE DEF G
<1> QED
  BY <1>2, <1>3, <1>4

(* The checksum of a frame that is accepted names its channel and length.   *)
HeadOf(f) == [dlci |-> f.dlci, len |-> Len(f.info)]

LEMMA SoundHead ==
    ASSUME NEW r \in Seq(AnyByte), r # <<>>, Complete(r), Sound(r)
    PROVE  /\ FrameEnd(r) - 1 \in 1 .. Len(r)
           /\ MarkOf("head", r[FrameEnd(r) - 1]) = {HeadOf(FrameOf(r))}
<1> DEFINE s == FrameStart(r)
           b == r[FrameEnd(r) - 1]
           h == SubSeq(r, s, InfoStart(r) - 1)
           d == IF LongForm(r) THEN 4 ELSE 3
           n == InfoLen(r)
<1>0. Len(r) \in Nat
  OBVIOUS
<1>1. /\ s \in 2 .. Len(r) - 4 /\ InfoStart(r) = s + d /\ n \in Nat
      /\ FrameEnd(r) = InfoStart(r) + n + 1 /\ FrameEnd(r) \in 1 .. Len(r)
      /\ FrameOf(r) \in Frame
  BY FrameShape
<1>2. Len(b) = 2 /\ b[2] = h
  BY DEF Sound, Fits
<1>3. n = Val(r[s + 2]) \div 2 + IF LongForm(r) THEN Val(r[s + 3]) * LenBase ELSE 0
  BY DEF InfoLen
<1>4. FrameOf(r) = [dlci |-> Val(r[s]) \div 4, info |-> SubSeq(r, InfoStart(r), FrameEnd(r) - 2)]
  BY DEF FrameOf
<1>5. d \in {3, 4} /\ (d = 4 <=> LongForm(r))
  OBVIOUS
<1> HIDE DEF s, b, d, n
<1>6. s + d \in 1 .. Len(r) /\ FrameEnd(r) - 2 = s + d + n - 1 /\ FrameEnd(r) - 2 \in 1 .. Len(r)
  BY <1>0, <1>1, <1>5
<1>7. Len(h) = d /\ h[1] = r[s] /\ h[3] = r[s + 2] /\ (d = 4 => h[4] = r[s + 3])
  BY <1>0, <1>1, <1>5, <1>6
<1>8. Len(FrameOf(r).info) = n
  BY <1>0, <1>1, <1>4, <1>6, SMTT(20)
<1> HIDE DEF h
<1>9. HeaderIn(h) = HeadOf(FrameOf(r))
  <2>1. HeaderIn(h).len = n
    BY <1>3, <1>5, <1>7 DEF HeaderIn
  <2>2. HeaderIn(h).dlci = FrameOf(r).dlci
    BY <1>4, <1>7 DEF HeaderIn
  <2>3. HeaderIn(h) = [dlci |-> HeaderIn(h).dlci, len |-> HeaderIn(h).len]
    BY DEF HeaderIn
  <2> QED
    BY <1>8, <2>1, <2>2, <2>3 DEF HeadOf
<1>10. HeadOf(FrameOf(r)) \in Label
  <2>0. Byte \subseteq Int
    BY ByteIs
  <2>1. \A f \in Frame : f.dlci \in Int
    BY <2>0 DEF Frame
  <2> QED
    BY <1>1, <1>8, <2>1 DEF HeadOf, Label
<1>11. HeadMark(b) = {HeadOf(FrameOf(r))}
  BY <1>2, <1>5, <1>7, <1>9, <1>10 DEF HeadMark
<1>12. FrameEnd(r) - 1 \in 1 .. Len(r)
  BY <1>0, <1>1, <1>5
<1> QED
  BY <1>11, <1>12 DEF MarkOf, b

HeadsOf(frames) == [i \in DOMAIN frames |-> {HeadOf(frames[i])}]
InfosOf(frames) == [i \in DOMAIN frames |-> frames[i].info]

LEMMA HeadsType ==
    ASSUME NEW q \in Seq(Frame)
    PROVE  HeadsOf(q) \in Seq(Mark) /\ InfosOf(q) \in Seq(Seq(AnyByte))
<1>1. \A f \in Frame : {HeadOf(f)} \in Mark /\ f.info \in Seq(AnyByte)
  <2>0. Byte \subseteq Int
    BY ByteIs
  <2>1. \A f \in Frame : f.dlci \in Int /\ f.info \in Seq(AnyByte)
    BY <2>0 DEF Frame
  <2>2. \A f \in Frame : Len(f.info) \in Int
    BY <2>1
  <2> QED
    BY <2>1, <2>2 DEF HeadOf, Label, Mark
<1>2. DOMAIN q = 1 .. Len(q) /\ Len(q) \in Nat /\ \A i \in 1 .. Len(q) : q[i] \in Frame
  OBVIOUS
<1>3. \A i \in 1 .. Len(q) : {HeadOf(q[i])} \in Mark /\ q[i].info \in Seq(AnyByte)
  BY <1>1, <1>2
<1>4. HeadsOf(q) = [i \in 1 .. Len(q) |-> {HeadOf(q[i])}]
  BY <1>2 DEF HeadsOf
<1>5. InfosOf(q) = [i \in 1 .. Len(q) |-> q[i].info]
  BY <1>2 DEF InfosOf
<1>6. HeadsOf(q) \in Seq(Mark)
  BY <1>2, <1>3, <1>4
<1>7. InfosOf(q) \in Seq(Seq(AnyByte))
  <2> DEFINE T == Seq(AnyByte)
  <2>1. \A i \in 1 .. Len(q) : q[i].info \in T
    BY <1>3
  <2> HIDE DEF T
  <2>2. InfosOf(q) \in Seq(T)
    BY <1>2, <1>5, <2>1
  <2> QED
    BY <2>2 DEF T
<1> QED
  BY <1>6, <1>7

LEMMA ConcatIs ==
    ASSUME NEW S, NEW x \in Seq(S), NEW y \in Seq(S), NEW z \in Seq(S),
           Len(z) = Len(x) + Len(y),
           \A i \in 1 .. Len(x) : z[i] = x[i],
           \A i \in 1 .. Len(y) : z[Len(x) + i] = y[i]
    PROVE  z = x \o y
<1> DEFINE w == x \o y
<1>1. /\ w \in Seq(S) /\ Len(w) = Len(x) + Len(y) /\ Len(x) \in Nat /\ Len(y) \in Nat
      /\ \A i \in 1 .. Len(x) : w[i] = x[i]
      /\ \A i \in 1 .. Len(y) : w[Len(x) + i] = y[i]
  OBVIOUS
<1> HIDE DEF w
<1>2. ASSUME NEW i \in 1 .. Len(z) PROVE z[i] = w[i]
  <2>1. CASE i \in 1 .. Len(x)
    BY <1>1, <2>1
  <2>2. CASE i \notin 1 .. Len(x)
    <3>1. i - Len(x) \in 1 .. Len(y) /\ i = Len(x) + (i - Len(x))
      BY <1>1, <2>2
    <3> QED
      BY <1>1, <3>1
  <2> QED
    BY <2>1, <2>2
<1>3. z = w
  BY <1>1, <1>2, SeqEqual
<1> QED
  BY <1>3 DEF w

LEMMA HeadsConcat ==
    ASSUME NEW q \in Seq(Frame), NEW r \in Seq(Frame)
    PROVE  /\ HeadsOf(q \o r) = HeadsOf(q) \o HeadsOf(r)
           /\ InfosOf(q \o r) = InfosOf(q) \o InfosOf(r)
<1> DEFINE qr == q \o r
           n == Len(q)
           m == Len(r)
<1>1. /\ n \in Nat /\ m \in Nat /\ qr \in Seq(Frame) /\ Len(qr) = n + m
      /\ DOMAIN qr = 1 .. n + m /\ DOMAIN q = 1 .. n /\ DOMAIN r = 1 .. m
      /\ \A i \in 1 .. n : qr[i] = q[i] /\ i \in 1 .. n + m
      /\ \A i \in 1 .. m : qr[n + i] = r[i] /\ n + i \in 1 .. n + m
  OBVIOUS
<1>2. /\ HeadsOf(q) \in Seq(Mark) /\ HeadsOf(r) \in Seq(Mark) /\ HeadsOf(qr) \in Seq(Mark)
      /\ InfosOf(q) \in Seq(Seq(AnyByte)) /\ InfosOf(r) \in Seq(Seq(AnyByte))
      /\ InfosOf(qr) \in Seq(Seq(AnyByte))
  BY <1>1, HeadsType
<1> HIDE DEF qr, n, m
<1>3. /\ Len(HeadsOf(q)) = n /\ \A i \in 1 .. n : HeadsOf(q)[i] = {HeadOf(q[i])}
      /\ Len(InfosOf(q)) = n /\ \A i \in 1 .. n : InfosOf(q)[i] = q[i].info
  BY <1>1, <1>2 DEF HeadsOf, InfosOf
<1>4. /\ Len(HeadsOf(r)) = m /\ \A i \in 1 .. m : HeadsOf(r)[i] = {HeadOf(r[i])}
      /\ Len(InfosOf(r)) = m /\ \A i \in 1 .. m : InfosOf(r)[i] = r[i].info
  BY <1>1, <1>2 DEF HeadsOf, InfosOf
<1>5. /\ Len(HeadsOf(qr)) = n + m /\ \A i \in 1 .. n + m : HeadsOf(qr)[i] = {HeadOf(qr[i])}
      /\ Len(InfosOf(qr)) = n + m /\ \A i \in 1 .. n + m : InfosOf(qr)[i] = qr[i].info
  BY <1>1, <1>2 DEF HeadsOf, InfosOf
<1>6. HeadsOf(qr) = HeadsOf(q) \o HeadsOf(r)
  <2> DEFINE x == HeadsOf(q)
             y == HeadsOf(r)
             z == HeadsOf(qr)
  <2>1. x \in Seq(Mark) /\ y \in Seq(Mark) /\ z \in Seq(Mark) /\ Len(x) = n /\ Len(y) = m /\ Len(z) = n + m
    BY <1>2, <1>3, <1>4, <1>5
  <2>2. \A i \in 1 .. n : z[i] = x[i]
    BY <1>1, <1>3, <1>5
  <2>4. \A i \in 1 .. m : z[n + i] = y[i]
    BY <1>1, <1>4, <1>5
  <2> HIDE DEF x, y, z
  <2>3. z = x \o y
    BY <2>1, <2>2, <2>4, ConcatIs
  <2> QED
    BY <2>3 DEF x, y, z
<1>7. InfosOf(qr) = InfosOf(q) \o InfosOf(r)
  <2> DEFINE x == InfosOf(q)
             y == InfosOf(r)
             z == InfosOf(qr)
             T == Seq(AnyByte)
  <2>1. x \in Seq(T) /\ y \in Seq(T) /\ z \in Seq(T) /\ Len(x) = n /\ Len(y) = m /\ Len(z) = n + m
    BY <1>2, <1>3, <1>4, <1>5
  <2>2. \A i \in 1 .. n : z[i] = x[i]
    BY <1>1, <1>3, <1>5
  <2>4. \A i \in 1 .. m : z[n + i] = y[i]
    BY <1>1, <1>4, <1>5
  <2> HIDE DEF x, y, z, T
  <2>3. z = x \o y
    BY <2>1, <2>2, <2>4, ConcatIs
  <2> QED
    BY <2>3 DEF x, y, z
<1> QED
  BY <1>6, <1>7 DEF qr

LEMMA HeadsOne ==
    ASSUME NEW f \in Frame
    PROVE  HeadsOf(<<f>>) = <<{HeadOf(f)}>> /\ InfosOf(<<f>>) = <<f.info>>
BY DEF HeadsOf, InfosOf

LEMMA HeadsNone ==
    HeadsOf(<<>>) = <<>> /\ InfosOf(<<>>) = <<>> /\ FlattenSeq(<<>>) = <<>>
BY DEF HeadsOf, InfosOf, FlattenSeq

LEMMA Tails ==
    ASSUME NEW B, NEW s \in Seq(B), NEW i \in 1 .. Len(s) + 1, NEW a \in i .. Len(s) + 1
    PROVE  /\ SubSeq(s, a, Len(s)) \in Seq(B) /\ SubSeq(s, i, a - 1) \in Seq(B)
           /\ SubSeq(s, i, Len(s)) = SubSeq(s, i, a - 1) \o SubSeq(s, a, Len(s))
           /\ SubSeq(s, i, Len(s)) \in Seq(B)
<1>1. a - 1 \in i - 1 .. Len(s) /\ Len(s) \in a - 1 .. Len(s) /\ (a - 1) + 1 = a
  OBVIOUS
<1>2. SubSeq(s, i, a - 1) \o SubSeq(s, (a - 1) + 1, Len(s)) = SubSeq(s, i, Len(s))
  BY <1>1, ConcatAdjacentSubSeq
<1>3. /\ SubSeq(s, a, Len(s)) \in Seq(B) /\ SubSeq(s, i, a - 1) \in Seq(B)
      /\ SubSeq(s, i, Len(s)) \in Seq(B)
  OBVIOUS
<1> QED
  BY <1>1, <1>2, <1>3

(* What is dropped in front takes marks away and adds none.                 *)
LEMMA MarksTail ==
    ASSUME NEW k, NEW B, NEW s \in Seq(B), NEW i \in 1 .. Len(s) + 1, NEW a \in i .. Len(s) + 1
    PROVE  Within(MarksOf(k, SubSeq(s, a, Len(s))), MarksOf(k, SubSeq(s, i, Len(s))))
<1> DEFINE l == SubSeq(s, i, a - 1)
           t == SubSeq(s, a, Len(s))
           none == <<>>
<1>1. l \in Seq(B) /\ t \in Seq(B) /\ SubSeq(s, i, Len(s)) = l \o t
  BY Tails
<1> HIDE DEF l, t
<1>2. MarksOf(k, l \o t) = MarksOf(k, l) \o MarksOf(k, t)
  BY <1>1, MarksConcat
<1>3. MarksOf(k, l) \in Seq(Mark) /\ MarksOf(k, t) \in Seq(Mark)
  BY <1>1, MarksType
<1>4. none \in Seq(Mark) /\ Len(none) = 0
  OBVIOUS
<1>5. none \o MarksOf(k, t) = MarksOf(k, t)
  BY <1>3
<1>6. Within(none, MarksOf(k, l))
  BY WithinNone
<1> HIDE DEF none
<1>7. Within(MarksOf(k, t), MarksOf(k, t))
  BY <1>3, WithinSelf
<1>8. Within(none \o MarksOf(k, t), MarksOf(k, l) \o MarksOf(k, t))
  BY <1>3, <1>4, <1>6, <1>7, WithinConcat
<1> QED
  BY <1>1, <1>2, <1>5, <1>8 DEF t

(* res is made of s: the frames name headers whose checksums s holds, in    *)
(* that order and before those still in the buffer; and what the frames     *)
(* carry holds PPP checksums of s, in that order.                           *)
MadeOf(res, s) ==
    /\ res \in Results
    /\ Within(HeadsOf(res.frames) \o MarksOf("head", res.buffer), MarksOf("head", s))
    /\ Within(MarksOf("packet", FlattenSeq(InfosOf(res.frames)) \o res.buffer), MarksOf("packet", s))

LEMMA MadeOfRest ==
    ASSUME NEW buf \in Seq(AnyByte), NEW i \in 1 .. Len(buf) + 1, NEW a \in i .. Len(buf) + 1
    PROVE  MadeOf([buffer |-> SubSeq(buf, a, Len(buf)), frames |-> <<>>], SubSeq(buf, i, Len(buf)))
<1> DEFINE t == SubSeq(buf, a, Len(buf))
           s == SubSeq(buf, i, Len(buf))
           res == [buffer |-> t, frames |-> <<>>]
<1>1. t \in Seq(AnyByte) /\ s \in Seq(AnyByte)
  BY Tails
<1>2. Within(MarksOf("head", t), MarksOf("head", s)) /\ Within(MarksOf("packet", t), MarksOf("packet", s))
  BY MarksTail
<1> HIDE DEF t, s
<1>3. res \in Results /\ res.frames = <<>> /\ res.buffer = t
  <2>1. <<>> \in Seq(Frame)
    OBVIOUS
  <2> QED
    BY <1>1, <2>1 DEF Results
<1> HIDE DEF res
<1>4. <<>> \o t = t
  BY <1>1
<1>5. <<>> \o MarksOf("head", t) = MarksOf("head", t)
  <2>1. MarksOf("head", t) \in Seq(Mark)
    BY <1>1, MarksType
  <2> QED
    BY <2>1
<1>6. MadeOf(res, s)
  BY <1>2, <1>3, <1>4, <1>5, HeadsNone DEF MadeOf
<1> QED
  BY <1>6 DEF res, s, t

LEMMA MadeOfLess ==
    ASSUME NEW buf \in Seq(AnyByte), NEW i \in 1 .. Len(buf) + 1, NEW a \in i .. Len(buf) + 1,
           NEW res, MadeOf(res, SubSeq(buf, a, Len(buf)))
    PROVE  MadeOf(res, SubSeq(buf, i, Len(buf)))
<1> DEFINE t == SubSeq(buf, a, Len(buf))
           s == SubSeq(buf, i, Len(buf))
           x == HeadsOf(res.frames) \o MarksOf("head", res.buffer)
           l == FlattenSeq(InfosOf(res.frames)) \o res.buffer
           y == MarksOf("packet", l)
<1>1. t \in Seq(AnyByte) /\ s \in Seq(AnyByte)
  BY Tails
<1>2. Within(MarksOf("head", t), MarksOf("head", s)) /\ Within(MarksOf("packet", t), MarksOf("packet", s))
  BY MarksTail
<1>3. res \in Results /\ Within(x, MarksOf("head", t)) /\ Within(y, MarksOf("packet", t))
  BY DEF MadeOf
<1> HIDE DEF t, s
<1>4. x \in Seq(Mark) /\ y \in Seq(Mark)
  <2>1. res.frames \in Seq(Frame) /\ res.buffer \in Seq(AnyByte)
    BY <1>3 DEF Results
  <2>2. HeadsOf(res.frames) \in Seq(Mark) /\ InfosOf(res.frames) \in Seq(Seq(AnyByte))
    BY <2>1, HeadsType
  <2>3. FlattenSeq(InfosOf(res.frames)) \in Seq(AnyByte)
    BY <2>2, FlattenType
  <2>4. MarksOf("head", res.buffer) \in Seq(Mark)
    BY <2>1, MarksType
  <2>5. l \in Seq(AnyByte)
    BY <2>1, <2>3
  <2> HIDE DEF l
  <2>6. y \in Seq(Mark)
    BY <2>5, MarksType
  <2> QED
    BY <2>2, <2>4, <2>6
<1>5. /\ MarksOf("head", t) \in Seq(Mark) /\ MarksOf("packet", t) \in Seq(Mark)
      /\ MarksOf("head", s) \in Seq(Mark) /\ MarksOf("packet", s) \in Seq(Mark)
  BY <1>1, MarksType
<1> HIDE DEF x, y
<1>6. Within(x, MarksOf("head", s)) /\ Within(y, MarksOf("packet", s))
  BY <1>2, <1>3, <1>4, <1>5, WithinTrans
<1> QED
  BY <1>3, <1>6 DEF MadeOf, x, y, s, l

(* One frame that is accepted, in front.                                    *)
LEMMA MadeOfMore ==
    ASSUME NEW buf \in Seq(AnyByte), NEW i \in 1 .. Len(buf) + 1, FrameAt(buf, i),
           Sound(RestFrom(buf, i)), NEW res,
           MadeOf(res, SubSeq(buf, NextFrom(buf, i), Len(buf)))
    PROVE  MadeOf([buffer |-> res.buffer,
                   frames |-> <<FrameOf(RestFrom(buf, i))>> \o res.frames], SubSeq(buf, i, Len(buf)))
<1> DEFINE a == Min(FlagsFrom(buf, i))
           r == RestFrom(buf, i)
           e == NextFrom(buf, i)
           f == FrameOf(r)
           l == SubSeq(buf, i, e - 1)
           t == SubSeq(buf, e, Len(buf))
           n == FrameEnd(r)
           b == res.buffer
           fs == res.frames
           infos == FlattenSeq(InfosOf(fs))
           is == InfoStart(r)
<1>0. Len(buf) \in Nat
  OBVIOUS
<1>1. /\ a \in i .. Len(buf) /\ r \in Seq(AnyByte) /\ r # <<>> /\ Complete(r)
      /\ Len(r) = Len(buf) - a + 1 /\ e \in i + 1 .. Len(buf) + 1 /\ e \in a .. Len(buf) + 1
  BY RestIs DEF FrameAt
<1>2. r = SubSeq(buf, a, Len(buf)) /\ e = a + n
  BY DEF RestFrom, NextFrom
<1>3. /\ n - 1 \in 1 .. Len(r) /\ MarkOf("head", r[n - 1]) = {HeadOf(f)}
      /\ Sound(r)
  BY <1>1, SoundHead
<1>4. /\ f \in Frame /\ n \in 1 .. Len(r) /\ InfoLen(r) \in Nat
      /\ InfoStart(r) = FrameStart(r) + IF LongForm(r) THEN 4 ELSE 3
      /\ FrameStart(r) \in 2 .. Len(r) - 4 /\ n = InfoStart(r) + InfoLen(r) + 1
  BY <1>1, FrameShape
<1>5. /\ a \in Nat /\ n \in Nat /\ is \in Nat /\ e \in Nat /\ Len(r) \in Nat /\ i \in Nat
      /\ 1 <= i /\ i <= a /\ a <= Len(buf) /\ e = a + n /\ e <= Len(buf) + 1
      /\ 5 <= is /\ is <= n - 1 /\ n <= Len(r) /\ Len(r) = Len(buf) - a + 1
  <2> DEFINE st == FrameStart(r)
             long == LongForm(r)
             len == InfoLen(r)
  <2>1. is = st + IF long THEN 4 ELSE 3
    BY <1>4
  <2>2. st \in 2 .. Len(r) - 4 /\ len \in Nat /\ n = is + len + 1 /\ n \in 1 .. Len(r)
    BY <1>4
  <2>3. Len(r) \in Nat
    BY <1>1
  <2> HIDE DEF a, n, e, is, r, st, long, len
  <2>4. is \in 5 .. n - 1
    <3>1. CASE long
      BY <2>1, <2>2, <2>3, <3>1
    <3>2. CASE ~long
      BY <2>1, <2>2, <2>3, <3>2
    <3> QED
      BY <3>1, <3>2
  <2>5. /\ i \in Nat /\ 1 <= i /\ a \in Nat /\ i <= a /\ a <= Len(buf)
        /\ e \in Nat /\ e <= Len(buf) + 1 /\ Len(r) = Len(buf) - a + 1
    BY <1>0, <1>1
  <2>6. n \in Nat /\ n <= Len(r) /\ is \in Nat /\ 5 <= is /\ is <= n - 1
    BY <2>2, <2>3, <2>4
  <2> QED
    BY <1>2, <2>3, <2>5, <2>6
<1>6. f.info = SubSeq(r, is, n - 2)
  BY DEF FrameOf
<1>7. /\ l \in Seq(AnyByte) /\ t \in Seq(AnyByte) /\ SubSeq(buf, i, Len(buf)) = l \o t
  <2>1. e \in i .. Len(buf) + 1
    BY <1>1
  <2> HIDE DEF e
  <2> QED
    BY <2>1, Tails
<1>8. Len(l) = e - i /\ \A j \in 1 .. e - i : l[j] = buf[i + j - 1]
  BY <1>0, <1>1, SMTT(20)
<1>9. /\ b \in Seq(AnyByte) /\ fs \in Seq(Frame) /\ infos \in Seq(AnyByte)
      /\ HeadsOf(fs) \in Seq(Mark) /\ InfosOf(fs) \in Seq(Seq(AnyByte))
      /\ Within(HeadsOf(fs) \o MarksOf("head", b), MarksOf("head", t))
      /\ Within(MarksOf("packet", infos \o b), MarksOf("packet", t))
  <2>1. b \in Seq(AnyByte) /\ fs \in Seq(Frame)
    BY DEF MadeOf, Results
  <2>2. HeadsOf(fs) \in Seq(Mark) /\ InfosOf(fs) \in Seq(Seq(AnyByte))
    BY <2>1, HeadsType
  <2>3. infos \in Seq(AnyByte)
    BY <2>2, FlattenType
  <2> QED
    BY <2>1, <2>2, <2>3 DEF MadeOf
<1> HIDE DEF a, r, e, f, l, t, n, b, fs, is
<1>10. f.info \in Seq(AnyByte)
  BY <1>4 DEF Frame
<1> DEFINE c == a + n - 1 - i
           one == <<{HeadOf(f)}>>
<1>11. c \in 1 .. Len(l) /\ l[c] = r[n - 1]
  <2>1. c \in 1 .. e - i /\ i + c - 1 = a + (n - 1) - 1
    BY <1>0, <1>5
  <2>2. r[n - 1] = buf[a + (n - 1) - 1]
    BY <1>0, <1>1, <1>2, <1>3
  <2> HIDE DEF c
  <2> QED
    BY <1>8, <2>1, <2>2
<1> HIDE DEF c
<1>12. one \in Seq(Mark) /\ Within(one, MarksOf("head", l))
  <2>1. one \in Seq(Mark)
    <3>1. <<f>> \in Seq(Frame)
      BY <1>4
    <3> QED
      BY <1>4, <3>1, HeadsOne, HeadsType
  <2>2. MarksOf("head", l)[c] = {HeadOf(f)} /\ c \in DOMAIN MarksOf("head", l) /\ c \in Int
    BY <1>3, <1>11 DEF MarksOf
  <2>3. DOMAIN one = 1 .. 1 /\ one[1] = {HeadOf(f)}
    OBVIOUS
  <2> DEFINE y == MarksOf("head", l)
             g == [k \in 1 .. 1 |-> c]
  <2>4. g \in [1 .. 1 -> Int] /\ \A k \in 1 .. 1 : g[k] = c /\ k = 1
    BY <2>2
  <2>5. c \in DOMAIN y /\ y[c] = {HeadOf(f)}
    BY <2>2
  <2>6. y = MarksOf("head", l)
    OBVIOUS
  <2> HIDE DEF one, y, g
  <2>7. Carries(g, one, y)
    <3>1. g \in [DOMAIN one -> Int] /\ \A k \in DOMAIN one : k = 1 /\ g[k] = c
      BY <2>3, <2>4
    <3>2. \A k \in DOMAIN one : g[k] \in DOMAIN y /\ y[g[k]] = one[k]
      BY <2>3, <2>5, <3>1
    <3>3. \A j, k \in DOMAIN one : ~(j < k)
      BY <3>1
    <3> QED
      BY <3>1, <3>2, <3>3 DEF Carries
  <2> QED
    BY <2>1, <2>6, <2>7 DEF Within
<1>13. /\ MarksOf("head", l) \in Seq(Mark) /\ MarksOf("head", t) \in Seq(Mark)
       /\ MarksOf("head", b) \in Seq(Mark)
       /\ MarksOf("head", l \o t) = MarksOf("head", l) \o MarksOf("head", t)
       /\ MarksOf("packet", l) \in Seq(Mark) /\ MarksOf("packet", t) \in Seq(Mark)
       /\ MarksOf("packet", l \o t) = MarksOf("packet", l) \o MarksOf("packet", t)
  BY <1>7, <1>9, MarksType, MarksConcat
<1>14. HeadsOf(<<f>> \o fs) = one \o HeadsOf(fs)
  <2>1. <<f>> \in Seq(Frame)
    BY <1>4
  <2> QED
    BY <1>4, <1>9, <2>1, HeadsOne, HeadsConcat
<1>15. InfosOf(<<f>> \o fs) = <<f.info>> \o InfosOf(fs)
  <2>1. <<f>> \in Seq(Frame)
    BY <1>4
  <2> QED
    BY <1>4, <1>9, <2>1, HeadsOne, HeadsConcat
<1>16. Within(HeadsOf(<<f>> \o fs) \o MarksOf("head", b), MarksOf("head", l \o t))
  <2> DEFINE x == HeadsOf(fs)
             y == MarksOf("head", b)
             u == MarksOf("head", l)
             v == MarksOf("head", t)
  <2>1. one \in Seq(Mark) /\ x \in Seq(Mark) /\ y \in Seq(Mark) /\ u \in Seq(Mark) /\ v \in Seq(Mark)
    BY <1>9, <1>12, <1>13
  <2>2. Within(one, u) /\ Within(x \o y, v)
    BY <1>9, <1>12
  <2> HIDE DEF one, x, y, u, v
  <2>3. x \o y \in Seq(Mark) /\ (one \o x) \o y = one \o (x \o y)
    <3>1. one \in Seq(Mark) /\ x \in Seq(Mark) /\ y \in Seq(Mark)
      BY <2>1
    <3> QED
      BY <3>1
  <2>4. Within(one \o (x \o y), u \o v)
    BY <2>1, <2>2, <2>3, WithinConcat
  <2> QED
    BY <1>13, <1>14, <2>3, <2>4 DEF x, y, u, v
<1>17. FlattenSeq(InfosOf(<<f>> \o fs)) = f.info \o infos
  <2> DEFINE T == Seq(AnyByte)
  <2>1. <<f.info>> \in Seq(T)
    <3>1. f.info \in T
      BY <1>10
    <3> HIDE DEF T
    <3> QED
      BY <3>1
  <2>2. FlattenSeq(<<f.info>> \o InfosOf(fs)) = FlattenSeq(<<f.info>>) \o infos
    BY <1>9, <2>1, FlattenConcat
  <2>3. FlattenSeq(<<f.info>>) = f.info
    BY <1>10, FlattenOne
  <2> QED
    BY <1>15, <2>2, <2>3
<1> HIDE DEF infos
<1>18. Within(MarksOf("packet", f.info), MarksOf("packet", l))
  <2> DEFINE p == a + is - i
             q == a + n - 2 - i
             u == MarksOf("packet", l)
  <2>1. p \in 1 .. Len(l) + 1 /\ q \in p - 1 .. Len(l)
    BY <1>0, <1>5, <1>8
  <2>2. f.info = SubSeq(l, p, q)
    <3> DEFINE y == SubSeq(l, p, q)
               x == f.info
    <3>1. /\ x \in Seq(AnyByte) /\ Len(x) = n - 1 - is
          /\ \A j \in 1 .. n - 1 - is : x[j] = r[is + j - 1]
      BY <1>1, <1>5, <1>6
    <3>2. \A j \in 1 .. Len(r) : r[j] = buf[a + j - 1]
      BY <1>0, <1>1, <1>2
    <3>3. q - p + 1 = n - 1 - is
      BY <1>0, <1>5
    <3> HIDE DEF x
    <3>4. /\ y \in Seq(AnyByte) /\ Len(y) = q - p + 1
          /\ \A j \in 1 .. q - p + 1 : y[j] = l[p + j - 1]
      <4> HIDE DEF p, q
      <4> QED
        BY <1>7, <2>1
    <3>5. ASSUME NEW j \in 1 .. n - 1 - is PROVE x[j] = y[j]
      <4>1. is + j - 1 \in 1 .. Len(r) /\ p + j - 1 \in 1 .. e - i
        BY <1>0, <1>5
      <4>2. a + (is + j - 1) - 1 = i + (p + j - 1) - 1
        BY <1>0, <1>5
      <4> HIDE DEF p, q, y
      <4>3. x[j] = buf[a + (is + j - 1) - 1]
        BY <3>1, <3>2, <4>1
      <4>4. y[j] = l[p + j - 1] /\ l[p + j - 1] = buf[i + (p + j - 1) - 1]
        BY <1>8, <3>3, <3>4, <4>1
      <4> QED
        BY <4>2, <4>3, <4>4
    <3> HIDE DEF p, q, y
    <3>6. x = y
      BY <3>1, <3>3, <3>4, <3>5, SeqEqual
    <3> QED
      BY <3>6 DEF x, y
  <2> HIDE DEF p, q
  <2>3. MarksOf("packet", SubSeq(l, p, q)) = SubSeq(u, p, q)
    BY <1>7, <2>1, MarksPart
  <2>4. u \in Seq(Mark) /\ Len(u) = Len(l)
    BY <1>7, MarksType
  <2> HIDE DEF u
  <2>5. Within(SubSeq(u, p, q), u)
    BY <2>1, <2>4, WithinPart
  <2> QED
    BY <2>2, <2>3, <2>5 DEF u
<1>19. Within(MarksOf("packet", (f.info \o infos) \o b), MarksOf("packet", l \o t))
  <2> DEFINE x == f.info
             y == infos \o b
             w == MarksOf("packet", x)
             z == MarksOf("packet", y)
             u == MarksOf("packet", l)
             v == MarksOf("packet", t)
  <2>1. x \in Seq(AnyByte) /\ y \in Seq(AnyByte) /\ (x \o infos) \o b = x \o y
    <3>1. x \in Seq(AnyByte) /\ infos \in Seq(AnyByte) /\ b \in Seq(AnyByte)
      BY <1>9, <1>10
    <3> HIDE DEF x
    <3> QED
      BY <3>1
  <2> HIDE DEF x, y
  <2>2. MarksOf("packet", x \o y) = w \o z
    BY <2>1, MarksConcat
  <2>3. w \in Seq(Mark) /\ z \in Seq(Mark) /\ u \in Seq(Mark) /\ v \in Seq(Mark)
    BY <1>13, <2>1, MarksType
  <2>4. Within(w, u) /\ Within(z, v)
    BY <1>9, <1>18 DEF x, y
  <2> HIDE DEF w, z, u, v
  <2>5. Within(w \o z, u \o v)
    BY <2>3, <2>4, WithinConcat
  <2> QED
    BY <1>13, <2>1, <2>2, <2>5 DEF x, u, v
<1>20. [buffer |-> b, frames |-> <<f>> \o fs] \in Results
  BY <1>4, <1>9 DEF Results
<1>21. MadeOf([buffer |-> b, frames |-> <<f>> \o fs], l \o t)
  BY <1>16, <1>17, <1>19, <1>20 DEF MadeOf
<1> QED
  BY <1>7, <1>21 DEF b, fs, f, r

LEMMA ParseKeeps ==
    ASSUME NEW buf \in Seq(AnyByte)
    PROVE  MadeOf(Parse(buf), buf)
<1> DEFINE n == Len(buf) + 1
           rest(i) == SubSeq(buf, i, Len(buf))
<1>1. PICK f : /\ \A i \in 1 .. n : f[i] = ParseFrom(buf, f, i)
               /\ Parse(buf) = f[1]
  BY ParseIs
<1> DEFINE P == {i \in 1 .. n : MadeOf(f[i], rest(i))}
<1>2. n \in Nat /\ 1 \in 1 .. n
  OBVIOUS
<1>3. ASSUME NEW i \in 1 .. n, i + 1 .. n \subseteq P PROVE i \in P
  <2>0. f[i] = ParseFrom(buf, f, i) /\ i \in i .. Len(buf) + 1
    BY <1>1
  <2>1. CASE FlagsFrom(buf, i) = {}
    BY <2>0, <2>1, MadeOfRest DEF ParseFrom
  <2>2. CASE FlagsFrom(buf, i) # {} /\ ~Complete(RestFrom(buf, i))
    <3>1. Min(FlagsFrom(buf, i)) \in i .. Len(buf) + 1
      BY <2>2, RestIs
    <3>2. f[i] = [buffer |-> SubSeq(buf, Min(FlagsFrom(buf, i)), Len(buf)), frames |-> <<>>]
      BY <2>0, <2>2 DEF ParseFrom, RestFrom
    <3> QED
      BY <3>1, <3>2, MadeOfRest
  <2>3. CASE FlagsFrom(buf, i) # {} /\ Complete(RestFrom(buf, i))
    <3>1. NextFrom(buf, i) \in i + 1 .. Len(buf) + 1
      BY <2>3, RestIs
    <3>2. MadeOf(f[NextFrom(buf, i)], SubSeq(buf, NextFrom(buf, i), Len(buf)))
      BY <1>3, <3>1
    <3>3. CASE ~Sound(RestFrom(buf, i))
      <4>1. f[i] = f[NextFrom(buf, i)]
        BY <2>0, <2>3, <3>3 DEF ParseFrom
      <4>2. NextFrom(buf, i) \in i .. Len(buf) + 1
        BY <3>1
      <4> QED
        BY <3>2, <4>1, <4>2, MadeOfLess
    <3>4. CASE Sound(RestFrom(buf, i))
      <4>1. FrameAt(buf, i)
        BY <2>3 DEF FrameAt
      <4>2. f[i] = [buffer |-> f[NextFrom(buf, i)].buffer,
                    frames |-> <<FrameOf(RestFrom(buf, i))>> \o f[NextFrom(buf, i)].frames]
        BY <2>0, <2>3, <3>4 DEF ParseFrom
      <4> QED
        BY <3>2, <3>4, <4>1, <4>2, MadeOfMore
    <3> QED
      BY <3>3, <3>4
  <2> QED
    BY <2>1, <2>2, <2>3
<1>4. 1 .. n \subseteq P
  <2> HIDE DEF P, n
  <2> QED
    BY <1>2, <1>3, Downward
<1>5. MadeOf(f[1], SubSeq(buf, 1, Len(buf)))
  BY <1>2, <1>4
<1> QED
  BY <1>1, <1>5, SubSeqFull

-----------------------------------------------------------------------------
(* make_frame()                                                             *)

LEMMA DivMod ==
    ASSUME NEW a \in Nat, NEW b \in Nat \ {0}
    PROVE  /\ a \div b \in Nat /\ a % b \in 0 .. b - 1
           /\ a = b * (a \div b) + (a % b)
OBVIOUS

LEMMA DivLess ==
    ASSUME NEW a \in Nat, NEW b \in Nat \ {0}, NEW c \in Nat, a < c * b
    PROVE  a \div b < c
OBVIOUS

(* The bytes of PPP: no checksum of the multiplexer is among them.          *)
PppByte == PlainByte \union {Check(v, <<c>>) : v \in Byte, c \in Contents}

LEMMA PppByteIs ==
    \A b \in PppByte : b \in AnyByte /\ MarkOf("head", b) = {}
<1>1. ASSUME NEW v \in Byte, NEW c \in Contents
      PROVE  Check(v, <<c>>) \in AnyByte /\ MarkOf("head", Check(v, <<c>>)) = {}
  <2>1. Check(v, <<c>>) \in AnyByte
    BY DEF AnyByte
  <2>2. Len(Check(v, <<c>>)[2]) = 1
    BY DEF Check
  <2> QED
    BY <2>1, <2>2 DEF MarkOf, HeadMark
<1>2. \A b \in PlainByte : b \in AnyByte /\ MarkOf("head", b) = {}
  BY ByteIs, MarkIs
<1> SUFFICES ASSUME NEW b \in PppByte PROVE b \in AnyByte /\ MarkOf("head", b) = {}
  OBVIOUS
<1>3. CASE b \in PlainByte
  BY <1>2, <1>3
<1>4. CASE b \notin PlainByte
  <2>1. PICK v \in Byte, c \in Contents : b = Check(v, <<c>>)
    BY <1>4 DEF PppByte
  <2> QED
    BY <1>1, <2>1
<1> QED
  BY <1>3, <1>4

(* The length comes back out of its one or two bytes.                       *)
LEMMA LengthBack ==
    ASSUME NEW n \in Nat, n < 2 * LenBase * LenBase
    PROVE  LET l == LenBytes(n) IN
           /\ l \in Seq(PlainByte) /\ Len(l) \in {1, 2}
           /\ n = (Val(l[1]) \div 2) + IF Len(l) = 2 THEN Val(l[2]) * LenBase ELSE 0
           /\ Len(l) = 2 <=> Val(l[1]) % 2 = 0
<1>0. LenBase \in Nat \ {0} /\ Byte = 0 .. 2 * LenBase - 1
  BY FramesAssumption DEF Byte
<1>1. CASE n < LenBase
  <2>1. 2 * n + 1 \in Byte /\ (2 * n + 1) \div 2 = n /\ (2 * n + 1) % 2 = 1
    BY <1>0, <1>1
  <2>2. LenBytes(n) = <<Plain(2 * n + 1)>>
    BY <1>1 DEF LenBytes
  <2>3. Plain(2 * n + 1) \in PlainByte /\ Val(Plain(2 * n + 1)) = 2 * n + 1
    BY <2>1 DEF PlainByte, Plain, Val
  <2> QED
    BY <2>1, <2>2, <2>3
<1>2. CASE ~(n < LenBase)
  <2> DEFINE q == n \div LenBase
             r == n % LenBase
  <2>1. q \in Nat /\ r \in 0 .. LenBase - 1 /\ n = LenBase * q + r
    BY <1>0, DivMod
  <2>2. q < 2 * LenBase
    <3>1. 2 * LenBase \in Nat /\ n < (2 * LenBase) * LenBase
      BY <1>0
    <3> QED
      BY <1>0, <3>1, DivLess
  <2>3. LenBytes(n) = <<Plain(2 * r), Plain(q)>>
    BY <1>2 DEF LenBytes
  <2> HIDE DEF q, r
  <2>4. 2 * r \in Byte /\ q \in Byte /\ (2 * r) \div 2 = r /\ (2 * r) % 2 = 0
    BY <1>0, <2>1, <2>2
  <2>5. /\ Plain(2 * r) \in PlainByte /\ Val(Plain(2 * r)) = 2 * r
        /\ Plain(q) \in PlainByte /\ Val(Plain(q)) = q
    BY <2>4 DEF PlainByte, Plain, Val
  <2>6. n = r + q * LenBase
    BY <1>0, <2>1
  <2> QED
    BY <2>3, <2>4, <2>5, <2>6
<1> QED
  BY <1>1, <1>2

(* The header in front of data of length n, and what it names.              *)
HeaderFor(dlci, cr, ctrl, n) == <<Address(dlci, cr), Plain(ctrl)>> \o LenBytes(n)

LEMMA HeaderBack ==
    ASSUME NEW dlci \in Nat, NEW cr \in {0, 1}, NEW ctrl \in Byte,
           3 + 4 * dlci < 2 * LenBase,
           NEW n \in Nat, n < 2 * LenBase * LenBase
    PROVE  LET h == HeaderFor(dlci, cr, ctrl, n) IN
           /\ h \in Headers /\ h \in Seq(PlainByte)
           /\ HeaderIn(h) = [dlci |-> dlci, len |-> n]
           /\ h[1] = Address(dlci, cr) /\ (Len(h) = 4 <=> Val(h[3]) % 2 = 0)
<1> DEFINE l == LenBytes(n)
           a == Address(dlci, cr)
           h == HeaderFor(dlci, cr, ctrl, n)
<1>1. /\ l \in Seq(PlainByte) /\ Len(l) \in {1, 2}
      /\ n = (Val(l[1]) \div 2) + IF Len(l) = 2 THEN Val(l[2]) * LenBase ELSE 0
      /\ Len(l) = 2 <=> Val(l[1]) % 2 = 0
  BY LengthBack
<1>2. a \in PlainByte /\ Val(a) \div 4 = dlci
  <2>1. 1 + 2 * cr + 4 * dlci \in Byte /\ (1 + 2 * cr + 4 * dlci) \div 4 = dlci
    BY FramesAssumption DEF Byte
  <2> QED
    BY <2>1 DEF Address, PlainByte, Plain, Val
<1>3. Plain(ctrl) \in PlainByte
  BY ByteIs
<1>4. h = <<a, Plain(ctrl)>> \o l
  BY DEF HeaderFor
<1> HIDE DEF l, a, h
<1>5. /\ h \in Seq(PlainByte) /\ Len(h) = 2 + Len(l) /\ h[1] = a /\ h[3] = l[1]
      /\ Len(l) = 2 => h[4] = l[2]
  <2> DEFINE two == <<a, Plain(ctrl)>>
  <2>1. two \in Seq(PlainByte) /\ Len(two) = 2 /\ two[1] = a
    BY <1>2, <1>3
  <2>2. h = two \o l
    BY <1>4
  <2>3. l \in Seq(PlainByte) /\ Len(l) \in {1, 2} /\ two \in Seq(PlainByte) /\ Len(two) = 2
    BY <1>1, <2>1
  <2> HIDE DEF two
  <2>4. /\ h \in Seq(PlainByte) /\ Len(h) = 2 + Len(l)
        /\ h[1] = two[1] /\ h[3] = l[1] /\ (Len(l) = 2 => h[4] = l[2])
    <3>1. /\ h \in Seq(PlainByte) /\ Len(h) = Len(two) + Len(l)
          /\ \A i \in 1 .. Len(two) + Len(l) : h[i] = IF i <= Len(two) THEN two[i] ELSE l[i - Len(two)]
      BY <2>2, <2>3, ConcatProperties
    <3>2. CASE Len(l) = 1
      BY <2>3, <3>1, <3>2
    <3>3. CASE Len(l) = 2
      BY <2>3, <3>1, <3>3
    <3> QED
      BY <2>3, <3>2, <3>3
  <2> QED
    BY <2>1, <2>4
<1>6. h \in Headers /\ (Len(h) = 4 <=> Len(l) = 2)
  <2>1. Len(l) \in {1, 2}
    BY <1>1
  <2>2. Len(h) = 2 + Len(l)
    BY <1>5
  <2>3. Len(h) \in {3, 4} /\ (Len(h) = 4 <=> Len(l) = 2)
    <3>1. CASE Len(l) = 1
      BY <2>2, <3>1
    <3>2. CASE Len(l) = 2
      BY <2>2, <3>2
    <3> QED
      BY <2>1, <3>1, <3>2
  <2> QED
    BY <1>5, <2>3 DEF Headers
<1>7. HeaderIn(h) = [dlci |-> dlci, len |-> n]
  BY <1>1, <1>2, <1>5, <1>6 DEF HeaderIn
<1> QED
  BY <1>1, <1>5, <1>6, <1>7 DEF h, a

(* At most one byte of z bears a mark.                                      *)
LEMMA WithinOne ==
    ASSUME NEW S, NEW z \in Seq(S), NEW k \in Int, NEW m,
           \A i \in 1 .. Len(z) : i # k => z[i] = {},
           k \in 1 .. Len(z) => z[k] = m
    PROVE  Within(z, <<m>>)
<1> DEFINE y == <<m>>
           c == [i \in 1 .. Len(z) |-> 1]
<1>1. DOMAIN y = 1 .. 1 /\ y[1] = m
  OBVIOUS
<1>2. DOMAIN z = 1 .. Len(z) /\ Len(z) \in Nat
  OBVIOUS
<1>3. c \in [DOMAIN z -> Int] /\ \A i \in DOMAIN z : c[i] = 1
  BY <1>2
<1> HIDE DEF y, c
<1>4. \A i \in DOMAIN z : z[i] # {} => i = k /\ z[i] = m
  BY <1>2
<1>5. \A i \in DOMAIN z : z[i] # {} => c[i] \in DOMAIN y /\ y[c[i]] = z[i]
  BY <1>1, <1>3, <1>4
<1>6. \A i, j \in DOMAIN z : ~(i < j /\ z[i] # {} /\ z[j] # {})
  BY <1>2, <1>4
<1>7. Carries(c, z, y)
  BY <1>3, <1>5, <1>6 DEF Carries
<1> QED
  BY <1>7 DEF Within, y

LEMMA Regroup ==
    ASSUME NEW S, NEW a \in Seq(S), NEW b \in Seq(S), NEW c \in Seq(S)
    PROVE  /\ a \o b \in Seq(S) /\ b \o c \in Seq(S)
           /\ (a \o b) \o c = a \o (b \o c)
           /\ <<>> \o a = a /\ a \o <<>> = a
OBVIOUS

LEMMA MakeFrameMarks ==
    ASSUME NEW dlci \in Nat, NEW cr \in {0, 1}, NEW ctrl \in Byte,
           3 + 4 * dlci < 2 * LenBase,
           NEW data \in Seq(PppByte), Len(data) < 2 * LenBase * LenBase, NEW v \in Byte
    PROVE  LET m == MakeFrame(dlci, cr, ctrl, data, v) IN
           /\ m \in Seq(AnyByte)
           /\ Within(MarksOf("head", m), <<{[dlci |-> dlci, len |-> Len(data)]}>>)
           /\ Within(MarksOf("packet", m), MarksOf("packet", data))
<1> DEFINE m == MakeFrame(dlci, cr, ctrl, data, v)
           h == HeaderFor(dlci, cr, ctrl, Len(data))
           fl == Plain(Flag)
           pre == <<fl>> \o h
           chk == Check(v, h)
           end == <<chk, fl>>
           x == [dlci |-> dlci, len |-> Len(data)]
           none == <<>>
           d == MarksOf("packet", data)
<1>1. h \in Headers /\ h \in Seq(PlainByte) /\ HeaderIn(h) = x
  <2>1. Len(data) \in Nat
    OBVIOUS
  <2> QED
    BY <2>1, HeaderBack
<1>2. m = (pre \o data) \o end
  BY DEF MakeFrame, HeaderFor
<1>3. fl \in PlainByte /\ fl \in AnyByte
  BY ByteIs, FramesAssumption
<1>4. chk \in AnyByte
  BY <1>1 DEF AnyByte
<1>5. MarkOf("head", chk) = {x} /\ MarkOf("packet", chk) = {}
  <2>1. x \in Label
    BY DEF Label
  <2>2. Len(chk) = 2 /\ chk[2] = h /\ Len(h) \in {3, 4}
    BY <1>1 DEF Check, Headers
  <2>3. HeadMark(chk) = {x}
    BY <1>1, <2>1, <2>2 DEF HeadMark
  <2>4. PackMark(chk) = {}
    <3> HIDE DEF chk, h
    <3>1. \A n \in {3, 4} : n # 1
      OBVIOUS
    <3>2. Len(h) # 1 /\ chk[2] = h
      BY <2>2, <3>1, Zenon
    <3> QED
      BY <3>2 DEF PackMark
  <2> QED
    BY <2>3, <2>4 DEF MarkOf
<1>6. \A k : \A b \in PlainByte : MarkOf(k, b) = {}
  BY MarkIs
<1>7. data \in Seq(AnyByte) /\ \A i \in 1 .. Len(data) : MarkOf("head", data[i]) = {}
  BY PppByteIs
<1>8. pre \in Seq(PlainByte) /\ pre \in Seq(AnyByte)
  <2>1. pre \in Seq(PlainByte)
    BY <1>1, <1>3
  <2>2. PlainByte \subseteq AnyByte
    BY ByteIs
  <2> HIDE DEF pre
  <2> QED
    BY <2>1, <2>2
<1>9. end \in Seq(AnyByte) /\ Len(end) = 2 /\ end[1] = chk /\ end[2] = fl
  BY <1>3, <1>4
<1> HIDE DEF m, h, fl, pre, chk, end, x, none, d
<1>10. \A k : \A i \in 1 .. Len(pre) : MarkOf(k, pre[i]) = {}
  BY <1>6, <1>8
<1>11. none \in Seq(Mark) /\ d \in Seq(Mark) /\ <<{x}>> \in Seq(Mark)
  <2>1. none \in Seq(Mark)
    BY DEF none
  <2>2. d \in Seq(Mark)
    BY MarksType DEF d
  <2>3. {x} \in Mark
    BY DEF x, Mark, Label
  <2> QED
    BY <2>1, <2>2, <2>3
<1>12. pre \o data \in Seq(AnyByte) /\ m \in Seq(AnyByte)
  BY <1>2, <1>7, <1>8, <1>9
<1>13. ASSUME NEW k
       PROVE  /\ MarksOf(k, m) = (MarksOf(k, pre) \o MarksOf(k, data)) \o MarksOf(k, end)
              /\ MarksOf(k, pre) \in Seq(Mark) /\ MarksOf(k, data) \in Seq(Mark)
              /\ MarksOf(k, end) \in Seq(Mark)
              /\ Within(MarksOf(k, pre), none)
  <2>1. MarksOf(k, pre \o data) = MarksOf(k, pre) \o MarksOf(k, data)
    BY <1>7, <1>8, MarksConcat
  <2>2. MarksOf(k, (pre \o data) \o end) = MarksOf(k, pre \o data) \o MarksOf(k, end)
    BY <1>9, <1>12, MarksConcat
  <2>3. Within(MarksOf(k, pre), none)
    BY <1>8, <1>10, MarksBlank
  <2> QED
    BY <1>2, <1>7, <1>8, <1>9, <2>1, <2>2, <2>3, MarksType
<1>14. Within(MarksOf("head", m), <<{x}>>)
  <2> DEFINE a == MarksOf("head", pre)
             b == MarksOf("head", data)
             e == MarksOf("head", end)
             y == <<{x}>>
  <2>1. Within(b, none)
    BY <1>7, MarksBlank
  <2>2. Within(e, y)
    <3>1. e \in Seq(Mark) /\ Len(e) = 2 /\ e[1] = {x} /\ e[2] = {}
      <4>1. e \in Seq(Mark) /\ Len(e) = Len(end) /\ \A i \in 1 .. Len(end) : e[i] = MarkOf("head", end[i])
        BY <1>9, MarksType
      <4>2. MarkOf("head", fl) = {}
        BY <1>3, <1>6
      <4> HIDE DEF e
      <4> QED
        BY <1>5, <1>9, <4>1, <4>2
    <3> HIDE DEF e
    <3>2. \A i \in 1 .. Len(e) : i # 1 => e[i] = {}
      BY <3>1
    <3>3. 1 \in Int /\ e[1] = {x}
      BY <3>1
    <3> QED
      BY <3>1, <3>2, <3>3, WithinOne
  <2>3. /\ a \in Seq(Mark) /\ b \in Seq(Mark) /\ e \in Seq(Mark) /\ Within(a, none)
        /\ MarksOf("head", m) = (a \o b) \o e
    BY <1>13
  <2>4. y \in Seq(Mark)
    BY <1>11
  <2> HIDE DEF a, b, e, y
  <2>5. Within(a \o b, none \o none)
    BY <1>11, <2>1, <2>3, WithinConcat
  <2>6. none \o none = none
    BY DEF none
  <2>7. a \o b \in Seq(Mark)
    BY <2>3
  <2>8. Within((a \o b) \o e, none \o y)
    BY <1>11, <2>2, <2>3, <2>4, <2>5, <2>6, <2>7, WithinConcat
  <2>9. none \o y = y
    BY <2>4 DEF none
  <2> QED
    BY <2>3, <2>8, <2>9 DEF y
<1>15. Within(MarksOf("packet", m), d)
  <2> DEFINE a == MarksOf("packet", pre)
             e == MarksOf("packet", end)
  <2>1. Within(e, none)
    <3>1. MarkOf("packet", fl) = {}
      BY <1>3, <1>6
    <3>2. \A i \in 1 .. Len(end) : MarkOf("packet", end[i]) = {}
      BY <1>5, <1>9, <3>1
    <3> QED
      BY <1>9, <3>2, MarksBlank
  <2>2. /\ a \in Seq(Mark) /\ d \in Seq(Mark) /\ e \in Seq(Mark) /\ Within(a, none)
        /\ MarksOf("packet", m) = (a \o d) \o e
    BY <1>13 DEF d
  <2>3. Within(d, d)
    BY <1>11, WithinSelf
  <2> HIDE DEF a, e
  <2>4. Within(a \o d, none \o d)
    BY <1>11, <2>2, <2>3, WithinConcat
  <2>5. a \o d \in Seq(Mark) /\ none \o d = d /\ d \o none = d
    BY <2>2 DEF none
  <2>6. Within((a \o d) \o e, d \o none)
    BY <1>11, <2>1, <2>2, <2>4, <2>5, WithinConcat
  <2> QED
    BY <2>2, <2>5, <2>6
<1> QED
  BY <1>12, <1>14, <1>15 DEF m, x, d

-----------------------------------------------------------------------------
(* Stuffing                                                                 *)

LEMMA Grows ==
    ASSUME NEW a \in Nat, NEW b \in Nat, NEW c \in Nat, a <= b
    PROVE  c * a <= c * b
OBVIOUS

(* Flipping stays among the bytes and is undone by flipping again.          *)
LEMMA FlipIs ==
    ASSUME NEW v \in Byte
    PROVE  Flip(v) \in Byte /\ Flip(Flip(v)) = v
<1> DEFINE q == v \div Bit
           r == v % Bit
           k == LenBase \div Bit
           top == 2 * LenBase
           m == Bit * q
           t == Bit * (2 * k)
<1>0. Bit \in Nat \ {0} /\ LenBase \in Nat \ {0} /\ v \in Nat /\ v < top /\ Byte = 0 .. top - 1
  BY FramesAssumption, PppFramesAssumption DEF Byte
<1>1. q \in Nat /\ r \in 0 .. Bit - 1 /\ v = m + r
  BY <1>0, DivMod
<1>2. k \in Nat /\ top = t
  <2>1. k \in Nat /\ LenBase = Bit * k + (LenBase % Bit)
    BY <1>0, DivMod
  <2>2. LenBase = Bit * k
    BY <1>0, <2>1, PppFramesAssumption
  <2> HIDE DEF k
  <2>3. 2 * (Bit * k) = Bit * (2 * k)
    BY <1>0, <2>1
  <2> QED
    BY <2>1, <2>2, <2>3
<1>3. q < 2 * k
  <2>1. v < (2 * k) * Bit /\ 2 * k \in Nat
    <3> HIDE DEF k
    <3> QED
      BY <1>0, <1>2
  <2> HIDE DEF k, top
  <2> QED
    BY <1>0, <2>1, DivLess
<1>4. Bit * (q + 1) = m + Bit /\ Bit * (q + 2) = m + 2 * Bit /\ m \in Nat /\ t \in Nat
  <2> HIDE DEF q, k, top
  <2> QED
    BY <1>0, <1>1, <1>2
<1>5. CASE q % 2 = 0
  <2>1. Flip(v) = v + Bit
    BY <1>5 DEF Flip
  <2>2. q + 2 \in Nat /\ 2 * k \in Nat /\ q + 2 <= 2 * k
    <3> HIDE DEF q, k
    <3> QED
      BY <1>1, <1>2, <1>3, <1>5
  <2>3. Bit * (q + 2) <= Bit * (2 * k)
    <3> HIDE DEF q, k
    <3> QED
      BY <1>0, <2>2, Grows
  <2>4. v + Bit \in Byte
    <3> HIDE DEF q, k, r, m, t, top
    <3> QED
      BY <1>0, <1>1, <1>2, <1>4, <2>3 DEF t
  <2>5. (v + Bit) \div Bit = q + 1
    <3>1. v + Bit = Bit * (q + 1) + r /\ q + 1 \in Nat
      <4> HIDE DEF q, r, m
      <4> QED
        BY <1>0, <1>1, <1>4
    <3> HIDE DEF q, r
    <3> QED
      BY <1>0, <1>1, <3>1
  <2>6. (q + 1) % 2 # 0
    <3> HIDE DEF q
    <3> QED
      BY <1>1, <1>5
  <2>7. Flip(v + Bit) = (v + Bit) - Bit
    <3> HIDE DEF q
    <3> QED
      BY <2>5, <2>6 DEF Flip
  <2> QED
    BY <1>0, <2>1, <2>4, <2>7
<1>6. CASE q % 2 # 0
  <2>1. Flip(v) = v - Bit
    BY <1>6 DEF Flip
  <2>2. q - 1 \in Nat /\ 1 <= q
    <3> HIDE DEF q
    <3> QED
      BY <1>1, <1>6
  <2>3. Bit <= m /\ Bit * (q - 1) = m - Bit
    <3>1. q \in Nat
      BY <1>1
    <3>2. Bit * 1 <= Bit * q
      <4> HIDE DEF q
      <4> QED
        BY <1>0, <2>2, <3>1, Grows
    <3> HIDE DEF q
    <3> QED
      BY <1>0, <3>1, <3>2
  <2>4. v - Bit \in Byte
    <3> HIDE DEF q, k, r, m, t, top
    <3> QED
      BY <1>0, <1>1, <1>2, <1>4, <2>3
  <2>5. (v - Bit) \div Bit = q - 1
    <3>1. v - Bit = Bit * (q - 1) + r
      <4> HIDE DEF q, r, m
      <4> QED
        BY <1>0, <1>1, <1>4, <2>3
    <3> HIDE DEF q, r
    <3> QED
      BY <1>0, <1>1, <2>2, <3>1
  <2>6. (q - 1) % 2 = 0
    <3> HIDE DEF q
    <3> QED
      BY <1>1, <1>6
  <2>7. Flip(v - Bit) = (v - Bit) + Bit
    <3> HIDE DEF q
    <3> QED
      BY <2>5, <2>6 DEF Flip
  <2> QED
    BY <1>0, <2>1, <2>4, <2>7
<1> QED
  BY <1>5, <1>6

(* What is stuffed is sent as a byte that is not.                           *)
LEMMA FlipUnstuffed ==
    ASSUME NEW v \in ToStuff
    PROVE  v \in Byte /\ Flip(v) \notin ToStuff
<1>1. /\ Bit \in Nat \ {0} /\ LenBase \in Nat \ {0} /\ Controls \subseteq 0 .. Bit - 1
      /\ PppFlag \in Byte /\ PppEsc \in Byte /\ PppFlag >= 2 * Bit /\ PppEsc >= 2 * Bit
      /\ PppFlag - PppEsc # 0 /\ PppFlag - PppEsc # Bit /\ PppFlag - PppEsc # 0 - Bit
  BY FramesAssumption, PppFramesAssumption
<1>2. PppFlag \in Nat /\ PppEsc \in Nat
  BY <1>1, ByteIs
<1>3. CASE v \in Controls
  <2>1. v \in 0 .. Bit - 1
    BY <1>1, <1>3
  <2>2. v \div Bit = 0
    <3>1. v = Bit * 0 + v
      BY <1>1, <2>1
    <3>2. (Bit * 0 + v) \div Bit = 0
      BY <1>1, <2>1
    <3> QED
      BY <3>1, <3>2
  <2>3. Flip(v) = v + Bit
    BY <2>2 DEF Flip
  <2>4. v + Bit \notin 0 .. Bit - 1 /\ v + Bit # PppFlag /\ v + Bit # PppEsc
    BY <1>1, <1>2, <2>1
  <2>5. v \in Byte
    <3>1. v < 2 * Bit /\ PppFlag < 2 * LenBase /\ v < 2 * LenBase
      BY <1>1, <1>2, <2>1 DEF Byte
    <3> QED
      BY <1>1, <2>1, <3>1 DEF Byte
  <2> QED
    BY <1>1, <2>3, <2>4, <2>5 DEF ToStuff
<1>4. CASE v \in {PppFlag, PppEsc}
  <2>1. Flip(v) = v + Bit \/ Flip(v) = v - Bit
    BY DEF Flip
  <2>2. Flip(v) \notin 0 .. Bit - 1 /\ Flip(v) # PppFlag /\ Flip(v) # PppEsc
    BY <1>1, <1>2, <1>4, <2>1
  <2> QED
    BY <1>1, <1>4, <2>2 DEF ToStuff
<1> QED
  BY <1>3, <1>4 DEF ToStuff

Piece(b) ==
    IF Len(b) = 1 /\ Val(b) \in ToStuff
    THEN <<Plain(PppEsc), Plain(Flip(Val(b)))>>
    ELSE <<b>>

Pieces(s) == [i \in DOMAIN s |-> Piece(s[i])]

LEMMA EscapeIs ==
    ASSUME NEW s
    PROVE  Escape(s) = FlattenSeq(Pieces(s))
BY DEF Escape, Pieces, Piece

LEMMA PieceIs ==
    /\ \A b \in PlainByte : Piece(b) \in Seq(PlainByte)
    /\ \A b \in PppByte : Piece(b) \in Seq(PppByte)
    /\ \A b : Len(b) = 2 => Piece(b) = <<b>>
<1>1. ASSUME NEW b \in PlainByte PROVE Piece(b) \in Seq(PlainByte)
  <2>1. CASE Val(b) \in ToStuff
    <3>1. Plain(PppEsc) \in PlainByte
      BY PppFramesAssumption, ByteIs
    <3>2. Plain(Flip(Val(b))) \in PlainByte
      BY <2>1, FlipUnstuffed, FlipIs, ByteIs
    <3> QED
      BY <3>1, <3>2 DEF Piece
  <2>2. CASE Val(b) \notin ToStuff
    BY <2>2 DEF Piece
  <2> QED
    BY <2>1, <2>2
<1>2. \A b : Len(b) = 2 => Piece(b) = <<b>>
  BY DEF Piece
<1>3. ASSUME NEW b \in PppByte PROVE Piece(b) \in Seq(PppByte)
  <2>1. CASE b \in PlainByte
    <3>1. PlainByte \subseteq PppByte
      BY DEF PppByte
    <3>2. Piece(b) \in Seq(PlainByte)
      BY <1>1, <2>1
    <3> QED
      BY <3>1, <3>2
  <2>2. CASE b \notin PlainByte
    <3>1. PICK v \in Byte, c \in Contents : b = Check(v, <<c>>)
      BY <2>2 DEF PppByte
    <3>2. Len(b) = 2
      BY <3>1 DEF Check
    <3>3. Piece(b) = <<b>>
      BY <1>2, <3>2
    <3> QED
      BY <3>3
  <2> QED
    BY <2>1, <2>2
<1> QED
  BY <1>1, <1>2, <1>3

LEMMA EscapeType ==
    /\ \A s \in Seq(PlainByte) : Escape(s) \in Seq(PlainByte)
    /\ \A s \in Seq(PppByte) : Escape(s) \in Seq(PppByte)
<1>1. ASSUME NEW S, NEW s \in Seq(S), \A b \in S : Piece(b) \in Seq(S)
      PROVE  Escape(s) \in Seq(S)
  <2> DEFINE T == Seq(S)
             q == Pieces(s)
             n == Len(s)
  <2>1. n \in Nat /\ DOMAIN s = 1 .. n /\ \A i \in 1 .. n : Piece(s[i]) \in T
    BY <1>1
  <2>2. q = [i \in 1 .. n |-> Piece(s[i])]
    BY <2>1 DEF Pieces
  <2>3. q \in Seq(T)
    <3> HIDE DEF T, n, q
    <3> QED
      BY <2>1, <2>2
  <2>4. FlattenSeq(q) \in Seq(S)
    <3> HIDE DEF q
    <3> QED
      BY <2>3, FlattenType
  <2> QED
    BY <2>4, EscapeIs
<1> QED
  BY <1>1, PieceIs

LEMMA EscapeConcat ==
    ASSUME NEW s \in Seq(PppByte), NEW t \in Seq(PppByte)
    PROVE  Escape(s \o t) = Escape(s) \o Escape(t)
<1> DEFINE T == Seq(PppByte)
           st == s \o t
           n == Len(s)
           m == Len(t)
           x == Pieces(s)
           y == Pieces(t)
           z == Pieces(st)
<1>1. \A b \in PppByte : Piece(b) \in T
  BY PieceIs
<1>2. ASSUME NEW r \in Seq(PppByte)
      PROVE  /\ Pieces(r) \in Seq(T) /\ Len(Pieces(r)) = Len(r)
             /\ \A i \in 1 .. Len(r) : Pieces(r)[i] = Piece(r[i])
  <2> DEFINE k == Len(r)
             q == Pieces(r)
  <2>1. k \in Nat /\ DOMAIN r = 1 .. k /\ \A i \in 1 .. k : Piece(r[i]) \in T
    BY <1>1
  <2>2. q = [i \in 1 .. k |-> Piece(r[i])]
    BY <2>1 DEF Pieces
  <2> HIDE DEF T, k, q
  <2>3. q \in Seq(T) /\ Len(q) = k /\ \A i \in 1 .. k : q[i] = Piece(r[i])
    BY <2>1, <2>2
  <2> QED
    BY <2>3 DEF k, q
<1>3. /\ st \in Seq(PppByte) /\ Len(st) = n + m /\ n \in Nat /\ m \in Nat
      /\ \A i \in 1 .. n : st[i] = s[i] /\ i \in 1 .. n + m
      /\ \A i \in 1 .. m : st[n + i] = t[i] /\ n + i \in 1 .. n + m
  OBVIOUS
<1>4. x \in Seq(T) /\ Len(x) = n /\ \A i \in 1 .. n : x[i] = Piece(s[i])
  BY <1>2
<1>5. y \in Seq(T) /\ Len(y) = m /\ \A i \in 1 .. m : y[i] = Piece(t[i])
  BY <1>2
<1>6. z \in Seq(T) /\ Len(z) = n + m /\ \A i \in 1 .. n + m : z[i] = Piece(st[i])
  <2> HIDE DEF T, n, m, st
  <2> QED
    BY <1>2, <1>3
<1> HIDE DEF T, st, n, m, x, y, z
<1>7. z = x \o y
  <2>1. \A i \in 1 .. n : z[i] = x[i]
    BY <1>3, <1>4, <1>6
  <2>2. \A i \in 1 .. m : z[n + i] = y[i]
    BY <1>3, <1>5, <1>6
  <2> QED
    BY <1>4, <1>5, <1>6, <2>1, <2>2, ConcatIs
<1>8. FlattenSeq(x \o y) = FlattenSeq(x) \o FlattenSeq(y)
  BY <1>4, <1>5, FlattenConcat DEF T
<1> QED
  BY <1>7, <1>8, EscapeIs DEF x, y, z, st

LEMMA Pair ==
    ASSUME NEW S, NEW a \in S, NEW b \in S
    PROVE  <<a>> \o <<b>> = <<a, b>>
<1> DEFINE x == <<a>>
           y == <<b>>
           z == <<a, b>>
<1>1. /\ x \in Seq(S) /\ y \in Seq(S) /\ z \in Seq(S)
      /\ Len(x) = 1 /\ Len(y) = 1 /\ Len(z) = 2
      /\ x[1] = a /\ y[1] = b /\ z[1] = a /\ z[2] = b
  OBVIOUS
<1> HIDE DEF x, y, z
<1>2. /\ Len(z) = Len(x) + Len(y)
      /\ \A i \in 1 .. Len(x) : z[i] = x[i]
      /\ \A i \in 1 .. Len(y) : z[Len(x) + i] = y[i]
  BY <1>1
<1>3. z = x \o y
  BY <1>1, <1>2, ConcatIs
<1> QED
  BY <1>3 DEF x, y, z

(* The two bytes of a checksum are not stuffed.                             *)
LEMMA EscapeCheck ==
    ASSUME NEW c \in Contents
    PROVE  PppCheck(c) \in Seq(PppByte) /\ Escape(PppCheck(c)) = PppCheck(c)
<1> DEFINE a == Check(0, <<c>>)
           b == Check(1, <<c>>)
           T == Seq(PppByte)
<1>1. a \in PppByte /\ b \in PppByte /\ Len(a) = 2 /\ Len(b) = 2
  <2>1. 0 \in Byte /\ 1 \in Byte
    BY FramesAssumption DEF Byte
  <2> QED
    BY <2>1 DEF PppByte, Check
<1>2. PppCheck(c) = <<a, b>>
  BY DEF PppCheck
<1> HIDE DEF a, b
<1>3. Piece(a) = <<a>> /\ Piece(b) = <<b>>
  BY <1>1, PieceIs
<1>4. Pieces(<<a, b>>) = <<Piece(a), Piece(b)>>
  BY DEF Pieces
<1>5. <<a>> \in T /\ <<b>> \in T
  BY <1>1
<1>6. FlattenSeq(<< <<a>>, <<b>> >>) = <<a, b>>
  <2> DEFINE x == << <<a>> >>
             y == << <<b>> >>
  <2>1. x \in Seq(T) /\ y \in Seq(T)
    <3> HIDE DEF T
    <3> QED
      BY <1>5
  <2>2. FlattenSeq(x) = <<a>> /\ FlattenSeq(y) = <<b>>
    BY <1>5, FlattenOne
  <2>3. FlattenSeq(x \o y) = FlattenSeq(x) \o FlattenSeq(y)
    <3> HIDE DEF x, y
    <3> QED
      BY <2>1, FlattenConcat
  <2>4. x \o y = << <<a>>, <<b>> >>
    BY <1>5, Pair
  <2>5. <<a>> \o <<b>> = <<a, b>>
    BY <1>1, Pair
  <2> QED
    BY <2>2, <2>3, <2>4, <2>5
<1>7. <<a, b>> \in Seq(PppByte)
  BY <1>1
<1> QED
  BY <1>2, <1>3, <1>4, <1>6, <1>7, EscapeIs

-----------------------------------------------------------------------------
(* make_ppp_frame()                                                         *)

LEMMA Halves ==
    ASSUME NEW S, NEW a \in Seq(S), NEW b \in Seq(S)
    PROVE  /\ a \o b \in Seq(S) /\ Len(a \o b) = Len(a) + Len(b)
           /\ \A i \in 1 .. Len(a) : (a \o b)[i] = a[i]
           /\ \A i \in 1 .. Len(b) : (a \o b)[Len(a) + i] = b[i]
           /\ SubSeq(a \o b, 1, Len(a)) = a
           /\ SubSeq(a \o b, Len(a) + 1, Len(a) + Len(b)) = b
<1> DEFINE w == a \o b
           n == Len(a)
           m == Len(b)
           x == SubSeq(w, 1, n)
           y == SubSeq(w, n + 1, n + m)
<1>1. /\ w \in Seq(S) /\ Len(w) = n + m /\ n \in Nat /\ m \in Nat
      /\ \A i \in 1 .. n : w[i] = a[i] /\ i \in 1 .. n + m
      /\ \A i \in 1 .. m : w[n + i] = b[i] /\ n + i \in 1 .. n + m
  OBVIOUS
<1> HIDE DEF w
<1>2. x \in Seq(S) /\ Len(x) = n /\ \A i \in 1 .. n : x[i] = w[i]
  BY <1>1
<1>3. y \in Seq(S) /\ Len(y) = m /\ \A i \in 1 .. m : y[i] = w[n + i]
  <2> HIDE DEF n, m
  <2>1. y \in Seq(S) /\ Len(y) = m /\ \A i \in 1 .. m : y[i] = w[(n + 1) + i - 1]
    BY <1>1
  <2>2. \A i \in 1 .. m : (n + 1) + i - 1 = n + i
    BY <1>1
  <2> HIDE DEF y
  <2> QED
    BY <2>1, <2>2
<1> HIDE DEF x, y
<1>4. x = a
  BY <1>1, <1>2, SeqEqual
<1>5. y = b
  BY <1>1, <1>3, SeqEqual
<1> QED
  BY <1>1, <1>4, <1>5 DEF w, x, y

Packet == [proto : Byte, info : Seq(PlainByte)]

(* One byte of protocol is odd, and not the address field.                  *)
Fit(p, compressed) == compressed => p.proto % 2 = 1 /\ p.proto # PppAddr

(* A packet comes back out of its content and checksum.                     *)
LEMMA ContentBack ==
    ASSUME NEW p \in Packet, NEW compressed, Fit(p, compressed)
    PROVE  LET c == PppContent(p, compressed)
               s == c \o PppCheck(c)
           IN  /\ c \in Contents
               /\ s \in Seq(PppByte) /\ PacketOf(s) = p /\ PppSound(s)
<1> DEFINE c == PppContent(p, compressed)
           k == PppCheck(c)
           s == c \o k
           pre == IF compressed THEN <<Plain(p.proto)>>
                  ELSE <<Plain(PppAddr), Plain(PppCtrl), Plain(0), Plain(p.proto)>>
           n == IF compressed THEN 1 ELSE 4
           info == p.info
<1>1. p.proto \in Byte /\ info \in Seq(PlainByte) /\ p = [proto |-> p.proto, info |-> info]
  BY DEF Packet
<1>2. Plain(p.proto) \in PlainByte /\ Plain(PppAddr) \in PlainByte /\ Plain(PppCtrl) \in PlainByte
      /\ Plain(0) \in PlainByte
  <2>1. 0 \in Byte
    BY FramesAssumption DEF Byte
  <2> QED
    BY <1>1, <2>1, PppFramesAssumption, ByteIs
<1>3. pre \in Seq(PlainByte) /\ Len(pre) = n /\ n \in {1, 4} /\ pre[n] = Plain(p.proto)
  <2>1. CASE compressed
    BY <1>2, <2>1
  <2>2. CASE ~compressed
    BY <1>2, <2>2
  <2> QED
    BY <2>1, <2>2
<1>4. c = pre \o info
  BY DEF PppContent
<1>5. /\ c \in Seq(PlainByte) /\ Len(c) = n + Len(info) /\ Len(info) \in Nat
      /\ \A i \in 1 .. n : c[i] = pre[i]
      /\ SubSeq(c, n + 1, n + Len(info)) = info
  <2>1. pre \in Seq(PlainByte) /\ info \in Seq(PlainByte)
    BY <1>1, <1>3
  <2> HIDE DEF c, pre, n, info
  <2>2. /\ pre \o info \in Seq(PlainByte) /\ Len(pre \o info) = Len(pre) + Len(info)
        /\ \A i \in 1 .. Len(pre) : (pre \o info)[i] = pre[i]
        /\ SubSeq(pre \o info, Len(pre) + 1, Len(pre) + Len(info)) = info
    BY <2>1, Halves
  <2>3. Len(info) \in Nat
    BY <2>1
  <2> QED
    BY <1>3, <1>4, <2>2, <2>3
<1>6. c \in Contents /\ k \in Seq(PppByte) /\ Len(k) = 2
  <2>1. c \in Contents
    BY <1>5 DEF Contents
  <2>2. Len(PppCheck(c)) = 2
    BY DEF PppCheck
  <2> HIDE DEF c
  <2> QED
    BY <2>1, <2>2, EscapeCheck
<1>7. c \in Seq(PppByte)
  <2>1. PlainByte \subseteq PppByte
    BY DEF PppByte
  <2> HIDE DEF c
  <2> QED
    BY <1>5, <2>1
<1> HIDE DEF k
<1>8. /\ s \in Seq(PppByte) /\ Len(s) = Len(c) + 2
      /\ \A i \in 1 .. Len(c) : s[i] = c[i]
      /\ SubSeq(s, 1, Len(c)) = c
      /\ SubSeq(s, Len(c) + 1, Len(c) + 2) = k
  <2>1. c \in Seq(PppByte) /\ k \in Seq(PppByte)
    BY <1>6, <1>7
  <2> HIDE DEF c
  <2>2. /\ c \o k \in Seq(PppByte) /\ Len(c \o k) = Len(c) + Len(k)
        /\ \A i \in 1 .. Len(c) : (c \o k)[i] = c[i]
        /\ SubSeq(c \o k, 1, Len(c)) = c
        /\ SubSeq(c \o k, Len(c) + 1, Len(c) + Len(k)) = k
    BY <2>1, Halves
  <2> QED
    BY <1>6, <2>2
<1> HIDE DEF s
<1>9. (HasHeader(s) <=> ~compressed) /\ Ahead(s) = n
  <2>1. CASE compressed
    <3>1. s[1] = Plain(p.proto)
      <4>1. 1 \in 1 .. n /\ 1 \in 1 .. Len(c)
        <5> HIDE DEF c, n
        <5> QED
          BY <1>3, <1>5
      <4> HIDE DEF c
      <4> QED
        BY <1>5, <1>8, <2>1, <4>1
    <3>2. Plain(p.proto) # Plain(PppAddr) /\ Val(s[1]) % 2 = 1
      BY <2>1, <3>1 DEF Plain, Val, Fit
    <3>3. ~HasHeader(s)
      BY <3>1, <3>2 DEF HasHeader
    <3> QED
      BY <2>1, <3>2, <3>3 DEF Ahead
  <2>2. CASE ~compressed
    <3>1. s[1] = Plain(PppAddr) /\ s[2] = Plain(PppCtrl)
      <4>1. 1 \in 1 .. n /\ 1 \in 1 .. Len(c) /\ 2 \in 1 .. n /\ 2 \in 1 .. Len(c)
        <5>1. n = 4
          BY <2>2
        <5> HIDE DEF c, n
        <5> QED
          BY <1>5, <5>1
      <4>2. pre[1] = Plain(PppAddr) /\ pre[2] = Plain(PppCtrl)
        BY <2>2
      <4> HIDE DEF c, pre, n
      <4> QED
        BY <1>5, <1>8, <4>1, <4>2
    <3> QED
      BY <2>2, <3>1 DEF HasHeader, Ahead
  <2> QED
    BY <2>1, <2>2
<1>10. Val(s[n]) = p.proto
  <2>1. n \in 1 .. n /\ n \in 1 .. Len(c)
    <3> HIDE DEF c, n
    <3> QED
      BY <1>3, <1>5
  <2>2. s[n] = pre[n]
    <3> HIDE DEF c, pre, n
    <3> QED
      BY <1>5, <1>8, <2>1
  <2> QED
    BY <1>3, <2>2 DEF Val, Plain
<1>11. SubSeq(s, n + 1, Len(s) - 2) = info
  <2> DEFINE L == Len(c)
  <2>1. SubSeq(s, n + 1, L) = SubSeq(c, n + 1, L)
    <3> DEFINE x == SubSeq(s, n + 1, L)
               y == SubSeq(c, n + 1, L)
    <3>1. n \in Nat /\ L \in Nat /\ L >= n /\ Len(s) = L + 2
      <4> HIDE DEF c, n
      <4> QED
        BY <1>3, <1>5, <1>8
    <3>2. s \in Seq(PppByte) /\ c \in Seq(PppByte) /\ \A i \in 1 .. L : s[i] = c[i]
      BY <1>7, <1>8
    <3> HIDE DEF n, c, L
    <3>3. x \in Seq(PppByte) /\ y \in Seq(PppByte) /\ Len(x) = L - n /\ Len(y) = L - n
      BY <3>1, <3>2 DEF L
    <3>4. ASSUME NEW i \in 1 .. L - n PROVE x[i] = y[i]
      <4>1. n + i \in 1 .. L
        BY <3>1
      <4>2. x[i] = s[n + 1 + i - 1] /\ y[i] = c[n + 1 + i - 1] /\ n + 1 + i - 1 = n + i
        BY <3>1, <3>2 DEF L
      <4> QED
        BY <3>2, <4>1, <4>2
    <3> HIDE DEF x, y
    <3>5. x = y
      BY <3>1, <3>3, <3>4, SeqEqual
    <3> QED
      BY <3>5 DEF x, y
  <2>2. Len(s) - 2 = L /\ L = n + Len(info)
    <3> HIDE DEF c, n
    <3> QED
      BY <1>5, <1>8
  <2> HIDE DEF c, n
  <2> QED
    BY <1>5, <2>1, <2>2
<1>12. PacketOf(s) = p
  BY <1>1, <1>9, <1>10, <1>11 DEF PacketOf
<1>13. PppSound(s)
  <2>1. Len(s) >= 2 /\ (HasHeader(s) => Len(s) >= 6) /\ ~(Ahead(s) = 2)
    <3>1. Len(s) = n + Len(info) + 2 /\ (~compressed => n = 4)
      <4> HIDE DEF c
      <4> QED
        BY <1>5, <1>8
    <3> HIDE DEF n
    <3> QED
      BY <1>3, <1>5, <1>9, <3>1
  <2>2. Len(s) - 2 = Len(c) /\ Len(s) - 1 = Len(c) + 1 /\ Len(s) = Len(c) + 2
    <3>0. c \in Seq(PlainByte)
      BY <1>5
    <3> HIDE DEF c
    <3>1. Len(c) \in Nat
      BY <3>0
    <3> QED
      BY <1>8, <3>1
  <2>3. SubSeq(s, Len(s) - 1, Len(s)) = PppCheck(SubSeq(s, 1, Len(s) - 2))
    <3> HIDE DEF c
    <3> QED
      BY <1>8, <2>2 DEF k
  <2> QED
    BY <2>1, <2>3 DEF PppSound, LongEnough
<1> QED
  BY <1>6, <1>8, <1>12, <1>13 DEF s, k

(* The frame of a packet bears one mark, that of the packet.                *)
LEMMA MakePppFrameMarks ==
    ASSUME NEW p \in Packet, NEW compressed, Fit(p, compressed)
    PROVE  LET m == MakePppFrame(p, compressed) IN
           /\ m \in Seq(PppByte)
           /\ Within(MarksOf("packet", m), <<{p}>>)
<1> DEFINE c == PppContent(p, compressed)
           m == MakePppFrame(p, compressed)
           k == PppCheck(c)
           e == Escape(c)
           fl == <<Plain(PppFlag)>>
           pre == fl \o e
           none == <<>>
           y == <<{p}>>
<1>1. c \in Contents /\ PacketIn(c) = p
  BY ContentBack DEF PacketIn
<1>2. c \in Seq(PlainByte) /\ c \in Seq(PppByte)
  <2>1. c \in Seq(PlainByte)
    BY <1>1 DEF Contents
  <2>2. PlainByte \subseteq PppByte
    BY DEF PppByte
  <2> HIDE DEF c
  <2> QED
    BY <2>1, <2>2
<1>3. k \in Seq(PppByte) /\ Escape(k) = k
  <2> HIDE DEF c
  <2> QED
    BY <1>1, EscapeCheck
<1>4. e \in Seq(PlainByte) /\ Escape(c \o k) = e \o k
  <2> HIDE DEF c, k
  <2>1. e \in Seq(PlainByte)
    BY <1>2, EscapeType
  <2> QED
    BY <1>2, <1>3, <2>1, EscapeConcat
<1>5. m = (fl \o (e \o k)) \o fl
  BY <1>4 DEF MakePppFrame
<1>6. fl \in Seq(PlainByte)
  <2>1. Plain(PppFlag) \in PlainByte
    BY PppFramesAssumption, ByteIs
  <2> QED
    BY <2>1
<1>7. /\ k \in Seq(AnyByte) /\ Len(k) = 2
      /\ MarkOf("packet", k[1]) = {} /\ MarkOf("packet", k[2]) = {p}
  <2>1. \A b \in PppByte : b \in AnyByte
    BY PppByteIs
  <2>2. k = <<Check(0, <<c>>), Check(1, <<c>>)>>
    BY DEF PppCheck
  <2>3. k \in Seq(AnyByte)
    <3> HIDE DEF k
    <3> QED
      BY <1>3, <2>1
  <2>4. /\ k[1][1] = 0 /\ Len(k[2]) = 2 /\ k[2][1] = 1 /\ k[2][2] = <<c>>
        /\ Len(<<c>>) = 1 /\ <<c>>[1] = c /\ Len(k) = 2
    <3> HIDE DEF c
    <3> QED
      BY <2>2 DEF Check
  <2>5. p \in Label
    <3>1. Byte \subseteq Int
      BY ByteIs
    <3> QED
      BY <3>1 DEF Packet, Label
  <2> HIDE DEF k, c
  <2>6. PackMark(k[1]) = {}
    BY <2>4 DEF PackMark
  <2>7. PackMark(k[2]) = {p}
    BY <1>1, <2>4, <2>5 DEF PackMark
  <2> QED
    BY <2>3, <2>4, <2>6, <2>7 DEF MarkOf
<1>8. y \in Seq(Mark) /\ none \in Seq(Mark)
  <2>1. {p} \in Mark
    <3>1. Byte \subseteq Int
      BY ByteIs
    <3> QED
      BY <3>1 DEF Packet, Label, Mark
  <2> QED
    BY <2>1
<1> HIDE DEF c, m, k, e, fl, none, y
<1>9. pre \in Seq(PlainByte) /\ pre \in Seq(AnyByte) /\ fl \in Seq(AnyByte)
  <2>1. \A b \in PlainByte : b \in AnyByte
    BY ByteIs
  <2>2. pre \in Seq(PlainByte)
    BY <1>4, <1>6
  <2> HIDE DEF pre
  <2> QED
    BY <1>6, <2>1, <2>2
<1>10. m = (pre \o k) \o fl
  <2>1. fl \in Seq(AnyByte) /\ k \in Seq(AnyByte) /\ e \in Seq(AnyByte)
    <3>1. \A b \in PlainByte : b \in AnyByte
      BY ByteIs
    <3> QED
      BY <1>4, <1>7, <1>9, <3>1
  <2>2. (fl \o e) \o k = fl \o (e \o k)
    BY <2>1, Regroup
  <2> QED
    BY <1>5, <2>2
<1>11. m \in Seq(PppByte)
  <2>1. PlainByte \subseteq PppByte
    BY DEF PppByte
  <2>2. pre \in Seq(PppByte) /\ fl \in Seq(PppByte)
    <3> HIDE DEF pre
    <3> QED
      BY <1>6, <1>9, <2>1
  <2> HIDE DEF pre
  <2> QED
    BY <1>3, <1>10, <2>2
<1> DEFINE M(x) == MarksOf("packet", x)
<1>12. M(m) = (M(pre) \o M(k)) \o M(fl)
  <2>1. pre \o k \in Seq(AnyByte)
    <3> HIDE DEF pre
    <3> QED
      BY <1>7, <1>9
  <2> HIDE DEF pre
  <2>2. M(pre \o k) = M(pre) \o M(k)
    BY <1>7, <1>9, MarksConcat
  <2>3. M((pre \o k) \o fl) = M(pre \o k) \o M(fl)
    BY <1>9, <2>1, MarksConcat
  <2> QED
    BY <1>10, <2>2, <2>3
<1>13. M(pre) \in Seq(Mark) /\ M(k) \in Seq(Mark) /\ M(fl) \in Seq(Mark)
  BY <1>7, <1>9, MarksType
<1>14. Within(M(pre), none) /\ Within(M(fl), none)
  <2>1. \A b \in PlainByte : MarkOf("packet", b) = {}
    BY MarkIs
  <2>2. \A i \in 1 .. Len(pre) : MarkOf("packet", pre[i]) = {}
    BY <1>9, <2>1
  <2>3. \A i \in 1 .. Len(fl) : MarkOf("packet", fl[i]) = {}
    BY <1>6, <2>1
  <2> QED
    BY <1>9, <2>2, <2>3, MarksBlank
<1>15. Within(M(k), y)
  <2>1. M(k) \in Seq(Mark) /\ Len(M(k)) = Len(k) /\ \A i \in 1 .. Len(k) : M(k)[i] = MarkOf("packet", k[i])
    BY <1>7, MarksType
  <2> DEFINE z == M(k)
  <2> HIDE DEF M
  <2>2. z \in Seq(Mark) /\ (\A i \in 1 .. Len(z) : i # 2 => z[i] = {}) /\ z[2] = {p}
    BY <1>7, <2>1
  <2>3. 2 \in Int
    OBVIOUS
  <2> HIDE DEF z
  <2>4. Within(z, <<{p}>>)
    BY <2>2, <2>3, WithinOne
  <2> QED
    BY <2>4 DEF z, y
<1> HIDE DEF M
<1>16. Within(M(m), y)
  <2>1. Within(M(pre) \o M(k), none \o y)
    BY <1>8, <1>13, <1>14, <1>15, WithinConcat
  <2>2. none \o y = y /\ y \o none = y /\ M(pre) \o M(k) \in Seq(Mark)
    BY <1>8, <1>13, Regroup DEF none
  <2>3. Within((M(pre) \o M(k)) \o M(fl), y \o none)
    BY <1>8, <1>13, <1>14, <2>1, <2>2, WithinConcat
  <2> QED
    BY <1>12, <2>2, <2>3
<1> QED
  BY <1>11, <1>16 DEF m, M, y

-----------------------------------------------------------------------------
(* ppp_unescape()                                                           *)

Escaped(s, i) == s[i] = Plain(PppEsc) /\ i < Len(s)
Literal(s, i) == IF Escaped(s, i) THEN Plain(Flip(Val(s[i + 1]))) ELSE s[i]
After(s, i) == IF Escaped(s, i) THEN i + 2 ELSE i + 1

UnescapeFrom(s, f, i) ==
    IF i > Len(s) THEN <<>> ELSE <<Literal(s, i)>> \o f[After(s, i)]

Unescapes(f, s) == f = [i \in 1 .. Len(s) + 1 |-> UnescapeFrom(s, f, i)]

LEMMA LiteralIs ==
    ASSUME NEW s \in Seq(AnyByte), NEW i \in 1 .. Len(s)
    PROVE  /\ Literal(s, i) \in AnyByte /\ After(s, i) \in i + 1 .. Len(s) + 1
           /\ (Literal(s, i) = s[i] /\ After(s, i) = i + 1) \/ Literal(s, i) \in PlainByte
<1>0. Len(s) \in Nat /\ \A j \in 1 .. Len(s) : s[j] \in AnyByte
  OBVIOUS
<1>1. CASE Escaped(s, i)
  <2>1. i + 1 \in 1 .. Len(s) /\ i + 2 \in i + 1 .. Len(s) + 1
    BY <1>0, <1>1 DEF Escaped
  <2>2. Val(s[i + 1]) \in Byte
    BY <1>0, <2>1, ByteIs
  <2>3. Plain(Flip(Val(s[i + 1]))) \in PlainByte
    BY <2>2, FlipIs, ByteIs
  <2> QED
    BY <1>1, <2>1, <2>3, ByteIs DEF Literal, After
<1>2. CASE ~Escaped(s, i)
  <2>1. i + 1 \in i + 1 .. Len(s) + 1
    BY <1>0
  <2> QED
    BY <1>0, <1>2, <2>1 DEF Literal, After
<1> QED
  BY <1>1, <1>2

LEMMA UnescapesExists ==
    ASSUME NEW s \in Seq(AnyByte)
    PROVE  \E f : Unescapes(f, s)
<1> DEFINE n == Len(s) + 1
           T == Seq(AnyByte)
           go == 1 .. Len(s)
           next == [i \in 1 .. n |-> IF i \in go THEN After(s, i) ELSE 0]
           base == [i \in 1 .. n |-> <<>>]
           with(i, x) == IF i \in go THEN <<Literal(s, i)>> \o x ELSE <<>>
           step == [y \in (1 .. n) \X T |-> with(y[1], y[2])]
<1>0. n \in Nat /\ Len(s) \in Nat /\ n = Len(s) + 1 /\ \A i \in 1 .. n : i \in go <=> ~(i > Len(s))
  OBVIOUS
<1>1. \A i \in go : Literal(s, i) \in AnyByte /\ After(s, i) \in i + 1 .. n
  BY LiteralIs
<1>2. <<>> \in T
  OBVIOUS
<1>3. ASSUME NEW i \in 1 .. n, NEW x \in T PROVE with(i, x) \in T
  <2>1. CASE i \in go
    <3>1. Literal(s, i) \in AnyByte
      BY <1>1, <2>1
    <3>2. <<Literal(s, i)>> \o x \in T
      BY <3>1
    <3> QED
      BY <2>1, <3>2
  <2>2. CASE i \notin go
    BY <1>2, <2>2
  <2> QED
    BY <2>1, <2>2
<1> HIDE DEF go, T
<1>4. next \in [1 .. n -> Int] /\ \A i \in 1 .. n : i \in go => next[i] = After(s, i)
  BY <1>0, <1>1
<1>5. base \in [1 .. n -> T] /\ \A i \in 1 .. n : base[i] = <<>>
  BY <1>2
<1>6. /\ step \in [(1 .. n) \X T -> T]
      /\ \A i \in 1 .. n : \A x \in T : step[<<i, x>>] = with(i, x)
  <2>1. \A i \in 1 .. n : \A x \in T : <<i, x>> \in (1 .. n) \X T
    OBVIOUS
  <2>2. \A y \in (1 .. n) \X T : with(y[1], y[2]) \in T
    <3> HIDE DEF with
    <3> QED
      BY <1>3
  <2> HIDE DEF with
  <2> QED
    BY <2>1, <2>2
<1> HIDE DEF n, next, base, step
<1>7. PICK f \in [1 .. n -> T] : \A i \in 1 .. n :
          f[i] = IF i \in go THEN step[<<i, f[next[i]]>>] ELSE base[i]
  <2>1. Descends(n, T, go, next, base, step)
    BY <1>0, <1>1, <1>4, <1>5, <1>6 DEF Descends
  <2> QED
    BY <2>1, RecursionDown DEF Solves
<1>8. ASSUME NEW i \in 1 .. n PROVE f[i] = UnescapeFrom(s, f, i)
  <2>1. CASE i \in go
    <3>1. next[i] = After(s, i) /\ After(s, i) \in 1 .. n
      BY <1>0, <1>1, <1>4, <2>1
    <3>2. f[After(s, i)] \in T
      BY <3>1
    <3>3. f[i] = with(i, f[After(s, i)])
      <4> HIDE DEF with
      <4> QED
        BY <1>6, <1>7, <2>1, <3>1, <3>2
    <3> QED
      BY <1>0, <2>1, <3>3 DEF UnescapeFrom
  <2>2. CASE i \notin go
    BY <1>0, <1>5, <1>7, <2>2 DEF UnescapeFrom
  <2> QED
    BY <2>1, <2>2
<1>9. f = [i \in 1 .. n |-> f[i]]
  OBVIOUS
<1>10. Unescapes(f, s)
  BY <1>8, <1>9 DEF Unescapes, n
<1> QED
  BY <1>10

LEMMA UnescapeIs ==
    ASSUME NEW s \in Seq(AnyByte)
    PROVE  \E f : /\ \A i \in 1 .. Len(s) + 1 : f[i] = UnescapeFrom(s, f, i)
                  /\ Unescape(s) = f[1]
<1> DEFINE F == CHOOSE f : Unescapes(f, s)
           G == [i \in 1 .. Len(s) + 1 |-> UnescapeFrom(s, F, i)]
           from(f, i) ==
               IF i > Len(s) THEN <<>>
               ELSE IF s[i] = Plain(PppEsc) /\ i < Len(s)
                    THEN <<Plain(Flip(Val(s[i + 1])))>> \o f[i + 2]
                    ELSE <<s[i]>> \o f[i + 1]
<1>1. Unescapes(F, s)
  BY UnescapesExists
<1>2. \A f, i : from(f, i) = UnescapeFrom(s, f, i)
  BY DEF UnescapeFrom, Literal, After, Escaped
<1>3. Unescape(s) = F[1]
  <2>1. Unescape(s) = (CHOOSE f : f = [i \in 1 .. Len(s) + 1 |-> from(f, i)])[1]
    BY DEF Unescape
  <2> HIDE DEF from
  <2>2. \A f : [i \in 1 .. Len(s) + 1 |-> from(f, i)] = [i \in 1 .. Len(s) + 1 |-> UnescapeFrom(s, f, i)]
    BY <1>2
  <2>3. (CHOOSE f : f = [i \in 1 .. Len(s) + 1 |-> from(f, i)]) = F
    BY <2>2 DEF Unescapes
  <2> QED
    BY <2>1, <2>3
<1> HIDE DEF F
<1>4. F = G
  BY <1>1 DEF Unescapes
<1>5. \A i \in 1 .. Len(s) + 1 : G[i] = UnescapeFrom(s, F, i)
  OBVIOUS
<1> HIDE DEF G
<1> QED
  BY <1>3, <1>4, <1>5

(* The last byte is the last of the input, unless stuffing altered it.      *)
LEMMA UnescapeLast ==
    ASSUME NEW s \in Seq(AnyByte)
    PROVE  LET u == Unescape(s) IN
           /\ u \in Seq(AnyByte)
           /\ u # <<>> => s # <<>> /\ (u[Len(u)] = s[Len(s)] \/ u[Len(u)] \in PlainByte)
<1> DEFINE n == Len(s) + 1
           End(x) == x[Len(x)] = s[Len(s)] \/ x[Len(x)] \in PlainByte
<1>0. Len(s) \in Nat /\ n \in Nat /\ n = Len(s) + 1 /\ 1 \in 1 .. n
  OBVIOUS
<1>1. PICK f : (\A i \in 1 .. n : f[i] = UnescapeFrom(s, f, i)) /\ Unescape(s) = f[1]
  BY UnescapeIs
<1> DEFINE P == {i \in 1 .. n : /\ f[i] \in Seq(AnyByte)
                                /\ i < n => f[i] # <<>> /\ End(f[i])
                                /\ i = n => f[i] = <<>>}
<1>2. ASSUME NEW i \in 1 .. n, i + 1 .. n \subseteq P PROVE i \in P
  <2>1. CASE i = n
    <3>1. i > Len(s) /\ ~(i < n)
      BY <1>0, <2>1
    <3>2. f[i] = <<>>
      BY <1>1, <3>1 DEF UnescapeFrom
    <3>3. f[i] \in Seq(AnyByte)
      BY <3>2
    <3> HIDE DEF n, End
    <3> QED
      BY <2>1, <3>1, <3>2, <3>3
  <2>2. CASE i # n
    <3> DEFINE a == After(s, i)
               b == Literal(s, i)
               t == f[a]
               x == <<b>> \o t
    <3>1. i \in 1 .. Len(s) /\ ~(i > Len(s)) /\ i < n
      BY <1>0, <2>2
    <3>2. f[i] = x
      BY <1>1, <3>1 DEF UnescapeFrom
    <3>3. b \in AnyByte /\ a \in i + 1 .. n /\ ((b = s[i] /\ a = i + 1) \/ b \in PlainByte)
      BY <3>1, LiteralIs
    <3>4. a \in P
      <4> HIDE DEF P
      <4> QED
        BY <1>2, <3>3
    <3>5. t \in Seq(AnyByte) /\ (a < n => t # <<>> /\ End(t)) /\ (a = n => t = <<>>) /\ (a < n \/ a = n)
      BY <1>0, <3>3, <3>4
    <3> HIDE DEF a, b, t, n
    <3>6. /\ x \in Seq(AnyByte) /\ x # <<>> /\ Len(x) = Len(t) + 1 /\ Len(t) \in Nat
          /\ x[1] = b /\ \A j \in 1 .. Len(t) : x[j + 1] = t[j]
      BY <3>3, <3>5
    <3> HIDE DEF x
    <3>7. End(x)
      <4>1. CASE a = n
        <5>1. t = <<>> /\ Len(t) = 0 /\ Len(x) = 1
          BY <3>5, <3>6, <4>1
        <5>2. b = s[i] /\ a = i + 1 => i = Len(s)
          BY <1>0, <3>1, <4>1
        <5> QED
          BY <3>3, <3>6, <5>1, <5>2
      <4>2. CASE a < n
        <5>1. t # <<>> /\ End(t)
          BY <3>5, <4>2
        <5>2. Len(t) \in 1 .. Len(t)
          BY <3>5, <3>6, <5>1
        <5>3. x[Len(x)] = t[Len(t)]
          BY <3>6, <5>2
        <5> QED
          BY <5>1, <5>3
      <4> QED
        BY <3>5, <4>1, <4>2
    <3> HIDE DEF End
    <3> QED
      BY <2>2, <3>2, <3>6, <3>7
  <2> QED
    BY <2>1, <2>2
<1>3. 1 .. n \subseteq P
  <2> HIDE DEF P, n
  <2> QED
    BY <1>0, <1>2, Downward
<1>4. 1 \in P
  <2> HIDE DEF P
  <2> QED
    BY <1>0, <1>3
<1>5. f[1] \in Seq(AnyByte) /\ (f[1] # <<>> => 1 < n /\ End(f[1]))
  BY <1>0, <1>4
<1>6. 1 < n => s # <<>>
  BY <1>0
<1> QED
  BY <1>1, <1>5, <1>6

-----------------------------------------------------------------------------
(* PppParser                                                                *)

PppResults == [buffer : Seq(AnyByte), packets : Seq(Packet)]

(* A body that is accepted ends with the checksum of the packet it is.      *)
LEMMA SoundPacket ==
    ASSUME NEW s \in Seq(AnyByte), PppSound(s)
    PROVE  /\ PacketOf(s) \in Packet
           /\ s # <<>> /\ s[Len(s)] \notin PlainByte
           /\ MarkOf("packet", s[Len(s)]) = {PacketOf(s)}
<1> DEFINE n == Len(s)
           c == SubSeq(s, 1, n - 2)
           k == PppCheck(c)
           a == Ahead(s)
<1>0. n \in Nat /\ n >= 2 /\ \A i \in 1 .. n : s[i] \in AnyByte
  BY DEF PppSound, LongEnough
<1>1. SubSeq(s, n - 1, n) = k
  BY DEF PppSound
<1>2. a \in 1 .. n
  <2>1. /\ HasHeader(s) => n >= 6 /\ a = 4
        /\ ~HasHeader(s) => a \in {1, 2}
    BY DEF PppSound, LongEnough, Ahead
  <2> HIDE DEF n, a
  <2>2. CASE HasHeader(s)
    BY <1>0, <2>1, <2>2
  <2>3. CASE ~HasHeader(s)
    BY <1>0, <2>1, <2>3
  <2> QED
    BY <2>2, <2>3
<1>3. k = <<Check(0, <<c>>), Check(1, <<c>>)>>
  BY DEF PppCheck
<1>4. /\ c \in Seq(AnyByte) /\ Len(c) = n - 2 /\ \A i \in 1 .. n - 2 : c[i] = s[i]
      /\ SubSeq(s, n - 1, n)[2] = s[n]
  <2> HIDE DEF n
  <2> QED
    BY <1>0
<1>5. s[n] = Check(1, <<c>>)
  BY <1>1, <1>3, <1>4
<1>6. s = c \o k
  <2>1. 1 \in 1 .. n + 1 /\ n - 2 \in 1 - 1 .. n /\ n \in n - 2 .. n /\ (n - 2) + 1 = n - 1
    <3> HIDE DEF n
    <3> QED
      BY <1>0
  <2>2. SubSeq(s, 1, n - 2) \o SubSeq(s, (n - 2) + 1, n) = SubSeq(s, 1, n)
    BY <2>1, ConcatAdjacentSubSeq
  <2>3. SubSeq(s, 1, n) = s
    BY SubSeqFull
  <2> HIDE DEF k
  <2> QED
    BY <1>1, <2>1, <2>2, <2>3
<1> HIDE DEF n, c, k, a
<1>7. c \in Contents
  <2>1. Check(1, <<c>>) \in AnyByte
    BY <1>0, <1>5
  <2>2. \A b \in PlainByte : Len(b) = 1
    BY ByteIs
  <2>3. Check(1, <<c>>) = <<1, <<c>>>> /\ Len(<<1, <<c>>>>) = 2
    BY DEF Check
  <2>4. Check(1, <<c>>) \notin PlainByte
    BY <2>2, <2>3, SMTT(20)
  <2>5. \A h \in Headers : h # <<c>>
    <3>1. Len(<<c>>) = 1 /\ 1 \notin {3, 4}
      OBVIOUS
    <3> QED
      BY <3>1 DEF Headers
  <2>6. \A v, h : Check(v, h) = Check(1, <<c>>) => h = <<c>>
    BY DEF Check
  <2>7. PICK v \in Byte, d \in Contents : Check(1, <<c>>) = Check(v, <<d>>)
    BY <2>1, <2>4, <2>5, <2>6 DEF AnyByte
  <2>8. <<d>> = <<c>>
    BY <2>6, <2>7
  <2>9. d = c
    BY <2>8
  <2> QED
    BY <2>9
<1>8. PacketOf(s) \in Packet
  <2>1. Val(s[a]) \in Byte
    BY <1>0, <1>2, ByteIs
  <2>2. SubSeq(s, a + 1, n - 2) \in Seq(PlainByte)
    <3>1. ASSUME NEW i \in a + 1 .. n - 2 PROVE s[i] \in PlainByte
      <4>1. i \in 1 .. n - 2 /\ c \in Seq(PlainByte)
        BY <1>0, <1>2, <1>7 DEF Contents
      <4> QED
        BY <1>4, <4>1
    <3>2. a + 1 \in Int /\ n - 2 \in Int
      BY <1>0, <1>2
    <3> QED
      BY <3>1, <3>2, SubSeqProperties
  <2> QED
    BY <2>1, <2>2 DEF PacketOf, Packet, a, n
<1>9. PacketIn(c) = PacketOf(s)
  BY <1>6 DEF PacketIn, k
<1>10. MarkOf("packet", s[n]) = {PacketOf(s)}
  <2>1. PacketOf(s) \in Label
    <3>1. Byte \subseteq Int
      BY ByteIs
    <3> QED
      BY <1>8, <3>1 DEF Packet, Label
  <2>2. /\ Len(s[n]) = 2 /\ s[n][1] = 1 /\ s[n][2] = <<c>>
        /\ Len(<<c>>) = 1 /\ <<c>>[1] = c
    BY <1>5 DEF Check
  <2>3. PackMark(s[n]) = {PacketOf(s)}
    BY <1>9, <2>1, <2>2 DEF PackMark
  <2> QED
    BY <2>3 DEF MarkOf
<1>11. s[n] \notin PlainByte
  <2>1. MarkOf("packet", s[n]) # {}
    BY <1>10
  <2> QED
    BY <2>1, MarkIs
<1>12. s # <<>>
  BY <1>0 DEF n
<1> QED
  BY <1>8, <1>10, <1>11, <1>12 DEF n

FlagsAt(buf, i) == {k \in i .. Len(buf) : buf[k] = Plain(PppFlag)}
First(buf, i) == Min(FlagsAt(buf, i))
Second(buf, i) == Min(FlagsAt(buf, i) \ {First(buf, i)})
Inner(buf, i) == SubSeq(buf, First(buf, i) + 1, Second(buf, i) - 1)
Body(buf, i) == Unescape(Inner(buf, i))
Paired(buf, i) == FlagsAt(buf, i) # {} /\ FlagsAt(buf, i) # {First(buf, i)}

PppFrom(buf, f, i) ==
    IF FlagsAt(buf, i) = {} THEN [buffer |-> <<>>, packets |-> <<>>]
    ELSE IF FlagsAt(buf, i) = {First(buf, i)}
    THEN [buffer |-> SubSeq(buf, First(buf, i), Len(buf)), packets |-> <<>>]
    ELSE IF ~PppSound(Body(buf, i)) THEN f[Second(buf, i) + 1]
    ELSE [buffer |-> f[Second(buf, i) + 1].buffer,
          packets |-> <<PacketOf(Body(buf, i))>> \o f[Second(buf, i) + 1].packets]

PppParses(f, buf) == f = [i \in 1 .. Len(buf) + 1 |-> PppFrom(buf, f, i)]

LEMMA PairIs ==
    ASSUME NEW buf \in Seq(AnyByte), NEW i \in 1 .. Len(buf) + 1, FlagsAt(buf, i) # {}
    PROVE  /\ First(buf, i) \in i .. Len(buf) /\ buf[First(buf, i)] = Plain(PppFlag)
           /\ Paired(buf, i) =>
                  /\ Second(buf, i) \in First(buf, i) + 1 .. Len(buf)
                  /\ Inner(buf, i) \in Seq(AnyByte) /\ Body(buf, i) \in Seq(AnyByte)
                  /\ PppSound(Body(buf, i)) =>
                         /\ PacketOf(Body(buf, i)) \in Packet
                         /\ Second(buf, i) - 1 \in First(buf, i) + 1 .. Len(buf)
                         /\ MarkOf("packet", buf[Second(buf, i) - 1]) = {PacketOf(Body(buf, i))}
<1> DEFINE T == FlagsAt(buf, i)
           a == First(buf, i)
           b == Second(buf, i)
           U == T \ {a}
           s == Inner(buf, i)
           u == Body(buf, i)
<1>0. Len(buf) \in Nat
  OBVIOUS
<1>1. T \in SUBSET (i .. Len(buf)) /\ T \in SUBSET Nat /\ T # {}
  BY <1>0 DEF FlagsAt
<1>2. \A k \in T : buf[k] = Plain(PppFlag)
  BY DEF FlagsAt
<1>3. a = Min(T) /\ b = Min(U) /\ s = SubSeq(buf, a + 1, b - 1) /\ u = Unescape(s)
      /\ (Paired(buf, i) <=> T # {} /\ T # {a})
  BY DEF First, Second, Inner, Body, Paired
<1> HIDE DEF T, a, b, s, u
<1>4. a \in T /\ \A k \in T : a <= k
  BY <1>1, <1>3, MinIs
<1>5. a \in i .. Len(buf) /\ buf[a] = Plain(PppFlag)
  BY <1>1, <1>2, <1>4
<1>6. ASSUME Paired(buf, i)
      PROVE  /\ b \in a + 1 .. Len(buf) /\ s \in Seq(AnyByte) /\ u \in Seq(AnyByte)
             /\ PppSound(u) =>
                    /\ PacketOf(u) \in Packet
                    /\ b - 1 \in a + 1 .. Len(buf)
                    /\ MarkOf("packet", buf[b - 1]) = {PacketOf(u)}
  <2>1. U \in SUBSET Nat /\ U # {}
    BY <1>1, <1>3, <1>6
  <2>2. b \in U
    <3> HIDE DEF U
    <3> QED
      BY <1>3, <2>1, MinIs
  <2>3. b \in a + 1 .. Len(buf)
    BY <1>0, <1>1, <1>4, <1>5, <2>2
  <2>4. /\ s \in Seq(AnyByte) /\ Len(s) = b - a - 1
        /\ \A j \in 1 .. b - a - 1 : s[j] = buf[a + j]
    <3>1. /\ s \in Seq(AnyByte) /\ Len(s) = b - a - 1
          /\ \A j \in 1 .. b - a - 1 : s[j] = buf[(a + 1) + j - 1]
      <4> DEFINE p == a + 1
                 q == b - 1
                 m == b - a - 1
      <4>1. p \in 1 .. Len(buf) + 1 /\ q \in p - 1 .. Len(buf) /\ q - p + 1 = m
        BY <1>0, <1>5, <2>3
      <4>2. s = SubSeq(buf, p, q)
        BY <1>3
      <4> HIDE DEF p, q, m
      <4>3. s \in Seq(AnyByte) /\ Len(s) = m /\ \A j \in 1 .. m : s[j] = buf[p + j - 1]
        BY <1>0, <4>1, <4>2
      <4> QED
        BY <4>3 DEF p, m
    <3>2. \A j \in 1 .. b - a - 1 : (a + 1) + j - 1 = a + j
      BY <1>0, <1>5, <2>3
    <3> QED
      BY <3>1, <3>2
  <2>5. /\ u \in Seq(AnyByte)
        /\ u # <<>> => s # <<>> /\ (u[Len(u)] = s[Len(s)] \/ u[Len(u)] \in PlainByte)
    BY <1>3, <2>4, UnescapeLast
  <2>6. ASSUME PppSound(u)
        PROVE  /\ PacketOf(u) \in Packet
               /\ b - 1 \in a + 1 .. Len(buf)
               /\ MarkOf("packet", buf[b - 1]) = {PacketOf(u)}
    <3>1. /\ PacketOf(u) \in Packet /\ u # <<>> /\ u[Len(u)] \notin PlainByte
          /\ MarkOf("packet", u[Len(u)]) = {PacketOf(u)}
      BY <2>5, <2>6, SoundPacket
    <3>2. s # <<>> /\ u[Len(u)] = s[Len(s)]
      BY <2>5, <3>1
    <3>3. Len(s) \in 1 .. b - a - 1 /\ a + Len(s) = b - 1 /\ b - 1 \in a + 1 .. Len(buf)
      <4>1. Len(s) > 0
        BY <2>4, <3>2
      <4> QED
        BY <1>0, <1>5, <2>3, <2>4, <4>1
    <3>4. s[Len(s)] = buf[b - 1]
      BY <2>4, <3>3
    <3> QED
      BY <3>1, <3>2, <3>3, <3>4
  <2> QED
    BY <2>3, <2>4, <2>5, <2>6
<1> QED
  BY <1>5, <1>6 DEF T, a, b, s, u

LEMMA PppParsesExists ==
    ASSUME NEW buf \in Seq(AnyByte)
    PROVE  \E f : PppParses(f, buf)
<1> DEFINE n == Len(buf) + 1
           T == PppResults
           go == {i \in 1 .. n : Paired(buf, i)}
           e(i) == Second(buf, i) + 1
           next == [i \in 1 .. n |-> IF i \in go THEN e(i) ELSE 0]
           stop(i) == IF FlagsAt(buf, i) = {} THEN [buffer |-> <<>>, packets |-> <<>>]
                      ELSE [buffer |-> SubSeq(buf, First(buf, i), Len(buf)), packets |-> <<>>]
           base == [i \in 1 .. n |-> stop(i)]
           with(i, x) == IF i \in go /\ PppSound(Body(buf, i))
                         THEN [buffer |-> x.buffer, packets |-> <<PacketOf(Body(buf, i))>> \o x.packets]
                         ELSE x
           step == [y \in (1 .. n) \X T |-> with(y[1], y[2])]
<1>0. n \in Nat /\ Len(buf) \in Nat /\ n = Len(buf) + 1
  OBVIOUS
<1>1. ASSUME NEW i \in go
      PROVE  /\ e(i) \in i + 1 .. n
             /\ PppSound(Body(buf, i)) => PacketOf(Body(buf, i)) \in Packet
  <2>1. i \in 1 .. Len(buf) + 1 /\ Paired(buf, i) /\ FlagsAt(buf, i) # {}
    BY DEF Paired
  <2>2. /\ First(buf, i) \in i .. Len(buf) /\ Second(buf, i) \in First(buf, i) + 1 .. Len(buf)
        /\ PppSound(Body(buf, i)) => PacketOf(Body(buf, i)) \in Packet
    BY <2>1, PairIs
  <2> QED
    BY <1>0, <2>1, <2>2
<1>2. ASSUME NEW i \in 1 .. n PROVE stop(i) \in T
  <2>1. <<>> \in Seq(AnyByte) /\ <<>> \in Seq(Packet)
    OBVIOUS
  <2>2. CASE FlagsAt(buf, i) = {}
    BY <2>1, <2>2 DEF PppResults
  <2>3. CASE FlagsAt(buf, i) # {}
    <3>1. First(buf, i) \in i .. Len(buf)
      BY <2>3, PairIs
    <3>2. SubSeq(buf, First(buf, i), Len(buf)) \in Seq(AnyByte)
      BY <1>0, <3>1
    <3> QED
      BY <2>1, <2>3, <3>2 DEF PppResults
  <2> QED
    BY <2>2, <2>3
<1> HIDE DEF go, stop
<1>3. next \in [1 .. n -> Int] /\ \A i \in 1 .. n : i \in go => next[i] = e(i)
  <2> HIDE DEF e
  <2> QED
    BY <1>0, <1>1
<1>4. base \in [1 .. n -> T] /\ \A i \in 1 .. n : base[i] = stop(i)
  BY <1>2
<1>5. ASSUME NEW i \in 1 .. n, NEW x \in T PROVE with(i, x) \in T
  <2>1. CASE i \in go /\ PppSound(Body(buf, i))
    <3>1. PacketOf(Body(buf, i)) \in Packet /\ x.packets \in Seq(Packet) /\ x.buffer \in Seq(AnyByte)
      BY <1>1, <2>1 DEF PppResults
    <3>2. <<PacketOf(Body(buf, i))>> \o x.packets \in Seq(Packet)
      BY <3>1
    <3> QED
      BY <2>1, <3>1, <3>2 DEF PppResults
  <2>2. CASE ~(i \in go /\ PppSound(Body(buf, i)))
    BY <2>2
  <2> QED
    BY <2>1, <2>2
<1> HIDE DEF T
<1>6. /\ step \in [(1 .. n) \X T -> T]
      /\ \A i \in 1 .. n : \A x \in T : step[<<i, x>>] = with(i, x)
  <2>1. \A i \in 1 .. n : \A x \in T : <<i, x>> \in (1 .. n) \X T
    OBVIOUS
  <2>2. \A y \in (1 .. n) \X T : with(y[1], y[2]) \in T
    <3> HIDE DEF with
    <3> QED
      BY <1>5
  <2> HIDE DEF with
  <2> QED
    BY <2>1, <2>2
<1> HIDE DEF n, next, base, step, with, e
<1>7. PICK f \in [1 .. n -> T] : \A i \in 1 .. n :
          f[i] = IF i \in go THEN step[<<i, f[next[i]]>>] ELSE base[i]
  <2>1. \A i \in 1 .. n : i \in go => next[i] \in i + 1 .. n
    BY <1>1, <1>3
  <2>2. Descends(n, T, go, next, base, step)
    BY <1>0, <1>3, <1>4, <1>6, <2>1 DEF Descends
  <2> QED
    BY <2>2, RecursionDown DEF Solves
<1>8. ASSUME NEW i \in 1 .. n PROVE f[i] = PppFrom(buf, f, i)
  <2>1. CASE i \in go
    <3>1. next[i] = e(i) /\ e(i) \in 1 .. n
      BY <1>0, <1>1, <1>3, <2>1
    <3>2. f[e(i)] \in T
      BY <3>1
    <3>3. f[i] = with(i, f[e(i)])
      BY <1>6, <1>7, <2>1, <3>1, <3>2
    <3>4. FlagsAt(buf, i) # {} /\ FlagsAt(buf, i) # {First(buf, i)}
      BY <2>1 DEF go, Paired
    <3> QED
      BY <2>1, <3>3, <3>4 DEF PppFrom, with, e
  <2>2. CASE i \notin go
    <3>1. f[i] = stop(i)
      BY <1>4, <1>7, <2>2
    <3>2. ~(FlagsAt(buf, i) # {} /\ FlagsAt(buf, i) # {First(buf, i)})
      BY <2>2 DEF go, Paired
    <3> QED
      BY <3>1, <3>2 DEF PppFrom, stop
  <2> QED
    BY <2>1, <2>2
<1>9. f = [i \in 1 .. n |-> f[i]]
  OBVIOUS
<1>10. PppParses(f, buf)
  BY <1>8, <1>9 DEF PppParses, n
<1> QED
  BY <1>10

LEMMA PppParseIs ==
    ASSUME NEW buf \in Seq(AnyByte)
    PROVE  \E f : /\ \A i \in 1 .. Len(buf) + 1 : f[i] = PppFrom(buf, f, i)
                  /\ PppParse(buf) = f[1]
<1> DEFINE F == CHOOSE f : PppParses(f, buf)
           G == [i \in 1 .. Len(buf) + 1 |-> PppFrom(buf, F, i)]
<1>1. PppParses(F, buf)
  BY PppParsesExists
<1>2. PppParse(buf) = F[1]
  BY DEF PppParse, PppParses, PppFrom, Body, Inner, Second, First, FlagsAt
<1> HIDE DEF F
<1>3. F = G
  BY <1>1 DEF PppParses
<1>4. \A i \in 1 .. Len(buf) + 1 : G[i] = PppFrom(buf, F, i)
  OBVIOUS
<1> HIDE DEF G
<1> QED
  BY <1>2, <1>3, <1>4

(* Messages as the marks that stand for them.                               *)
Labels(q) == [i \in DOMAIN q |-> {q[i]}]

LEMMA LabelsType ==
    ASSUME NEW q \in Seq(Label)
    PROVE  /\ Labels(q) \in Seq(Mark) /\ Len(Labels(q)) = Len(q)
           /\ \A i \in 1 .. Len(q) : Labels(q)[i] = {q[i]}
<1>1. DOMAIN q = 1 .. Len(q) /\ Len(q) \in Nat /\ \A i \in 1 .. Len(q) : {q[i]} \in Mark
  BY DEF Mark
<1>2. Labels(q) = [i \in 1 .. Len(q) |-> {q[i]}]
  BY <1>1 DEF Labels
<1> QED
  BY <1>1, <1>2

LEMMA LabelsConcat ==
    ASSUME NEW q \in Seq(Label), NEW r \in Seq(Label)
    PROVE  Labels(q \o r) = Labels(q) \o Labels(r)
<1> DEFINE qr == q \o r
           x == Labels(q)
           y == Labels(r)
           z == Labels(qr)
           n == Len(q)
           m == Len(r)
<1>1. /\ n \in Nat /\ m \in Nat /\ qr \in Seq(Label) /\ Len(qr) = n + m
      /\ \A i \in 1 .. n : qr[i] = q[i] /\ i \in 1 .. n + m
      /\ \A i \in 1 .. m : qr[n + i] = r[i] /\ n + i \in 1 .. n + m
  OBVIOUS
<1>2. x \in Seq(Mark) /\ Len(x) = n /\ \A i \in 1 .. n : x[i] = {q[i]}
  BY LabelsType
<1>3. y \in Seq(Mark) /\ Len(y) = m /\ \A i \in 1 .. m : y[i] = {r[i]}
  BY LabelsType
<1> HIDE DEF qr, n, m
<1>4. z \in Seq(Mark) /\ Len(z) = n + m /\ \A i \in 1 .. n + m : z[i] = {qr[i]}
  BY <1>1, LabelsType
<1> HIDE DEF x, y, z
<1>5. ASSUME NEW i \in 1 .. n PROVE z[i] = x[i]
  <2>1. qr[i] = q[i] /\ i \in 1 .. n + m
    BY <1>1
  <2>2. x[i] = {q[i]}
    BY <1>2
  <2>3. z[i] = {qr[i]}
    BY <1>4, <2>1
  <2> QED
    BY <2>1, <2>2, <2>3
<1>6. ASSUME NEW i \in 1 .. m PROVE z[n + i] = y[i]
  <2>1. qr[n + i] = r[i] /\ n + i \in 1 .. n + m
    BY <1>1
  <2>2. y[i] = {r[i]}
    BY <1>3
  <2>3. z[n + i] = {qr[n + i]}
    BY <1>4, <2>1
  <2> QED
    BY <2>1, <2>2, <2>3
<1>7. z = x \o y
  <2>1. x \in Seq(Mark) /\ y \in Seq(Mark) /\ z \in Seq(Mark) /\ Len(z) = Len(x) + Len(y)
    BY <1>2, <1>3, <1>4
  <2>2. \A i \in 1 .. Len(x) : z[i] = x[i]
    BY <1>2, <1>5
  <2>3. \A i \in 1 .. Len(y) : z[Len(x) + i] = y[i]
    BY <1>2, <1>3, <1>6
  <2> QED
    BY <2>1, <2>2, <2>3, ConcatIs
<1> QED
  BY <1>7 DEF x, y, z, qr

LEMMA LabelsOne ==
    ASSUME NEW x
    PROVE  Labels(<<x>>) = <<{x}>> /\ Labels(<<>>) = <<>>
BY DEF Labels

LEMMA WithinIn ==
    ASSUME NEW S, NEW y \in Seq(S), NEW k \in 1 .. Len(y), NEW m, y[k] = m
    PROVE  Within(<<m>>, y)
<1> DEFINE z == <<m>>
           c == [i \in 1 .. 1 |-> k]
<1>1. DOMAIN z = 1 .. 1 /\ z[1] = m /\ k \in DOMAIN y /\ k \in Int
  OBVIOUS
<1>2. c \in [1 .. 1 -> Int] /\ \A i \in 1 .. 1 : i = 1 /\ c[i] = k
  BY <1>1
<1> HIDE DEF z, c
<1>3. c \in [DOMAIN z -> Int] /\ \A i \in DOMAIN z : i = 1 /\ c[i] = k
  BY <1>1, <1>2
<1>4. \A i \in DOMAIN z : c[i] \in DOMAIN y /\ y[c[i]] = z[i]
  BY <1>1, <1>3
<1>5. \A i, j \in DOMAIN z : ~(i < j)
  BY <1>3
<1>6. Carries(c, z, y)
  BY <1>3, <1>4, <1>5 DEF Carries
<1> QED
  BY <1>6 DEF Within, z

(* Packets and buffer are made of s, in order; a buffer begins with a flag. *)
PacketsOf(res, s) ==
    /\ res \in PppResults
    /\ res.buffer # <<>> => res.buffer[1] = Plain(PppFlag)
    /\ Within(Labels(res.packets) \o MarksOf("packet", res.buffer), MarksOf("packet", s))

LEMMA PacketLabel == Packet \subseteq Label
<1>1. Byte \subseteq Int
  BY ByteIs
<1> QED
  BY <1>1 DEF Packet, Label

(* One packet that is accepted, in front.                                   *)
LEMMA PacketsOfMore ==
    ASSUME NEW l \in Seq(AnyByte), NEW t \in Seq(AnyByte), NEW p \in Packet,
           NEW k \in 1 .. Len(l), MarkOf("packet", l[k]) = {p},
           NEW res, PacketsOf(res, t)
    PROVE  PacketsOf([buffer |-> res.buffer, packets |-> <<p>> \o res.packets], l \o t)
<1> DEFINE b == res.buffer
           ps == res.packets
           one == <<{p}>>
           x == Labels(ps)
           y == MarksOf("packet", b)
           u == MarksOf("packet", l)
           v == MarksOf("packet", t)
<1>1. b \in Seq(AnyByte) /\ ps \in Seq(Packet) /\ Within(x \o y, v) /\ (b # <<>> => b[1] = Plain(PppFlag))
  BY DEF PacketsOf, PppResults
<1>2. <<p>> \in Seq(Packet) /\ <<p>> \o ps \in Seq(Packet)
  BY <1>1
<1>3. <<p>> \in Seq(Label) /\ ps \in Seq(Label)
  BY <1>1, <1>2, PacketLabel
<1>4. Labels(<<p>> \o ps) = one \o x
  BY <1>3, LabelsConcat, LabelsOne
<1>5. MarksOf("packet", l \o t) = u \o v
  BY MarksConcat
<1>6. one \in Seq(Mark) /\ x \in Seq(Mark)
  <2>1. Labels(<<p>>) \in Seq(Mark) /\ x \in Seq(Mark)
    BY <1>3, LabelsType
  <2> QED
    BY <2>1, LabelsOne
<1>7. y \in Seq(Mark) /\ u \in Seq(Mark) /\ v \in Seq(Mark)
  BY <1>1, MarksType
<1>8. Within(one, u)
  <2>1. k \in 1 .. Len(u) /\ u[k] = {p}
    <3>1. Len(u) = Len(l) /\ \A i \in 1 .. Len(l) : u[i] = MarkOf("packet", l[i])
      BY MarksType
    <3> HIDE DEF u
    <3> QED
      BY <3>1
  <2> HIDE DEF u
  <2> QED
    BY <1>7, <2>1, WithinIn
<1> HIDE DEF b, ps, one, x, y, u, v
<1>9. x \o y \in Seq(Mark) /\ (one \o x) \o y = one \o (x \o y)
  <2>1. one \in Seq(Mark) /\ x \in Seq(Mark) /\ y \in Seq(Mark)
    BY <1>6, <1>7
  <2> QED
    BY <2>1, SMTT(20)
<1>10. Within(one \o (x \o y), u \o v)
  BY <1>1, <1>6, <1>7, <1>8, <1>9, WithinConcat
<1>11. PacketsOf([buffer |-> b, packets |-> <<p>> \o ps], l \o t)
  <2>1. [buffer |-> b, packets |-> <<p>> \o ps] \in PppResults
    BY <1>1, <1>2 DEF PppResults
  <2> QED
    BY <1>1, <1>4, <1>5, <1>9, <1>10, <2>1 DEF PacketsOf, y
<1> QED
  BY <1>11 DEF b, ps

(* What is dropped in front.                                                *)
LEMMA PacketsOfLess ==
    ASSUME NEW buf \in Seq(AnyByte), NEW i \in 1 .. Len(buf) + 1, NEW a \in i .. Len(buf) + 1,
           NEW res, PacketsOf(res, SubSeq(buf, a, Len(buf)))
    PROVE  PacketsOf(res, SubSeq(buf, i, Len(buf)))
<1> DEFINE t == SubSeq(buf, a, Len(buf))
           s == SubSeq(buf, i, Len(buf))
           x == Labels(res.packets)
           y == MarksOf("packet", res.buffer)
           z == x \o y
<1>1. t \in Seq(AnyByte) /\ s \in Seq(AnyByte)
  BY Tails
<1>2. Within(MarksOf("packet", t), MarksOf("packet", s))
  BY MarksTail
<1> HIDE DEF t, s
<1>3. res \in PppResults /\ Within(z, MarksOf("packet", t)) /\ (res.buffer # <<>> => res.buffer[1] = Plain(PppFlag))
  BY DEF PacketsOf, t
<1>4. x \in Seq(Mark) /\ y \in Seq(Mark)
  <2>1. res.buffer \in Seq(AnyByte) /\ res.packets \in Seq(Packet)
    BY <1>3 DEF PppResults
  <2>2. res.packets \in Seq(Label)
    BY <2>1, PacketLabel
  <2> QED
    BY <2>1, <2>2, MarksType, LabelsType
<1>5. MarksOf("packet", t) \in Seq(Mark) /\ MarksOf("packet", s) \in Seq(Mark)
  BY <1>1, MarksType
<1>6. Within(z, MarksOf("packet", s))
  <2>1. z \in Seq(Mark)
    <3> HIDE DEF x, y
    <3> QED
      BY <1>4
  <2> HIDE DEF z
  <2> QED
    BY <1>2, <1>3, <1>5, <2>1, WithinTrans
<1> QED
  BY <1>3, <1>6 DEF PacketsOf, s

LEMMA PacketsOfRest ==
    ASSUME NEW buf \in Seq(AnyByte), NEW i \in 1 .. Len(buf) + 1,
           NEW t \in Seq(AnyByte), t # <<>> => t[1] = Plain(PppFlag),
           Within(MarksOf("packet", t), MarksOf("packet", SubSeq(buf, i, Len(buf))))
    PROVE  PacketsOf([buffer |-> t, packets |-> <<>>], SubSeq(buf, i, Len(buf)))
<1>1. <<>> \in Seq(Packet) /\ Labels(<<>>) = <<>>
  BY DEF Labels
<1>2. MarksOf("packet", t) \in Seq(Mark)
  BY MarksType
<1>3. <<>> \o MarksOf("packet", t) = MarksOf("packet", t)
  BY <1>2, Regroup
<1>4. [buffer |-> t, packets |-> <<>>] \in PppResults
  BY <1>1 DEF PppResults
<1> QED
  BY <1>1, <1>3, <1>4 DEF PacketsOf

LEMMA PppParseKeeps ==
    ASSUME NEW buf \in Seq(AnyByte)
    PROVE  PacketsOf(PppParse(buf), buf)
<1> DEFINE n == Len(buf) + 1
           rest(i) == SubSeq(buf, i, Len(buf))
<1>1. PICK f : /\ \A i \in 1 .. n : f[i] = PppFrom(buf, f, i)
               /\ PppParse(buf) = f[1]
  BY PppParseIs
<1> DEFINE P == {i \in 1 .. n : PacketsOf(f[i], rest(i))}
<1>2. n \in Nat /\ 1 \in 1 .. n /\ Len(buf) \in Nat
  OBVIOUS
<1>3. ASSUME NEW i \in 1 .. n, i + 1 .. n \subseteq P PROVE i \in P
  <2>0. f[i] = PppFrom(buf, f, i)
    BY <1>1
  <2>1. CASE FlagsAt(buf, i) = {}
    <3> DEFINE none == <<>>
    <3>1. none \in Seq(AnyByte) /\ MarksOf("packet", none) = <<>>
      BY DEF MarksOf
    <3>2. Within(MarksOf("packet", none), MarksOf("packet", rest(i)))
      BY <3>1, WithinNone
    <3>3. none # <<>> => none[1] = Plain(PppFlag)
      OBVIOUS
    <3>4. f[i] = [buffer |-> none, packets |-> <<>>]
      BY <2>0, <2>1 DEF PppFrom
    <3> HIDE DEF none
    <3> QED
      BY <3>1, <3>2, <3>3, <3>4, PacketsOfRest
  <2>2. CASE FlagsAt(buf, i) # {} /\ FlagsAt(buf, i) = {First(buf, i)}
    <3> DEFINE a == First(buf, i)
               t == SubSeq(buf, a, Len(buf))
    <3>0. a \in i .. Len(buf) /\ buf[a] = Plain(PppFlag)
      <4>1. FlagsAt(buf, i) # {} /\ i \in 1 .. Len(buf) + 1
        BY <2>2
      <4> QED
        BY <4>1, PairIs
    <3>1. a \in i .. Len(buf) /\ a \in i .. Len(buf) + 1 /\ buf[a] = Plain(PppFlag)
      <4> HIDE DEF a
      <4> QED
        BY <1>2, <3>0
    <3>2. f[i] = [buffer |-> t, packets |-> <<>>]
      BY <2>0, <2>2 DEF PppFrom
    <3> HIDE DEF a
    <3>3. t \in Seq(AnyByte) /\ t[1] = Plain(PppFlag)
      BY <1>2, <3>1
    <3>4. Within(MarksOf("packet", t), MarksOf("packet", rest(i)))
      BY <3>1, MarksTail
    <3> HIDE DEF t
    <3> QED
      BY <3>2, <3>3, <3>4, PacketsOfRest
  <2>3. CASE FlagsAt(buf, i) # {} /\ FlagsAt(buf, i) # {First(buf, i)}
    <3> DEFINE a == First(buf, i)
               b == Second(buf, i)
               e == b + 1
               u == Body(buf, i)
    <3>1. /\ a \in i .. Len(buf) /\ b \in a + 1 .. Len(buf)
          /\ PppSound(u) =>
                 /\ PacketOf(u) \in Packet /\ b - 1 \in a + 1 .. Len(buf)
                 /\ MarkOf("packet", buf[b - 1]) = {PacketOf(u)}
      BY <2>3, PairIs DEF Paired
    <3>2. f[i] = IF ~PppSound(u) THEN f[e]
                 ELSE [buffer |-> f[e].buffer, packets |-> <<PacketOf(u)>> \o f[e].packets]
      BY <2>0, <2>3 DEF PppFrom
    <3>3. e \in i + 1 .. n /\ e \in i .. Len(buf) + 1 /\ e - i \in Nat
      <4> HIDE DEF a, b
      <4> QED
        BY <1>2, <3>1
    <3>4. PacketsOf(f[e], rest(e))
      <4>1. e \in P
        <5> HIDE DEF P, e, n
        <5> QED
          BY <1>3, <3>3
      <4> HIDE DEF e
      <4> QED
        BY <4>1
    <3> HIDE DEF a, u
    <3>5. CASE ~PppSound(u)
      <4>1. f[i] = f[e]
        BY <3>2, <3>5
      <4> HIDE DEF e
      <4> QED
        BY <3>3, <3>4, <4>1, PacketsOfLess
    <3>6. CASE PppSound(u)
      <4> DEFINE l == SubSeq(buf, i, e - 1)
                 k == b - i
      <4>1. l \in Seq(AnyByte) /\ rest(e) \in Seq(AnyByte) /\ rest(i) = l \o rest(e)
        <5> HIDE DEF e
        <5> QED
          BY <3>3, Tails
      <4>2. k \in 1 .. Len(l) /\ l[k] = buf[b - 1]
        <5>1. /\ b \in Nat /\ a \in Nat /\ i \in Nat /\ 1 <= i /\ i <= a /\ a + 1 <= b - 1
              /\ b <= Len(buf) /\ e - 1 = b
          BY <1>2, <3>1, <3>6
        <5> HIDE DEF b, e
        <5>2. l = SubSeq(buf, i, b)
          BY <5>1
        <5>3. Len(l) = b - i + 1 /\ \A j \in 1 .. b - i + 1 : l[j] = buf[i + j - 1]
          BY <1>2, <5>1, <5>2
        <5> HIDE DEF l
        <5>4. k \in 1 .. b - i + 1 /\ i + k - 1 = b - 1
          BY <1>2, <5>1
        <5> HIDE DEF k
        <5> QED
          BY <5>3, <5>4
      <4>3. PacketOf(u) \in Packet /\ MarkOf("packet", l[k]) = {PacketOf(u)}
        BY <3>1, <3>6, <4>2
      <4>4. f[i] = [buffer |-> f[e].buffer, packets |-> <<PacketOf(u)>> \o f[e].packets]
        BY <3>2, <3>6
      <4>5. PacketsOf(f[i], l \o rest(e))
        <5> DEFINE t == rest(e)
        <5> HIDE DEF l, k, t, e
        <5> QED
          BY <3>4, <4>1, <4>2, <4>3, <4>4, PacketsOfMore DEF t
      <4> QED
        BY <4>1, <4>5
    <3> QED
      BY <3>5, <3>6
  <2> QED
    BY <2>1, <2>2, <2>3
<1>4. 1 .. n \subseteq P
  <2> HIDE DEF P, n
  <2> QED
    BY <1>2, <1>3, Downward
<1>5. PacketsOf(f[1], SubSeq(buf, 1, Len(buf)))
  BY <1>2, <1>4
<1> QED
  BY <1>1, <1>5, SubSeqFull
=============================================================================
