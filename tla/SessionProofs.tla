--------------------------- MODULE SessionProofs ---------------------------
(***************************************************************************)
(* What a connection carries when nothing is in the way: the client stays  *)
(* in step with the server and reads the replies the server means.  First  *)
(* the formats of WireFormat are shown to be read back, then the exchange  *)
(* to go on in lock step.                                                  *)
(***************************************************************************)
EXTENDS Session, NatLemmas, SequenceTheorems, FiniteSetTheorems, TLAPS

-----------------------------------------------------------------------------
(* Bytes in their places *)

\* The bytes s are in p from place at on.
Stands(p, at, s) == \A i \in 1..Len(s) : at + i - 1 \in 1..Len(p) /\ p[at + i - 1] = s[i]

LEMMA Joined ==
  ASSUME NEW a \in Seq(Byte), NEW b \in Seq(Byte)
  PROVE  /\ a \o b \in Seq(Byte) /\ Len(a) \in Nat /\ Len(b) \in Nat
         /\ Len(a \o b) = Len(a) + Len(b)
         /\ \A i \in 1..(Len(a) + Len(b)) : (a \o b)[i] = IF i <= Len(a) THEN a[i] ELSE b[i - Len(a)]
BY ConcatProperties, LenProperties

LEMMA JoinedThree ==
  ASSUME NEW a \in Seq(Byte), NEW b \in Seq(Byte), NEW c \in Seq(Byte)
  PROVE  (a \o b) \o c = a \o (b \o c)
BY ConcatAssociative

LEMMA StandsWhole ==
  ASSUME NEW p \in Seq(Byte)
  PROVE  Stands(p, 1, p)
BY LenProperties DEF Stands

LEMMA StandsToItsEnd ==
  ASSUME NEW p, NEW at \in Nat, NEW s, NEW n \in Nat \ {0}, Len(s) = n, Stands(p, at, s)
  PROVE  at + n - 1 \in 1..Len(p)
<1>1. n \in 1..Len(s)
  OBVIOUS
<1> QED BY <1>1 DEF Stands

LEMMA StandsConcat ==
  ASSUME NEW p, NEW at \in Nat, NEW a \in Seq(Byte), NEW b \in Seq(Byte),
         Stands(p, at, a \o b)
  PROVE  Stands(p, at, a) /\ Stands(p, at + Len(a), b)
<1>1. /\ Len(a) \in Nat /\ Len(b) \in Nat /\ Len(a \o b) = Len(a) + Len(b)
      /\ \A i \in 1..(Len(a) + Len(b)) : (a \o b)[i] = IF i <= Len(a) THEN a[i] ELSE b[i - Len(a)]
  BY LenProperties, ConcatProperties
<1>2. Stands(p, at, a)
  <2> SUFFICES ASSUME NEW i \in 1..Len(a)
               PROVE  at + i - 1 \in 1..Len(p) /\ p[at + i - 1] = a[i]
    BY DEF Stands
  <2>1. i \in 1..Len(a \o b) /\ (a \o b)[i] = a[i]
    BY <1>1
  <2> QED BY <2>1 DEF Stands
<1>3. Stands(p, at + Len(a), b)
  <2> SUFFICES ASSUME NEW i \in 1..Len(b)
               PROVE  (at + Len(a)) + i - 1 \in 1..Len(p) /\ p[(at + Len(a)) + i - 1] = b[i]
    BY DEF Stands
  <2>1. Len(a) + i \in 1..Len(a \o b) /\ (a \o b)[Len(a) + i] = b[i]
    BY <1>1
  <2>2. (at + Len(a)) + i - 1 = at + (Len(a) + i) - 1
    BY <1>1
  <2> QED BY <2>1, <2>2 DEF Stands
<1> QED BY <1>2, <1>3

\* What stands in a packet is cut out of it.
LEMMA StandsCut ==
  ASSUME NEW p, NEW at \in Nat \ {0}, NEW s \in Seq(Byte), Stands(p, at, s)
  PROVE  SubSeq(p, at, at + Len(s) - 1) = s
<1>1. Len(s) \in Nat /\ \A i \in 1..Len(s) : s[i] \in Byte
  BY LenProperties, ElementOfSeq
<1>2. \A i \in at..(at + Len(s) - 1) : p[i] = s[i - at + 1]
  <2> TAKE i \in at..(at + Len(s) - 1)
  <2>1. i - at + 1 \in 1..Len(s) /\ at + (i - at + 1) - 1 = i
    BY <1>1
  <2> QED BY <2>1 DEF Stands
<1>3. \A i \in at..(at + Len(s) - 1) : p[i] \in Byte
  BY <1>1, <1>2
<1> DEFINE q == SubSeq(p, at, at + Len(s) - 1)
<1>4. at + Len(s) - 1 \in Int /\ (at + Len(s) - 1) - at + 1 = Len(s)
  BY <1>1
<1>5. q \in Seq(Byte) /\ Len(q) = Len(s) /\ \A i \in 1..Len(s) : q[i] = p[at + i - 1]
  BY <1>1, <1>3, <1>4, SubSeqProperties, SMT
<1>6. \A i \in 1..Len(s) : q[i] = s[i]
  <2> TAKE i \in 1..Len(s)
  <2> QED BY <1>5 DEF Stands
<1> HIDE DEF q
<1>7. q = s
  BY <1>5, <1>6, SeqEqual
<1> QED BY <1>7 DEF q

\* What follows a packet does not move what stands in it.
LEMMA StandsExtended ==
  ASSUME NEW q \in Seq(Byte), NEW r \in Seq(Byte), NEW at \in Nat, NEW s \in Seq(Byte),
         Stands(q, at, s)
  PROVE  Stands(q \o r, at, s)
<1>1. /\ Len(q) \in Nat /\ Len(r) \in Nat /\ Len(q \o r) = Len(q) + Len(r)
      /\ \A i \in 1..(Len(q) + Len(r)) : (q \o r)[i] = IF i <= Len(q) THEN q[i] ELSE r[i - Len(q)]
  BY LenProperties, ConcatProperties
<1> SUFFICES ASSUME NEW i \in 1..Len(s)
             PROVE  at + i - 1 \in 1..Len(q \o r) /\ (q \o r)[at + i - 1] = s[i]
  BY DEF Stands
<1>2. at + i - 1 \in 1..Len(q) /\ q[at + i - 1] = s[i]
  BY DEF Stands
<1> QED BY <1>1, <1>2

LEMMA OneByte ==
  ASSUME NEW b \in Byte
  PROVE  <<b>> \in Seq(Byte) /\ Len(<<b>>) = 1 /\ <<b>>[1] = b
OBVIOUS

\* A mark before some bytes.
LEMMA MarkedBytes ==
  ASSUME NEW b \in Byte, NEW s \in Seq(Byte)
  PROVE  <<b>> \o s \in Seq(Byte) /\ Len(<<b>> \o s) = 1 + Len(s) /\ (<<b>> \o s)[1] = b
<1> DEFINE x == <<b>>
<1>1. x \in Seq(Byte) /\ Len(x) = 1 /\ x[1] = b
  BY OneByte
<1> HIDE DEF x
<1>2. Len(s) \in Nat
  BY LenProperties
<1>3. /\ x \o s \in Seq(Byte) /\ Len(x \o s) = Len(x) + Len(s)
      /\ \A i \in 1..(Len(x) + Len(s)) : (x \o s)[i] = IF i <= Len(x) THEN x[i] ELSE s[i - Len(x)]
  BY <1>1, ConcatProperties
<1>4. 1 \in 1..(Len(x) + Len(s)) /\ 1 <= Len(x)
  BY <1>1, <1>2
<1>5. x \o s \in Seq(Byte) /\ Len(x \o s) = 1 + Len(s) /\ (x \o s)[1] = b
  BY <1>1, <1>3, <1>4
<1> QED BY <1>5 DEF x

LEMMA MarkedStands ==
  ASSUME NEW b \in Byte, NEW s \in Seq(Byte), NEW p, NEW at \in Nat, Stands(p, at, <<b>> \o s)
  PROVE  at \in 1..Len(p) /\ p[at] = b /\ Stands(p, at + 1, s)
<1> DEFINE x == <<b>>
<1>1. x \in Seq(Byte) /\ Len(x) = 1 /\ x[1] = b
  BY OneByte
<1>2. Stands(p, at, x \o s)
  OBVIOUS
<1> HIDE DEF x
<1>3. Stands(p, at, x) /\ Stands(p, at + 1, s)
  BY <1>1, <1>2, StandsConcat
<1>4. at + 1 - 1 \in 1..Len(p) /\ p[at + 1 - 1] = b
  BY <1>1, <1>3 DEF Stands
<1>5. at + 1 - 1 = at
  OBVIOUS
<1> QED BY <1>3, <1>4, <1>5

\* The second of two parts stands behind the first.
LEMMA StandsBehind ==
  ASSUME NEW q \in Seq(Byte), NEW r \in Seq(Byte)
  PROVE  Stands(q \o r, Len(q) + 1, r)
<1>1. q \o r \in Seq(Byte) /\ Len(q) \in Nat
  BY LenProperties, ConcatProperties
<1>2. Stands(q \o r, 1 + Len(q), r)
  BY <1>1, StandsWhole, StandsConcat
<1> QED BY <1>1, <1>2

-----------------------------------------------------------------------------
(* Numbers *)

LEMMA Powers == 256^0 = 1 /\ 256^1 = 256 /\ 256^2 = 65536 /\ 256^3 = 16777216
BY SMT

\* The low byte and what is above it.
Lo(v) == v % 256
Hi(v) == v \div 256

LEMMA LowAndHigh ==
  ASSUME NEW v \in Nat
  PROVE  v = 256 * Hi(v) + Lo(v) /\ Hi(v) \in Nat /\ Lo(v) \in Byte
<1>1. v = 256 * (v \div 256) + (v % 256)
  BY SMT
<1>2. v \div 256 \in Nat
  BY SMT
<1>3. v % 256 \in 0..255
  BY SMT
<1> QED BY <1>1, <1>2, <1>3, Zenon DEF Lo, Hi, Byte

LEMMA LittleEndianBytes ==
  ASSUME NEW v \in Nat, NEW n \in 1..4
  PROVE  /\ LittleEndian(v, n) \in Seq(Byte) /\ Len(LittleEndian(v, n)) = n
         /\ LittleEndian(v, n)[1] = Lo(v)
         /\ n > 1 => LittleEndian(v, n)[2] = Lo(Hi(v))
         /\ n > 2 => LittleEndian(v, n)[3] = Lo(Hi(Hi(v)))
         /\ n > 3 => LittleEndian(v, n)[4] = Lo(Hi(Hi(Hi(v))))
<1> DEFINE e(k) == (v \div 256^(k - 1)) % 256
<1>1. v \div 1 = v
  BY SMT
<1>2. v \div 65536 = (v \div 256) \div 256
  BY SMT
<1>3. v \div 16777216 = ((v \div 256) \div 256) \div 256
  BY SMT
<1>4. e(1) = Lo(v) /\ e(2) = Lo(Hi(v)) /\ e(3) = Lo(Hi(Hi(v))) /\ e(4) = Lo(Hi(Hi(Hi(v))))
  BY <1>1, <1>2, <1>3, Powers, SMT DEF Lo, Hi
<1>5. Lo(v) \in Byte /\ Lo(Hi(v)) \in Byte /\ Lo(Hi(Hi(v))) \in Byte /\ Lo(Hi(Hi(Hi(v)))) \in Byte
  BY LowAndHigh, Zenon
<1>6. LittleEndian(v, n) = [k \in 1..n |-> e(k)]
  BY DEF LittleEndian
<1> HIDE DEF e
<1>7. \A k \in 1..n : e(k) \in Byte
  <2> TAKE k \in 1..n
  <2>1. k = 1 \/ k = 2 \/ k = 3 \/ k = 4
    OBVIOUS
  <2> QED BY <2>1, <1>4, <1>5, Zenon
<1>8. [k \in 1..n |-> e(k)] \in Seq(Byte) /\ Len([k \in 1..n |-> e(k)]) = n
  BY <1>7, SMT
<1> QED BY <1>4, <1>6, <1>8

LEMMA FromBytes2 ==
  ASSUME NEW p, NEW at \in Nat, p[at] \in Nat, p[at + 1] \in Nat
  PROVE  FromBytes(p, at, 2) = p[at] + p[at + 1] * 256
<1> DEFINE eqn(f) == f = [k \in 0..2 |-> IF k = 0 THEN 0
                                         ELSE f[k - 1] + p[at + k - 1] * 256^(k - 1)]
           d == CHOOSE f : eqn(f)
<1>1. \E f : eqn(f)
  <2> DEFINE f == [k \in 0..2 |-> IF k = 0 THEN 0 ELSE IF k = 1 THEN p[at]
                                  ELSE p[at] + p[at + 1] * 256]
  <2>1. eqn(f)
    BY Powers
  <2> HIDE DEF f
  <2> QED BY <2>1
<1>2. FromBytes(p, at, 2) = d[2]
  BY DEF FromBytes
<1>3. eqn(d)
  BY <1>1
<1> HIDE DEF d
<1>4. d[0] = 0
  BY <1>3
<1>5. d[1] = p[at]
  BY <1>3, <1>4, Powers
<1>6. d[2] = p[at] + p[at + 1] * 256
  BY <1>3, <1>5, Powers
<1> QED BY <1>2, <1>6

LEMMA FromBytes3 ==
  ASSUME NEW p, NEW at \in Nat, p[at] \in Nat, p[at + 1] \in Nat, p[at + 2] \in Nat
  PROVE  FromBytes(p, at, 3) = p[at] + p[at + 1] * 256 + p[at + 2] * 256^2
<1> DEFINE eqn(f) == f = [k \in 0..3 |-> IF k = 0 THEN 0
                                         ELSE f[k - 1] + p[at + k - 1] * 256^(k - 1)]
           d == CHOOSE f : eqn(f)
<1>1. \E f : eqn(f)
  <2> DEFINE f == [k \in 0..3 |-> IF k = 0 THEN 0 ELSE IF k = 1 THEN p[at]
                                  ELSE IF k = 2 THEN p[at] + p[at + 1] * 256
                                  ELSE p[at] + p[at + 1] * 256 + p[at + 2] * 256^2]
  <2>1. eqn(f)
    BY Powers
  <2> HIDE DEF f
  <2> QED BY <2>1
<1>2. FromBytes(p, at, 3) = d[3]
  BY DEF FromBytes
<1>3. eqn(d)
  BY <1>1
<1> HIDE DEF d
<1>4. d[0] = 0
  BY <1>3
<1>5. d[1] = p[at]
  BY <1>3, <1>4, Powers
<1>6. d[2] = p[at] + p[at + 1] * 256
  BY <1>3, <1>5, Powers
<1>7. d[3] = p[at] + p[at + 1] * 256 + p[at + 2] * 256^2
  BY <1>3, <1>6, Powers
<1> QED BY <1>2, <1>7

\* A number of two or three bytes is read as it was written.
LEMMA TwoBytesReadBack ==
  ASSUME NEW p, NEW at \in Nat, NEW v \in Nat, v < 2^16, Stands(p, at, LittleEndian(v, 2))
  PROVE  FromBytes(p, at, 2) = v
<1> DEFINE w == LittleEndian(v, 2)
<1>1. Len(w) = 2 /\ w[1] = Lo(v) /\ w[2] = Lo(Hi(v))
  BY LittleEndianBytes
<1>2. Stands(p, at, w)
  OBVIOUS
<1> HIDE DEF w
<1>3. \A i \in 1..2 : p[at + i - 1] = w[i]
  BY <1>1, <1>2 DEF Stands
<1>4. p[at] = Lo(v) /\ p[at + 1] = Lo(Hi(v))
  <2>1. p[at + 1 - 1] = w[1] /\ p[at + 2 - 1] = w[2]
    BY <1>3
  <2> QED BY <1>1, <2>1
<1>5. /\ v = 256 * Hi(v) + Lo(v) /\ Hi(v) \in Nat /\ Lo(v) \in 0..255
      /\ Hi(v) = 256 * Hi(Hi(v)) + Lo(Hi(v)) /\ Hi(Hi(v)) \in Nat /\ Lo(Hi(v)) \in 0..255
  BY LowAndHigh, Zenon DEF Byte
<1>6. FromBytes(p, at, 2) = p[at] + p[at + 1] * 256
  BY <1>4, <1>5, FromBytes2
<1>7. v = Lo(v) + Lo(Hi(v)) * 256
  <2> DEFINE a == Lo(v)
             b == Lo(Hi(v))
             g == Hi(v)
             h == Hi(Hi(v))
  <2>1. /\ v = 256 * g + a /\ g = 256 * h + b
        /\ a \in 0..255 /\ b \in 0..255 /\ g \in Nat /\ h \in Nat
    BY <1>5
  <2> HIDE DEF a, b, g, h
  <2>2. v < 65536
    BY SMT
  <2>3. h = 0
    BY <2>1, <2>2, SMT
  <2>4. v = a + b * 256
    BY <2>1, <2>3, SMT
  <2> QED BY <2>4 DEF a, b
<1> QED BY <1>4, <1>6, <1>7, Zenon

LEMMA ThreeBytesReadBack ==
  ASSUME NEW p, NEW at \in Nat, NEW v \in Nat, v < 2^24, Stands(p, at, LittleEndian(v, 3))
  PROVE  FromBytes(p, at, 3) = v
<1> DEFINE w == LittleEndian(v, 3)
<1>1. Len(w) = 3 /\ w[1] = Lo(v) /\ w[2] = Lo(Hi(v)) /\ w[3] = Lo(Hi(Hi(v)))
  BY LittleEndianBytes
<1>2. Stands(p, at, w)
  OBVIOUS
<1> HIDE DEF w
<1>3. \A i \in 1..3 : p[at + i - 1] = w[i]
  BY <1>1, <1>2 DEF Stands
<1>4. p[at] = Lo(v) /\ p[at + 1] = Lo(Hi(v)) /\ p[at + 2] = Lo(Hi(Hi(v)))
  <2>1. p[at + 1 - 1] = w[1] /\ p[at + 2 - 1] = w[2] /\ p[at + 3 - 1] = w[3]
    BY <1>3
  <2> QED BY <1>1, <2>1
<1>5. /\ v = 256 * Hi(v) + Lo(v) /\ Hi(v) \in Nat /\ Lo(v) \in 0..255
      /\ Hi(v) = 256 * Hi(Hi(v)) + Lo(Hi(v)) /\ Hi(Hi(v)) \in Nat /\ Lo(Hi(v)) \in 0..255
      /\ Hi(Hi(v)) = 256 * Hi(Hi(Hi(v))) + Lo(Hi(Hi(v)))
      /\ Hi(Hi(Hi(v))) \in Nat /\ Lo(Hi(Hi(v))) \in 0..255
  BY LowAndHigh, Zenon DEF Byte
<1>6. FromBytes(p, at, 3) = p[at] + p[at + 1] * 256 + p[at + 2] * 256^2
  <2>1. p[at] \in Nat /\ p[at + 1] \in Nat /\ p[at + 2] \in Nat
    BY <1>4, <1>5
  <2> HIDE <1>4, <1>5
  <2> QED BY <2>1, FromBytes3, SMT
<1>7. v = Lo(v) + Lo(Hi(v)) * 256 + Lo(Hi(Hi(v))) * 256^2
  <2> DEFINE a == Lo(v)
             b == Lo(Hi(v))
             c == Lo(Hi(Hi(v)))
             f == Hi(v)
             g == Hi(Hi(v))
             h == Hi(Hi(Hi(v)))
  <2>1. /\ v = 256 * f + a /\ f = 256 * g + b /\ g = 256 * h + c
        /\ a \in 0..255 /\ b \in 0..255 /\ c \in 0..255 /\ f \in Nat /\ g \in Nat /\ h \in Nat
    BY <1>5
  <2> HIDE DEF a, b, c, f, g, h
  <2>2. v < 16777216
    BY SMT
  <2>3. h = 0
    BY <2>1, <2>2, SMT
  <2>4. v = a + b * 256 + c * 256^2
    BY <2>1, <2>3, SMT
  <2> QED BY <2>4 DEF a, b, c
<1> QED BY <1>4, <1>6, <1>7, Zenon

\* The bytes of a length: one, or a mark with two or three.
LEMMA LenEncodeBytes ==
  ASSUME NEW v \in Nat, v < 2^24
  PROVE  /\ WriteLenEncode(v) \in Seq(Byte)
         /\ v < 251 => WriteLenEncode(v) = LittleEndian(v, 1) /\ Len(WriteLenEncode(v)) = 1
         /\ v >= 251 /\ v < 2^16 =>
              WriteLenEncode(v) = <<252>> \o LittleEndian(v, 2) /\ Len(WriteLenEncode(v)) = 3
         /\ v >= 2^16 =>
              WriteLenEncode(v) = <<253>> \o LittleEndian(v, 3) /\ Len(WriteLenEncode(v)) = 4
<1>1. /\ LittleEndian(v, 1) \in Seq(Byte) /\ Len(LittleEndian(v, 1)) = 1
      /\ LittleEndian(v, 2) \in Seq(Byte) /\ Len(LittleEndian(v, 2)) = 2
      /\ LittleEndian(v, 3) \in Seq(Byte) /\ Len(LittleEndian(v, 3)) = 3
  BY LittleEndianBytes
<1>2. 252 \in Byte /\ 253 \in Byte
  BY DEF Byte
<1>3. /\ <<252>> \o LittleEndian(v, 2) \in Seq(Byte) /\ Len(<<252>> \o LittleEndian(v, 2)) = 3
      /\ <<253>> \o LittleEndian(v, 3) \in Seq(Byte) /\ Len(<<253>> \o LittleEndian(v, 3)) = 4
  <2> DEFINE x == LittleEndian(v, 2)
             y == LittleEndian(v, 3)
  <2>1. x \in Seq(Byte) /\ Len(x) = 2 /\ y \in Seq(Byte) /\ Len(y) = 3
    BY <1>1
  <2> HIDE DEF x, y
  <2>2. <<252>> \o x \in Seq(Byte) /\ Len(<<252>> \o x) = 1 + Len(x)
    BY <1>2, <2>1, MarkedBytes
  <2>3. <<253>> \o y \in Seq(Byte) /\ Len(<<253>> \o y) = 1 + Len(y)
    BY <1>2, <2>1, MarkedBytes
  <2>4. 1 + Len(x) = 3 /\ 1 + Len(y) = 4
    BY <2>1
  <2> QED BY <2>2, <2>3, <2>4, Zenon DEF x, y
<1>4. v < 251 => WriteLenEncode(v) = LittleEndian(v, 1)
  BY DEF WriteLenEncode, WriteU8
<1>5. v >= 251 /\ v < 2^16 => WriteLenEncode(v) = <<252>> \o LittleEndian(v, 2)
  BY SMT DEF WriteLenEncode, WriteU16
<1>6. v >= 2^16 => WriteLenEncode(v) = <<253>> \o LittleEndian(v, 3)
  BY SMT DEF WriteLenEncode, WriteU24
<1>7. v < 251 \/ (v >= 251 /\ v < 2^16) \/ v >= 2^16
  BY SMT
<1> QED BY <1>1, <1>3, <1>4, <1>5, <1>6, <1>7, Zenon

\* A length is read by the protocol as it was written, up to 2^24.
LEMMA NumberReadBack ==
  ASSUME NEW p \in Seq(Byte), NEW at \in Nat \ {0}, NEW v \in Nat, v < 2^24,
         Stands(p, at, WriteLenEncode(v))
  PROVE  ProtocolNumber(p, at) = [val |-> v, at |-> at + Len(WriteLenEncode(v))]
<1>0. Len(p) \in Nat /\ DOMAIN p = 1..Len(p)
  BY LenProperties
<1>1. CASE v < 251
  <2>1. WriteLenEncode(v) = LittleEndian(v, 1) /\ Len(WriteLenEncode(v)) = 1
    BY <1>1, LenEncodeBytes
  <2>2. LittleEndian(v, 1)[1] = Lo(v)
    BY LittleEndianBytes
  <2>3. Lo(v) = v
    BY <1>1, SMT DEF Lo
  <2>4. at + 1 - 1 \in 1..Len(p) /\ p[at + 1 - 1] = WriteLenEncode(v)[1]
    BY <2>1 DEF Stands
  <2>5. at \in DOMAIN p /\ at <= Len(p) /\ p[at] = v
    BY <1>0, <2>1, <2>2, <2>3, <2>4
  <2> DEFINE first == IF at \in DOMAIN p THEN p[at] ELSE 256
             wide == CASE first < 251 -> 0 [] first = 252 -> 2 [] first = 253 -> 3 [] OTHER -> 9
  <2>6. ProtocolNumber(p, at) =
          IF at + wide > Len(p) \/ wide = 9 THEN [val |-> -1, at |-> at]
          ELSE IF wide = 0 THEN [val |-> first, at |-> at + 1]
          ELSE [val |-> FromBytes(p, at + 1, wide), at |-> at + 1 + wide]
    BY DEF ProtocolNumber
  <2>7. first = v /\ wide = 0
    BY <1>1, <2>5
  <2> HIDE DEF first, wide
  <2>8. ~(at + wide > Len(p) \/ wide = 9) /\ wide = 0
    BY <1>0, <2>5, <2>7
  <2> QED BY <2>1, <2>6, <2>7, <2>8, Zenon
<1>2. CASE v >= 251 /\ v < 2^16
  <2>1. WriteLenEncode(v) = <<252>> \o LittleEndian(v, 2) /\ Len(WriteLenEncode(v)) = 3
    BY <1>2, LenEncodeBytes
  <2>2. 252 \in Byte /\ LittleEndian(v, 2) \in Seq(Byte)
    BY LittleEndianBytes DEF Byte
  <2>3. at \in 1..Len(p) /\ p[at] = 252 /\ Stands(p, at + 1, LittleEndian(v, 2))
    BY <2>1, <2>2, MarkedStands
  <2>4. at \in Nat /\ 3 \in Nat \ {0} /\ Len(WriteLenEncode(v)) = 3
    BY <2>1
  <2>5. at + 3 - 1 \in 1..Len(p)
    BY ONLY <2>4, StandsToItsEnd, Stands(p, at, WriteLenEncode(v)), Zenon
  <2>6. at \in DOMAIN p /\ p[at] = 252 /\ at + 2 <= Len(p)
    BY <1>0, <2>3, <2>5
  <2>7. FromBytes(p, at + 1, 2) = v
    BY <1>2, <2>3, TwoBytesReadBack
  <2> QED BY <1>0, <2>1, <2>6, <2>7 DEF ProtocolNumber
<1>3. CASE v >= 2^16
  <2>1. WriteLenEncode(v) = <<253>> \o LittleEndian(v, 3) /\ Len(WriteLenEncode(v)) = 4
    BY <1>3, LenEncodeBytes
  <2>2. 253 \in Byte /\ LittleEndian(v, 3) \in Seq(Byte)
    BY LittleEndianBytes DEF Byte
  <2>3. at \in 1..Len(p) /\ p[at] = 253 /\ Stands(p, at + 1, LittleEndian(v, 3))
    BY <2>1, <2>2, MarkedStands
  <2>4. at \in Nat /\ 4 \in Nat \ {0} /\ Len(WriteLenEncode(v)) = 4
    BY <2>1
  <2>5. at + 4 - 1 \in 1..Len(p)
    BY ONLY <2>4, StandsToItsEnd, Stands(p, at, WriteLenEncode(v)), Zenon
  <2>6. at \in DOMAIN p /\ p[at] = 253 /\ at + 3 <= Len(p)
    BY <1>0, <2>3, <2>5
  <2>7. FromBytes(p, at + 1, 3) = v
    BY <2>3, ThreeBytesReadBack
  <2> QED BY <1>0, <2>1, <2>6, <2>7 DEF ProtocolNumber
<1> QED BY <1>1, <1>2, <1>3, SMT

-----------------------------------------------------------------------------
(* Strings *)

\* Whatever the number, its code is a sequence of one byte or more.
LEMMA LenEncodeIsBytes ==
  ASSUME NEW v \in Nat
  PROVE  WriteLenEncode(v) \in Seq(Byte) /\ Len(WriteLenEncode(v)) >= 1
<1>1. CASE v < 2^24
  <2> DEFINE w == WriteLenEncode(v)
  <2>1. /\ w \in Seq(Byte) /\ (v < 251 => Len(w) = 1)
        /\ (v >= 251 /\ v < 2^16 => Len(w) = 3) /\ (v >= 2^16 => Len(w) = 4)
    BY <1>1, LenEncodeBytes, Zenon
  <2> HIDE DEF w
  <2>2. v < 251 \/ (v >= 251 /\ v < 2^16) \/ v >= 2^16
    BY SMT
  <2>3. Len(w) = 1 \/ Len(w) = 3 \/ Len(w) = 4
    BY <2>1, <2>2, Zenon
  <2>4. Len(w) >= 1
    BY <2>3
  <2> QED BY <2>1, <2>4 DEF w
<1>2. CASE ~(v < 2^24)
  <2> DEFINE x == LittleEndian(v, 4)
             y == <<0, 0, 0, 0>>
  <2>1. WriteLenEncode(v) = <<254>> \o (x \o y)
    BY <1>2, SMT DEF WriteLenEncode, WriteU64
  <2>2. x \in Seq(Byte)
    BY LittleEndianBytes
  <2>3. y \in Seq(Byte)
    BY DEF Byte
  <2> HIDE DEF x, y
  <2>4. x \o y \in Seq(Byte) /\ Len(x \o y) \in Nat
    BY <2>2, <2>3, ConcatProperties, LenProperties
  <2>5. 254 \in Byte
    BY DEF Byte
  <2> DEFINE z == x \o y
  <2>6. z \in Seq(Byte) /\ Len(z) \in Nat
    BY <2>4
  <2> HIDE DEF z
  <2>7. <<254>> \o z \in Seq(Byte) /\ Len(<<254>> \o z) = 1 + Len(z)
    BY <2>5, <2>6, MarkedBytes
  <2>8. WriteLenEncode(v) = <<254>> \o z
    BY <2>1 DEF z
  <2>9. 1 + Len(z) >= 1
    BY <2>6
  <2> QED BY <2>7, <2>8, <2>9, Zenon
<1> QED BY <1>1, <1>2

LEMMA StringBytes ==
  ASSUME NEW s \in Seq(Byte)
  PROVE  /\ WriteLenEncodeString(s) \in Seq(Byte)
         /\ Len(WriteLenEncodeString(s)) = Len(WriteLenEncode(Len(s))) + Len(s)
         /\ Len(WriteLenEncodeString(s)) > Len(s)
<1>1. Len(s) \in Nat
  BY LenProperties
<1> DEFINE w == WriteLenEncode(Len(s))
<1>2. w \in Seq(Byte) /\ Len(w) >= 1 /\ Len(w) \in Nat
  BY <1>1, LenEncodeIsBytes, LenProperties
<1>3. WriteLenEncodeString(s) = w \o s
  BY DEF WriteLenEncodeString
<1> HIDE DEF w
<1>4. w \o s \in Seq(Byte) /\ Len(w \o s) = Len(w) + Len(s)
  BY <1>2, ConcatProperties
<1>5. WriteLenEncodeString(s) \in Seq(Byte) /\ Len(WriteLenEncodeString(s)) = Len(w) + Len(s)
      /\ Len(WriteLenEncodeString(s)) > Len(s)
  BY <1>1, <1>2, <1>3, <1>4
<1> QED BY <1>5 DEF w

\* A string is found behind its length.
LEMMA StringStands ==
  ASSUME NEW p \in Seq(Byte), NEW at \in Nat \ {0}, NEW s \in Seq(Byte), Len(s) < 2^24,
         Stands(p, at, WriteLenEncodeString(s))
  PROVE  \E start \in Nat :
           /\ ProtocolNumber(p, at) = [val |-> Len(s), at |-> start]
           /\ start + Len(s) = at + Len(WriteLenEncodeString(s))
           /\ start + Len(s) - 1 <= Len(p) /\ SubSeq(p, start, start + Len(s) - 1) = s
<1>1. Len(s) \in Nat /\ Len(p) \in Nat
  BY LenProperties
<1> DEFINE w == WriteLenEncode(Len(s))
<1>2. w \in Seq(Byte) /\ Len(w) \in Nat
  BY <1>1, LenEncodeIsBytes, LenProperties
<1>3. WriteLenEncodeString(s) = w \o s
  BY DEF WriteLenEncodeString
<1>4. Stands(p, at, w) /\ Stands(p, at + Len(w), s)
  BY <1>2, <1>3, StandsConcat
<1>5. ProtocolNumber(p, at) = [val |-> Len(s), at |-> at + Len(w)]
  BY <1>1, <1>4, NumberReadBack
<1>6. /\ WriteLenEncodeString(s) \in Seq(Byte)
      /\ Len(WriteLenEncodeString(s)) = Len(w) + Len(s) /\ Len(WriteLenEncodeString(s)) > Len(s)
  BY StringBytes
<1> DEFINE n == Len(WriteLenEncodeString(s))
<1>7. n \in Nat \ {0} /\ n = Len(w) + Len(s)
  BY <1>1, <1>2, <1>6
<1>8. at + n - 1 \in 1..Len(p)
  BY <1>7 DEF Stands
<1> HIDE DEF n, w
<1>9. at + Len(w) \in Nat \ {0}
  BY <1>2
<1>10. SubSeq(p, at + Len(w), (at + Len(w)) + Len(s) - 1) = s
  BY <1>4, <1>9, StandsCut
<1>11. (at + Len(w)) + Len(s) = at + n /\ (at + Len(w)) + Len(s) - 1 <= Len(p)
  BY <1>1, <1>2, <1>7, <1>8
<1> QED BY <1>5, <1>9, <1>10, <1>11 DEF n

\* A string after the other: what ProtocolStrings reads where they stand.
LEMMA StringsReadBack ==
  ASSUME NEW p \in Seq(Byte), NEW S \in Seq(Seq(Byte)), NEW place \in [0..Len(S) -> Nat \ {0}],
         place[0] = 1,
         \A i \in 1..Len(S) :
           /\ Len(S[i]) < 2^24
           /\ place[i] = place[i - 1] + Len(WriteLenEncodeString(S[i]))
           /\ Stands(p, place[i - 1], WriteLenEncodeString(S[i]))
  PROVE  ProtocolStrings(p, Len(S)) =
           [ok |-> TRUE, strings |-> S, rest |-> SubSeq(p, place[Len(S)], Len(p))]
<1> DEFINE n == Len(S)
           step(b) == LET len == ProtocolNumber(p, b.at)
                          end == len.at + len.val - 1
                      IN  IF b.ok /\ len.val >= 0 /\ end <= Len(p)
                            THEN [ok |-> TRUE, at |-> end + 1,
                                  strings |-> Append(b.strings, SubSeq(p, len.at, end))]
                            ELSE [b EXCEPT !.ok = FALSE]
           eqn(f) == f = [i \in 0..n |-> IF i = 0 THEN [ok |-> TRUE, strings |-> <<>>, at |-> 1]
                                         ELSE step(f[i - 1])]
           d == CHOOSE f : eqn(f)
           g == [i \in 0..n |-> [ok |-> TRUE, strings |-> SubSeq(S, 1, i), at |-> place[i]]]
<1>1. n \in Nat /\ \A i \in 1..n : S[i] \in Seq(Byte)
  BY LenProperties, ElementOfSeq
<1>2. ASSUME NEW i \in 1..n PROVE step(g[i - 1]) = g[i]
  <2>1. i - 1 \in 0..n /\ i \in 0..n
    BY <1>1
  <2> DEFINE b == g[i - 1]
  <2>2. b.ok = TRUE /\ b.strings = SubSeq(S, 1, i - 1) /\ b.at = place[i - 1]
    BY <2>1
  <2>3. g[i] = [ok |-> TRUE, strings |-> SubSeq(S, 1, i), at |-> place[i]]
    BY <2>1
  <2> HIDE DEF g, b
  <2>4. place[i - 1] \in Nat \ {0} /\ S[i] \in Seq(Byte) /\ place[i] \in Nat \ {0}
    BY <1>1, <2>1
  <2>5. PICK start \in Nat :
          /\ ProtocolNumber(p, place[i - 1]) = [val |-> Len(S[i]), at |-> start]
          /\ start + Len(S[i]) = place[i - 1] + Len(WriteLenEncodeString(S[i]))
          /\ start + Len(S[i]) - 1 <= Len(p) /\ SubSeq(p, start, start + Len(S[i]) - 1) = S[i]
    <3> DEFINE a == place[i - 1]
               t == S[i]
    <3>1. a \in Nat \ {0} /\ t \in Seq(Byte) /\ Len(t) < 2^24 /\ Stands(p, a, WriteLenEncodeString(t))
      BY <2>4
    <3> HIDE DEF a, t
    <3>2. \E start \in Nat :
            /\ ProtocolNumber(p, a) = [val |-> Len(t), at |-> start]
            /\ start + Len(t) = a + Len(WriteLenEncodeString(t))
            /\ start + Len(t) - 1 <= Len(p) /\ SubSeq(p, start, start + Len(t) - 1) = t
      BY <3>1, StringStands, Zenon
    <3> QED BY <3>2 DEF a, t
  <2> DEFINE len == ProtocolNumber(p, b.at)
             end == len.at + len.val - 1
  <2>6. Len(S[i]) \in Nat /\ len.at = start /\ len.val = Len(S[i])
    BY <2>2, <2>4, <2>5, LenProperties
  <2> HIDE DEF len
  <2>7. /\ end = start + Len(S[i]) - 1 /\ end + 1 = place[i] /\ end <= Len(p) /\ len.val >= 0
        /\ SubSeq(p, len.at, end) = S[i]
    BY <2>4, <2>5, <2>6
  <2>8. Append(SubSeq(S, 1, i - 1), S[i]) = SubSeq(S, 1, i)
    BY <1>1, <2>1, SMT
  <2> HIDE DEF end
  <2>9. step(b) = [ok |-> TRUE, at |-> end + 1, strings |-> Append(b.strings, SubSeq(p, len.at, end))]
    BY <2>2, <2>7, Zenon DEF len, end
  <2> HIDE DEF step
  <2>10. step(b) = g[i]
    BY <2>2, <2>3, <2>5, <2>7, <2>8, <2>9
  <2> QED BY <2>10 DEF b
<1>3. g[0] = [ok |-> TRUE, strings |-> <<>>, at |-> 1]
  <2>1. 0 \in 0..n /\ SubSeq(S, 1, 0) = <<>>
    BY <1>1, SubSeqEmpty
  <2> QED BY <2>1
<1>4. g = [i \in 0..n |-> g[i]]
  OBVIOUS
<1>5. g[n] = [ok |-> TRUE, strings |-> S, at |-> place[n]]
  <2>1. n \in 0..n /\ SubSeq(S, 1, n) = S
    BY <1>1, SubSeqFull
  <2> QED BY <2>1
<1>6. ProtocolStrings(p, n) = [ok |-> d[n].ok, strings |-> d[n].strings,
                               rest |-> SubSeq(p, d[n].at, Len(p))]
  BY DEF ProtocolStrings
<1> HIDE DEF g, step
<1>7. eqn(g)
  <2>1. \A i \in 0..n : g[i] = IF i = 0 THEN [ok |-> TRUE, strings |-> <<>>, at |-> 1]
                                        ELSE step(g[i - 1])
    <3> TAKE i \in 0..n
    <3>1. i = 0 \/ (i # 0 /\ i \in 1..n)
      BY <1>1
    <3> QED BY <1>2, <1>3, <3>1, Zenon
  <2> QED BY <1>4, <2>1, Zenon
<1>8. eqn(d)
  BY <1>7, Zenon
<1> HIDE DEF d
<1>9. d[0] = g[0]
  <2>1. 0 \in 0..n
    BY <1>1
  <2> QED BY <1>3, <1>8, <2>1, Zenon
<1>10. \A i \in 1..n : d[i] = step(d[i - 1])
  <2> TAKE i \in 1..n
  <2>1. i \in 0..n /\ i # 0
    BY <1>1
  <2> QED BY <1>8, <2>1, Zenon
<1> DEFINE P == {i \in Nat : i <= n => d[i] = g[i]}
<1>11. 0 \in P
  BY <1>9
<1>12. ASSUME NEW i \in P PROVE i + 1 \in P
  <2>1. CASE i + 1 <= n
    <3>1. i + 1 \in 1..n /\ (i + 1) - 1 = i /\ d[i] = g[i]
      BY <1>1, <2>1
    <3>2. d[i + 1] = step(d[i]) /\ g[i + 1] = step(g[i])
      BY <1>2, <1>10, <3>1
    <3> QED BY <3>1, <3>2
  <2> QED BY <2>1
<1>13. P = Nat
  BY <1>11, <1>12, InductionOnSets
<1>14. d[n] = g[n]
  BY <1>1, <1>13
<1> QED BY <1>5, <1>6, <1>14

Strings == Seq(Byte)

\* Recursion for strings.
LEMMA StringRecursion ==
  ASSUME NEW a \in Strings, NEW h \in [Nat -> [Strings -> Strings]], NEW n \in Nat
  PROVE  \E f \in [0..n -> Strings] : f[0] = a /\ \A i \in 1..n : f[i] = h[i][f[i - 1]]
BY Recursion

\* What FlattenSeq joins, part after part.
Joins(f, seqs) ==
  /\ f \in [0..Len(seqs) -> Seq(Byte)] /\ f[0] = <<>>
  /\ \A i \in 1..Len(seqs) : f[i] = f[i - 1] \o seqs[i]

LEMMA FlattenJoins ==
  ASSUME NEW seqs \in Seq(Seq(Byte)), Len(seqs) > 0
  PROVE  \E f : Joins(f, seqs) /\ FlattenSeq(seqs) = f[Len(seqs)]
<1> DEFINE n == Len(seqs)
<1>1. n \in Nat \ {0} /\ \A i \in 1..n : seqs[i] \in Seq(Byte)
  BY LenProperties, ElementOfSeq
<1> DEFINE h == [i \in Nat |-> [x \in Seq(Byte) |-> IF i \in 1..n THEN x \o seqs[i] ELSE x]]
<1>2. h \in [Nat -> [Seq(Byte) -> Seq(Byte)]]
  <2>1. \A i \in Nat : \A x \in Seq(Byte) : (IF i \in 1..n THEN x \o seqs[i] ELSE x) \in Seq(Byte)
    BY <1>1, ConcatProperties
  <2> QED BY <2>1
<1>3. ASSUME NEW i \in 1..n, NEW x \in Seq(Byte) PROVE h[i][x] = x \o seqs[i]
  <2>1. i \in Nat
    BY <1>1
  <2> QED BY <2>1, Zenon
<1> HIDE DEF h
<1>4. <<>> \in Seq(Byte)
  BY EmptySeq
<1>5. PICK f \in [0..n -> Seq(Byte)] : f[0] = <<>> /\ \A i \in 1..n : f[i] = h[i][f[i - 1]]
  <2> DEFINE e == <<>>
  <2>1. n \in Nat /\ e \in Strings /\ h \in [Nat -> [Strings -> Strings]]
    BY <1>1, <1>2, <1>4 DEF Strings
  <2> HIDE DEF e, n
  <2>2. \E f \in [0..n -> Strings] : f[0] = e /\ \A i \in 1..n : f[i] = h[i][f[i - 1]]
    BY <2>1, StringRecursion
  <2> QED BY <2>2 DEF e, Strings
<1>6. \A i \in 1..n : f[i] = f[i - 1] \o seqs[i]
  <2> TAKE i \in 1..n
  <2>1. i - 1 \in 0..n
    BY <1>1
  <2>2. f[i - 1] \in Seq(Byte)
    BY <2>1
  <2> QED BY <1>3, <1>5, <2>2
<1>7. Joins(f, seqs)
  BY <1>5, <1>6 DEF Joins
<1> DEFINE eqn(g) == g = [i \in 1..n |-> IF i = 1 THEN seqs[i] ELSE g[i - 1] \o seqs[i]]
           d == CHOOSE g : eqn(g)
<1>8. f[1] = seqs[1]
  <2>1. 1 \in 1..n /\ 1 - 1 = 0 /\ seqs[1] \in Seq(Byte)
    BY <1>1
  <2>2. f[1] = <<>> \o seqs[1]
    BY <1>5, <1>6, <2>1
  <2> QED BY <2>1, <2>2, ConcatEmptySeq
<1>9. \E g : eqn(g)
  <2> DEFINE g == [i \in 1..n |-> f[i]]
  <2>1. \A i \in 1..n : g[i] = IF i = 1 THEN seqs[i] ELSE g[i - 1] \o seqs[i]
    <3> TAKE i \in 1..n
    <3>1. CASE i = 1
      BY <1>8, <3>1
    <3>2. CASE i # 1
      <4>1. i - 1 \in 1..n
        BY <1>1, <3>2
      <4> QED BY <1>6, <3>2, <4>1
    <3> QED BY <3>1, <3>2
  <2>2. g = [i \in 1..n |-> g[i]]
    OBVIOUS
  <2> HIDE DEF g
  <2>3. eqn(g)
    BY <2>1, <2>2, Zenon
  <2> QED BY <2>3, Zenon
<1>10. FlattenSeq(seqs) = d[n]
  BY <1>1 DEF FlattenSeq
<1>11. eqn(d)
  BY <1>9, Zenon
<1> HIDE DEF d
<1>12. \A i \in 1..n : d[i] = IF i = 1 THEN seqs[i] ELSE d[i - 1] \o seqs[i]
  BY <1>11, Zenon
<1> DEFINE P == {m \in Nat : m + 1 <= n => d[m + 1] = f[m + 1]}
<1>13. 0 \in P
  <2>1. 0 + 1 = 1 /\ 1 \in 1..n
    BY <1>1
  <2> QED BY <1>8, <1>12, <2>1
<1>14. ASSUME NEW m \in P PROVE m + 1 \in P
  <2>1. CASE (m + 1) + 1 <= n
    <3>1. (m + 1) + 1 \in 1..n /\ (m + 1) + 1 # 1 /\ ((m + 1) + 1) - 1 = m + 1 /\ m + 1 <= n
      BY <1>1, <2>1
    <3>2. d[m + 1] = f[m + 1]
      BY <3>1
    <3>3. d[(m + 1) + 1] = d[m + 1] \o seqs[(m + 1) + 1]
      BY <1>12, <3>1
    <3>4. f[(m + 1) + 1] = f[m + 1] \o seqs[(m + 1) + 1]
      BY <1>6, <3>1
    <3>5. d[(m + 1) + 1] = f[(m + 1) + 1] /\ m + 1 \in Nat
      BY <3>2, <3>3, <3>4
    <3> QED BY <3>5
  <2> QED BY <2>1
<1>15. P = Nat
  BY <1>13, <1>14, InductionOnSets
<1>16. d[n] = f[n]
  <2>1. n - 1 \in Nat /\ (n - 1) + 1 = n
    BY <1>1
  <2>2. n - 1 \in P
    BY <1>15, <2>1
  <2> QED BY <1>1, <2>1, <2>2
<1> QED BY <1>7, <1>10, <1>16

\* A part stands behind those before it.
LEMMA PartsStand ==
  ASSUME NEW seqs \in Seq(Seq(Byte)), NEW f, Joins(f, seqs)
  PROVE  \A i \in 1..Len(seqs) : Stands(f[Len(seqs)], Len(f[i - 1]) + 1, seqs[i])
<1> DEFINE n == Len(seqs)
<1>1. /\ n \in Nat /\ (\A i \in 1..n : seqs[i] \in Seq(Byte))
      /\ f \in [0..n -> Seq(Byte)] /\ \A i \in 1..n : f[i] = f[i - 1] \o seqs[i]
  BY LenProperties, ElementOfSeq DEF Joins
<1> DEFINE P == {m \in Nat : m <= n => \A i \in 1..m : Stands(f[m], Len(f[i - 1]) + 1, seqs[i])}
<1>2. 0 \in P
  <2>1. 1..0 = {}
    OBVIOUS
  <2> QED BY <2>1, Zenon
<1>3. ASSUME NEW m \in P PROVE m + 1 \in P
  <2>0. m \in Nat
    OBVIOUS
  <2>1. ASSUME m + 1 <= n, NEW i \in 1..(m + 1)
        PROVE  Stands(f[m + 1], Len(f[i - 1]) + 1, seqs[i])
    <3>1. m + 1 \in 1..n /\ (m + 1) - 1 = m /\ m \in 0..n /\ m <= n /\ i \in 1..n /\ i - 1 \in 0..n
      BY <1>1, <2>0, <2>1
    <3>2. /\ f[m + 1] = f[m] \o seqs[m + 1] /\ f[m] \in Seq(Byte) /\ seqs[m + 1] \in Seq(Byte)
          /\ seqs[i] \in Seq(Byte) /\ f[i - 1] \in Seq(Byte)
      BY <1>1, <3>1
    <3>3. CASE i = m + 1
      BY <3>1, <3>2, <3>3, StandsBehind
    <3>4. CASE i # m + 1
      <4>1. i \in 1..m
        BY <2>0, <3>4
      <4>2. Stands(f[m], Len(f[i - 1]) + 1, seqs[i])
        BY <3>1, <4>1
      <4>3. Len(f[i - 1]) + 1 \in Nat
        BY <3>2, LenProperties
      <4> QED BY <3>2, <4>2, <4>3, StandsExtended
    <3> QED BY <3>3, <3>4
  <2> QED BY <2>0, <2>1
<1>4. P = Nat
  BY <1>2, <1>3, InductionOnSets
<1>5. n <= n
  BY <1>1
<1>6. n \in P
  BY <1>1, <1>4, Zenon
<1> QED BY <1>5, <1>6, Zenon

-----------------------------------------------------------------------------
(* Packets *)

\* The first byte of a short string's code is no mark of another packet.
LEMMA FirstOfString ==
  ASSUME NEW p \in Seq(Byte), NEW s \in Seq(Byte), Len(s) < 2^16,
         Stands(p, 1, WriteLenEncodeString(s))
  PROVE  p # <<>> /\ p[1] \in Nat /\ p[1] < 253
<1>1. Len(s) \in Nat /\ Len(p) \in Nat
  BY LenProperties
<1> DEFINE v == Len(s)
           w == WriteLenEncode(v)
<1>2. w \in Seq(Byte) /\ Len(w) >= 1 /\ Len(w) \in Nat
  BY <1>1, LenEncodeIsBytes, LenProperties
<1>3. Stands(p, 1, w)
  BY <1>2, StandsConcat DEF WriteLenEncodeString
<1>4. v < 2^24
  BY <1>1, SMT
<1>5. 1 \in 1..Len(p) /\ p[1] = w[1]
  <2>1. 1 \in 1..Len(w) /\ 1 + 1 - 1 = 1
    BY <1>2
  <2> HIDE DEF w
  <2> QED BY <1>3, <2>1 DEF Stands
<1>8. p # <<>>
  BY <1>1, <1>5
<1>6. CASE v < 251
  <2>1. w = LittleEndian(v, 1) /\ LittleEndian(v, 1)[1] = Lo(v)
    BY <1>1, <1>4, <1>6, LenEncodeBytes, LittleEndianBytes
  <2>2. Lo(v) = v
    BY <1>1, <1>6, SMT DEF Lo
  <2>3. p[1] = v
    BY <1>5, <2>1, <2>2, Zenon
  <2>4. v \in Nat /\ v < 253
    BY <1>1, <1>6
  <2> QED BY <1>8, <2>3, <2>4, Zenon
<1>7. CASE v >= 251
  <2>1. w = <<252>> \o LittleEndian(v, 2)
    BY <1>1, <1>4, <1>7, LenEncodeBytes
  <2>2. LittleEndian(v, 2) \in Seq(Byte) /\ 252 \in Byte
    BY <1>1, LittleEndianBytes DEF Byte
  <2>3. w[1] = 252
    BY <2>1, <2>2, MarkedBytes
  <2> QED BY <1>1, <1>5, <2>3
<1> QED BY <1>1, <1>6, <1>7

\* \o under a name of its own, which the provers do not look into.
Cat(a, b) == a \o b

\* The codes of the strings of row, one after the other.
StringParts(row, seqs, f) ==
  /\ row \in Seq(Seq(Byte)) /\ Len(row) > 0
  /\ seqs \in Seq(Seq(Byte)) /\ Len(seqs) = Len(row)
  /\ \A i \in 1..Len(row) : seqs[i] = WriteLenEncodeString(row[i])
  /\ Joins(f, seqs)

\* They make up a packet of 255 bytes at most with the rest r.
StringPacket(p, row, seqs, f, r) ==
  StringParts(row, seqs, f) /\ r \in Seq(Byte) /\ p = Cat(f[Len(row)], r) /\ Len(p) <= 255

\* Where the strings of a packet stand, and its rest behind them.
StringPlaces(p, row, place) ==
  /\ place \in [0..Len(row) -> Nat \ {0}] /\ place[0] = 1
  /\ \A i \in 1..Len(row) :
       /\ Len(row[i]) < 2^16 /\ Len(row[i]) < 2^24
       /\ place[i] = place[i - 1] + Len(WriteLenEncodeString(row[i]))
       /\ Stands(p, place[i - 1], WriteLenEncodeString(row[i]))

LEMMA StringsStand ==
  ASSUME NEW p, NEW row, NEW seqs, NEW f, NEW r, StringPacket(p, row, seqs, f, r)
  PROVE  /\ p \in Seq(Byte) /\ row \in Seq(Seq(Byte)) /\ r \in Seq(Byte)
         /\ Len(f[Len(row)]) \in Nat /\ Len(p) = Len(f[Len(row)]) + Len(r)
         /\ Stands(p, Len(f[Len(row)]) + 1, r)
         /\ \E place : StringPlaces(p, row, place) /\ place[Len(row)] = Len(f[Len(row)]) + 1
<1> DEFINE n == Len(row)
           q == f[n]
<1>0. /\ row \in Seq(Seq(Byte)) /\ Len(row) > 0
      /\ seqs \in Seq(Seq(Byte)) /\ Len(seqs) = Len(row)
      /\ \A i \in 1..Len(row) : seqs[i] = WriteLenEncodeString(row[i])
      /\ Joins(f, seqs) /\ r \in Seq(Byte) /\ Len(p) <= 255
  BY DEF StringParts, StringPacket
<1>1. n \in Nat \ {0} /\ \A i \in 1..n : row[i] \in Seq(Byte)
  BY <1>0, LenProperties, ElementOfSeq
<1>6. f \in [0..n -> Seq(Byte)] /\ f[0] = <<>> /\ \A i \in 1..n : f[i] = f[i - 1] \o seqs[i]
  BY <1>0 DEF Joins
<1>5. q \in Seq(Byte)
  <2>1. n \in 0..n
    BY <1>1
  <2> QED BY <1>6, <2>1
<1>8. \A i \in 1..n : Stands(q, Len(f[i - 1]) + 1, WriteLenEncodeString(row[i]))
  BY <1>0, PartsStand
<1>2. p = q \o r
  BY DEF Cat, StringPacket
<1> HIDE DEF q
<1>7. p \in Seq(Byte) /\ Len(p) \in Nat /\ Len(q) \in Nat /\ Len(p) = Len(q) + Len(r) /\ Len(r) \in Nat
  BY <1>0, <1>2, <1>5, Joined, LenProperties
<1> DEFINE place == [i \in 0..n |-> Len(f[i]) + 1]
<1>9. place \in [0..n -> Nat \ {0}]
  <2>1. \A i \in 0..n : Len(f[i]) \in Nat
    BY <1>6, LenProperties
  <2> QED BY <2>1
<1>10. place[0] = 1
  <2>1. 0 \in 0..n /\ Len(<<>>) = 0
    BY <1>1
  <2> QED BY <1>6, <2>1
<1>11. ASSUME NEW i \in 1..n
       PROVE  /\ Len(row[i]) < 2^16 /\ Len(row[i]) < 2^24
              /\ place[i] = place[i - 1] + Len(WriteLenEncodeString(row[i]))
              /\ Stands(p, place[i - 1], WriteLenEncodeString(row[i]))
  <2>1. i - 1 \in 0..n /\ i \in 0..n
    BY <1>1
  <2>2. f[i - 1] \in Seq(Byte) /\ row[i] \in Seq(Byte) /\ Len(f[i - 1]) \in Nat /\ Len(row[i]) \in Nat
    BY <1>1, <1>6, <2>1, LenProperties
  <2> DEFINE a == WriteLenEncodeString(row[i])
  <2>3. a \in Seq(Byte) /\ Len(a) > Len(row[i]) /\ Len(a) \in Nat
    BY <2>2, StringBytes, LenProperties
  <2>4. place[i] = place[i - 1] + Len(a)
    <3>1. f[i] = f[i - 1] \o a
      BY <1>0, <1>6
    <3> HIDE DEF a
    <3>2. Len(f[i]) = Len(f[i - 1]) + Len(a)
      BY <2>2, <2>3, <3>1, ConcatProperties
    <3>3. place[i] = Len(f[i]) + 1 /\ place[i - 1] = Len(f[i - 1]) + 1
      BY <2>1, Zenon
    <3> HIDE DEF place
    <3> QED BY <2>2, <2>3, <3>2, <3>3
  <2>5. Stands(p, place[i - 1], a)
    <3>1. Stands(q, Len(f[i - 1]) + 1, a)
      BY <1>8
    <3> HIDE DEF a
    <3>2. Len(f[i - 1]) + 1 \in Nat
      BY <2>2
    <3>3. Stands(q \o r, Len(f[i - 1]) + 1, a)
      BY <1>0, <1>5, <2>3, <3>1, <3>2, StandsExtended, Zenon
    <3> QED BY <1>2, <2>1, <3>3
  <2> HIDE DEF a, place
  <2>6. place[i - 1] + Len(a) - 1 \in 1..Len(p) /\ place[i - 1] \in Nat \ {0}
    <3>1. Len(a) \in 1..Len(a)
      BY <2>2, <2>3
    <3>2. place[i - 1] + Len(a) - 1 \in 1..Len(p)
      BY <2>5, <3>1, Zenon DEF Stands
    <3> QED BY <1>9, <2>1, <3>2
  <2>7. Len(row[i]) < 255
    <3> DEFINE k == place[i - 1]
               m == Len(row[i])
               la == Len(a)
               lp == Len(p)
    <3>1. k \in Nat \ {0} /\ m \in Nat /\ la \in Nat /\ lp \in Nat /\ m < la /\ k + la - 1 <= lp
          /\ lp <= 255
      BY <1>0, <1>7, <2>2, <2>3, <2>6
    <3> HIDE DEF k, m, la, lp
    <3>2. m < 255
      BY <3>1
    <3> QED BY <3>2 DEF m
  <2>8. Len(row[i]) < 2^16 /\ Len(row[i]) < 2^24
    BY <2>2, <2>7, SMT
  <2> QED BY <2>4, <2>5, <2>8 DEF a
<1>12. place[n] = Len(q) + 1
  <2>1. n \in 0..n
    BY <1>1
  <2> QED BY <2>1 DEF q
<1>13. Stands(p, Len(q) + 1, r)
  BY <1>0, <1>2, <1>5, StandsBehind
<1> HIDE DEF place
<1>14. StringPlaces(p, row, place)
  BY <1>9, <1>10, <1>11 DEF StringPlaces
<1> QED BY <1>0, <1>7, <1>12, <1>13, <1>14 DEF q

\* Strings at the start of a packet are read, and what follows them is the rest.
LEMMA StringsFirst ==
  ASSUME NEW p, NEW row, NEW seqs, NEW f, NEW r, StringPacket(p, row, seqs, f, r)
  PROVE  /\ p \in Seq(Byte) /\ p # <<>> /\ p[1] \in Nat /\ p[1] < 253
         /\ ProtocolStrings(p, Len(row)) = [ok |-> TRUE, strings |-> row, rest |-> r]
<1> DEFINE n == Len(row)
           q == f[n]
<1>1. n \in Nat \ {0} /\ \A i \in 1..n : row[i] \in Seq(Byte)
  BY LenProperties, ElementOfSeq DEF StringParts, StringPacket
<1>2. /\ p \in Seq(Byte) /\ row \in Seq(Seq(Byte)) /\ r \in Seq(Byte) /\ Len(q) \in Nat
      /\ Len(p) = Len(q) + Len(r) /\ Stands(p, Len(q) + 1, r) /\ Len(r) \in Nat
  BY StringsStand, LenProperties
<1>3. PICK place : StringPlaces(p, row, place) /\ place[n] = Len(q) + 1
  BY StringsStand
<1>4. /\ place \in [0..n -> Nat \ {0}] /\ place[0] = 1
      /\ \A i \in 1..n : /\ Len(row[i]) < 2^16 /\ Len(row[i]) < 2^24
                         /\ place[i] = place[i - 1] + Len(WriteLenEncodeString(row[i]))
                         /\ Stands(p, place[i - 1], WriteLenEncodeString(row[i]))
  BY <1>3 DEF StringPlaces
<1> HIDE DEF q
<1>5. 1 \in 1..n /\ 1 - 1 = 0
  BY <1>1
<1>6. p # <<>> /\ p[1] \in Nat /\ p[1] < 253
  <2>1. Stands(p, 1, WriteLenEncodeString(row[1])) /\ Len(row[1]) < 2^16 /\ row[1] \in Seq(Byte)
    BY <1>1, <1>4, <1>5
  <2> QED BY <1>2, <2>1, FirstOfString
<1>7. ProtocolStrings(p, n) = [ok |-> TRUE, strings |-> row, rest |-> SubSeq(p, place[n], Len(p))]
  BY <1>2, <1>4, StringsReadBack
<1>8. SubSeq(p, place[n], Len(p)) = r
  <2>1. Len(q) + 1 \in Nat \ {0} /\ (Len(q) + 1) + Len(r) - 1 = Len(p)
    BY <1>2
  <2>2. SubSeq(p, Len(q) + 1, (Len(q) + 1) + Len(r) - 1) = r
    BY <1>2, <2>1, StandsCut
  <2> QED BY <1>3, <2>1, <2>2
<1> QED BY <1>2, <1>6, <1>7, <1>8

\* A row of one cell or more is read as it was packed, and is no end mark.
LEMMA RowReadBack ==
  ASSUME NEW row \in Seq(Seq(Byte)), Len(row) > 0, ~(Len(RowPack(row)) > 255)
  PROVE  /\ RowPack(row) \in Seq(Byte) /\ Len(RowPack(row)) <= 255 /\ ~IsEof(RowPack(row))
         /\ ProtocolStrings(RowPack(row), Len(row)) = [ok |-> TRUE, strings |-> row, rest |-> <<>>]
         /\ \E place : StringPlaces(RowPack(row), row, place)
<1> DEFINE n == Len(row)
           seqs == [i \in 1..n |-> WriteLenEncodeString(row[i])]
           p == RowPack(row)
<1>1. n \in Nat \ {0} /\ \A i \in 1..n : row[i] \in Seq(Byte)
  BY LenProperties, ElementOfSeq
<1>2. seqs \in Seq(Seq(Byte)) /\ Len(seqs) = n
  <2>1. \A i \in 1..n : WriteLenEncodeString(row[i]) \in Seq(Byte)
    BY <1>1, StringBytes
  <2> QED BY <1>1, <2>1
<1>3. \A i \in 1..n : seqs[i] = WriteLenEncodeString(row[i])
  OBVIOUS
<1>4. p = FlattenSeq(seqs)
  BY DEF RowPack
<1> HIDE DEF seqs
<1>5. PICK f : Joins(f, seqs) /\ FlattenSeq(seqs) = f[Len(seqs)]
  BY <1>1, <1>2, FlattenJoins
<1>6. p = f[n] /\ f[n] \in Seq(Byte)
  <2>1. n \in 0..n
    BY <1>1
  <2> QED BY <1>2, <1>4, <1>5, <2>1 DEF Joins
<1>7. Len(p) <= 255
  <2>1. p \in Seq(Byte) /\ ~(Len(p) > 255)
    BY <1>6
  <2> HIDE DEF p
  <2>2. Len(p) \in Nat
    BY <2>1, LenProperties
  <2> QED BY <2>1, <2>2
<1> HIDE DEF p
<1> DEFINE r == <<>>
<1>8. p = Cat(f[n], r) /\ r \in Seq(Byte)
  <2>1. p \in Seq(Byte)
    BY <1>6
  <2>2. p \o <<>> = p
    BY <2>1, ConcatEmptySeq
  <2> QED BY <1>6, <2>2 DEF Cat
<1> HIDE DEF r
<1>9. /\ p \in Seq(Byte) /\ p # <<>> /\ p[1] \in Nat /\ p[1] < 253
      /\ ProtocolStrings(p, n) = [ok |-> TRUE, strings |-> row, rest |-> r]
      /\ \E place : StringPlaces(p, row, place)
  <2>1. StringParts(row, seqs, f)
    BY <1>2, <1>3, <1>5 DEF StringParts
  <2>2. StringPacket(p, row, seqs, f, r)
    BY <1>7, <1>8, <2>1 DEF StringPacket
  <2>3. \E place : StringPlaces(p, row, place)
    BY <2>2, StringsStand
  <2> QED BY <2>2, <2>3, StringsFirst
<1>10. p[1] # 254
  BY <1>9
<1>11. ~IsEof(p)
  BY <1>10, Zenon DEF IsEof
<1> QED BY <1>7, <1>9, <1>11 DEF p, r

\* The length of a code is at most four bytes up to 2^24.
LEMMA LenEncodeLength ==
  ASSUME NEW v \in Nat, v < 2^24
  PROVE  Len(WriteLenEncode(v)) \in Nat /\ Len(WriteLenEncode(v)) >= 1 /\ Len(WriteLenEncode(v)) <= 4
<1> DEFINE w == WriteLenEncode(v)
<1>1. /\ (v < 251 => Len(w) = 1)
      /\ (v >= 251 /\ v < 2^16 => Len(w) = 3) /\ (v >= 2^16 => Len(w) = 4)
  BY LenEncodeBytes, Zenon
<1> HIDE DEF w
<1>2. v < 251 \/ (v >= 251 /\ v < 2^16) \/ v >= 2^16
  BY SMT
<1>3. Len(w) = 1 \/ Len(w) = 3 \/ Len(w) = 4
  BY <1>1, <1>2, Zenon
<1>4. Len(w) \in Nat
  BY <1>3
<1> DEFINE k == Len(w)
<1>5. k = 1 \/ k = 3 \/ k = 4
  BY <1>3
<1> HIDE DEF k
<1>6. k >= 1 /\ k <= 4
  BY <1>5, SMT
<1> QED BY <1>4, <1>6 DEF w, k

\* An OK packet tells the number of rows and of warnings.
LEMMA OkReadBack ==
  ASSUME NEW rows \in Nat, rows < 2^24, NEW warnings \in Nat, warnings < 2^16
  PROVE  LET p == OkPack(rows, 0, 2, warnings)
         IN  /\ p \in Seq(Byte) /\ Len(p) <= 255 /\ p # <<>> /\ p[1] = 0
             /\ ProtocolNumber(p, 2).val = rows
             /\ FromBytes(p, Len(p) - 1, 2) = warnings
<1> DEFINE x == WriteU8(OK_PACKET)
           a == WriteLenEncode(rows)
           b == WriteLenEncode(0)
           c == WriteU16(2)
           e == WriteU16(warnings)
           p == OkPack(rows, 0, 2, warnings)
<1>1. x \in Seq(Byte) /\ Len(x) = 1 /\ x[1] = 0
  <2>1. Lo(0) = 0
    BY SMT DEF Lo
  <2>2. LittleEndian(0, 1) \in Seq(Byte) /\ Len(LittleEndian(0, 1)) = 1 /\ LittleEndian(0, 1)[1] = Lo(0)
    BY LittleEndianBytes
  <2> QED BY <2>1, <2>2 DEF WriteU8, OK_PACKET
<1>2. a \in Seq(Byte) /\ Len(a) \in Nat /\ Len(a) <= 4
  BY LenEncodeIsBytes, LenEncodeLength
<1>3. b \in Seq(Byte) /\ Len(b) = 1
  <2>1. 0 \in Nat /\ 0 < 2^24 /\ 0 < 251
    BY SMT
  <2> QED BY <2>1, LenEncodeBytes, Zenon
<1>4. c \in Seq(Byte) /\ Len(c) = 2 /\ e \in Seq(Byte) /\ Len(e) = 2
  BY LittleEndianBytes DEF WriteU16
<1>5. p = (((x \o a) \o b) \o c) \o e
  BY DEF OkPack
<1>6. e = LittleEndian(warnings, 2)
  BY DEF WriteU16
<1> HIDE DEF x, b, c, e, p
<1> DEFINE q1 == x \o a
           q2 == q1 \o b
           q3 == q2 \o c
<1>7. q1 \in Seq(Byte) /\ Len(q1) = 1 + Len(a)
  <2> HIDE DEF a
  <2> QED BY <1>1, <1>2, Joined
<1>8. Stands(q1, 2, a) /\ Stands(q1, 1, x)
  <2>1. Stands(x \o a, Len(x) + 1, a) /\ Stands(x, 1, x)
    BY <1>1, <1>2, StandsBehind, StandsWhole
  <2>2. Stands(x \o a, 1, x)
    BY <1>1, <1>2, <2>1, StandsExtended
  <2> QED BY <1>1, <2>1, <2>2
<1> HIDE DEF q1
<1>9. q2 \in Seq(Byte) /\ Len(q2) = 2 + Len(a) /\ Stands(q2, 2, a) /\ Stands(q2, 1, x)
  <2>1. q2 \in Seq(Byte) /\ Len(q2) = Len(q1) + Len(b)
    BY <1>3, <1>7, ConcatProperties
  <2>2. Stands(q2, 2, a) /\ Stands(q2, 1, x)
    BY <1>1, <1>2, <1>3, <1>7, <1>8, StandsExtended
  <2> QED BY <1>2, <1>3, <1>7, <2>1, <2>2
<1> HIDE DEF q2
<1>10. q3 \in Seq(Byte) /\ Len(q3) = 4 + Len(a) /\ Stands(q3, 2, a) /\ Stands(q3, 1, x)
  <2>1. q3 \in Seq(Byte) /\ Len(q3) = Len(q2) + Len(c)
    BY <1>4, <1>9, ConcatProperties
  <2>2. Stands(q3, 2, a) /\ Stands(q3, 1, x)
    BY <1>1, <1>2, <1>4, <1>9, StandsExtended
  <2> QED BY <1>2, <1>4, <1>9, <2>1, <2>2
<1>11. p = q3 \o e
  BY <1>5 DEF q1, q2
<1> HIDE DEF q3
<1>12. p \in Seq(Byte) /\ Len(p) = 6 + Len(a) /\ Stands(p, 2, a) /\ Stands(p, 1, x)
  <2>1. p \in Seq(Byte) /\ Len(p) = Len(q3) + Len(e)
    BY <1>4, <1>10, <1>11, ConcatProperties
  <2>2. Stands(p, 2, a) /\ Stands(p, 1, x)
    BY <1>1, <1>2, <1>4, <1>10, <1>11, StandsExtended
  <2> QED BY <1>2, <1>4, <1>10, <2>1, <2>2
<1>13. Stands(p, Len(p) - 1, e)
  <2>1. Stands(p, Len(q3) + 1, e)
    BY <1>4, <1>10, <1>11, StandsBehind
  <2>2. Len(q3) + 1 = Len(p) - 1
    BY <1>2, <1>10, <1>12
  <2> QED BY <2>1, <2>2
<1>14. FromBytes(p, Len(p) - 1, 2) = warnings
  <2>1. Len(p) - 1 \in Nat
    BY <1>2, <1>12
  <2> QED BY <1>6, <1>13, <2>1, TwoBytesReadBack
<1>15. ProtocolNumber(p, 2).val = rows
  <2>1. ProtocolNumber(p, 2) = [val |-> rows, at |-> 2 + Len(a)]
    BY <1>12, NumberReadBack
  <2> QED BY <2>1
<1>16. p[1] = 0
  <2>1. 1 \in 1..Len(x) /\ 1 + 1 - 1 = 1
    BY <1>1
  <2> QED BY <1>1, <1>12, <2>1 DEF Stands
<1>17. Len(p) <= 255 /\ p # <<>>
  BY <1>2, <1>12
<1> QED BY <1>12, <1>14, <1>15, <1>16, <1>17 DEF p

\* An end mark is short and begins with its mark.
LEMMA EofReadBack ==
  /\ EofPack(0, 2) \in Seq(Byte) /\ Len(EofPack(0, 2)) = 5 /\ IsEof(EofPack(0, 2))
<1> DEFINE x == LittleEndian(0, 2)
           y == LittleEndian(2, 2)
<1>1. x \in Seq(Byte) /\ Len(x) = 2 /\ y \in Seq(Byte) /\ Len(y) = 2
  BY LittleEndianBytes
<1>2. EofPack(0, 2) = (<<254>> \o x) \o y
  BY DEF EofPack, EOF_PACKET
<1>3. 254 \in Byte
  BY DEF Byte
<1> HIDE DEF x, y
<1> DEFINE q == <<254>> \o x
<1>4. q \in Seq(Byte) /\ Len(q) = 1 + Len(x) /\ q[1] = 254
  BY <1>1, <1>3, MarkedBytes
<1> HIDE DEF q
<1>5. /\ q \o y \in Seq(Byte) /\ Len(q \o y) = Len(q) + Len(y)
      /\ \A i \in 1..(Len(q) + Len(y)) : (q \o y)[i] = IF i <= Len(q) THEN q[i] ELSE y[i - Len(q)]
  <2>1. q \in Seq(Byte) /\ y \in Seq(Byte)
    BY <1>1, <1>4
  <2> QED BY <2>1, Joined
<1>6. Len(q \o y) = 5 /\ (q \o y)[1] = 254
  BY <1>1, <1>4, <1>5
<1>7. q \o y # <<>>
  BY <1>5, <1>6
<1>8. 5 < 9
  OBVIOUS
<1> QED BY <1>2, <1>5, <1>6, <1>7, <1>8, Zenon DEF q, IsEof

LEMMA FirstKept ==
  ASSUME NEW a \in Seq(Byte), NEW b \in Seq(Byte), a # <<>>
  PROVE  /\ a \o b \in Seq(Byte) /\ a \o b # <<>> /\ (a \o b)[1] = a[1]
         /\ Len(a \o b) = Len(a) + Len(b)
<1>1. 1 \in 1..(Len(a) + Len(b)) /\ 1 <= Len(a)
  BY LenProperties, EmptySeq
<1>2. a \o b # <<>>
  BY <1>1, Joined
<1> QED BY <1>1, <1>2, Joined

\* An error is told by its mark.
LEMMA ErrReadBack ==
  LET p == ErrPack(50, <<65, 66, 67, 68, 69>>, <<Letter>>)
  IN  p \in Seq(Byte) /\ Len(p) <= 255 /\ p # <<>> /\ p[1] = 255
<1> DEFINE x == WriteU8(ERR_PACKET)
           a == WriteU16(50)
           b == <<35>>
           c == <<65, 66, 67, 68, 69>>
           e == <<Letter>>
           p == ErrPack(50, <<65, 66, 67, 68, 69>>, <<Letter>>)
<1>1. x \in Seq(Byte) /\ Len(x) = 1 /\ x[1] = 255
  <2>1. Lo(255) = 255
    BY SMT DEF Lo
  <2>2. LittleEndian(255, 1) \in Seq(Byte) /\ Len(LittleEndian(255, 1)) = 1 /\ LittleEndian(255, 1)[1] = Lo(255)
    BY LittleEndianBytes
  <2> QED BY <2>1, <2>2 DEF WriteU8, ERR_PACKET
<1>2. a \in Seq(Byte) /\ Len(a) = 2
  BY LittleEndianBytes DEF WriteU16
<1>3. b \in Seq(Byte) /\ Len(b) = 1
  BY DEF Byte
<1>4. c \in Seq(Byte) /\ Len(c) = 5
  BY DEF Byte
<1>5. e \in Seq(Byte) /\ Len(e) = 1
  BY DEF Byte, Letter
<1>6. p = (((x \o a) \o b) \o c) \o e
  BY DEF ErrPack
<1> HIDE DEF x, a, b, c, e, p
<1> DEFINE q1 == x \o a
           q2 == q1 \o b
           q3 == q2 \o c
<1>7. q1 \in Seq(Byte) /\ q1 # <<>> /\ q1[1] = x[1] /\ Len(q1) = Len(x) + Len(a)
  <2>1. x # <<>>
    BY <1>1
  <2>2. x \in Seq(Byte) /\ a \in Seq(Byte)
    BY <1>1, <1>2
  <2> QED BY <2>1, <2>2, FirstKept
<1> HIDE DEF q1
<1>8. q2 \in Seq(Byte) /\ q2 # <<>> /\ q2[1] = x[1] /\ Len(q2) = Len(q1) + Len(b)
  <2>1. q1 \in Seq(Byte) /\ q1 # <<>> /\ b \in Seq(Byte)
    BY <1>3, <1>7
  <2> QED BY <1>7, <2>1, FirstKept
<1> HIDE DEF q2
<1>9. q3 \in Seq(Byte) /\ q3 # <<>> /\ q3[1] = x[1] /\ Len(q3) = Len(q2) + Len(c)
  <2>1. q2 \in Seq(Byte) /\ q2 # <<>> /\ c \in Seq(Byte)
    BY <1>4, <1>8
  <2> QED BY <1>8, <2>1, FirstKept
<1>10. p = q3 \o e
  BY <1>6 DEF q1, q2
<1> HIDE DEF q3
<1>11. p \in Seq(Byte) /\ p # <<>> /\ p[1] = x[1] /\ Len(p) = Len(q3) + Len(e)
  <2>1. q3 \in Seq(Byte) /\ q3 # <<>> /\ e \in Seq(Byte)
    BY <1>5, <1>9
  <2> QED BY <1>9, <1>10, <2>1, FirstKept
<1>12. Len(p) = 10
  BY <1>1, <1>2, <1>3, <1>4, <1>5, <1>7, <1>8, <1>9, <1>11
<1>13. Len(p) <= 255
  BY <1>12
<1> QED BY <1>1, <1>11, <1>13 DEF p

\* The header before a packet of 255 bytes at most: the client finds the packet,
\* its number, and nothing behind it.
LEMMA PacketBytes ==
  ASSUME NEW seq \in Byte, NEW p \in Seq(Byte), Len(p) <= 255
  PROVE  LET b == Packet(seq, p)
         IN  /\ b \in Seq(Byte) /\ Len(b) = 4 + Len(p)
             /\ FromBytes(b, 1, 3) = Len(p) /\ b[4] = seq
             /\ SubSeq(b, 5, 4 + Len(p)) = p /\ SubSeq(b, 5 + Len(p), Len(b)) = <<>>
             /\ b # <<>>
<1> DEFINE h == <<Len(p) % 256, 0, 0, seq>>
           b == Packet(seq, p)
<1>1. Len(p) \in Nat
  BY LenProperties
<1>2. Len(p) % 256 = Len(p) /\ Len(p) \in Byte /\ 0 \in Byte
  <2> DEFINE n == Len(p)
  <2>1. n \in Nat /\ n <= 255
    BY <1>1
  <2> HIDE DEF n
  <2>2. n % 256 = n
    BY <2>1, SMT
  <2>3. n \in 0..255 /\ 0 \in 0..255
    BY <2>1
  <2> QED BY <2>2, <2>3 DEF n, Byte
<1>3. h = <<Len(p), 0, 0, seq>>
  BY <1>2
<1>4. h \in Seq(Byte) /\ Len(h) = 4 /\ h[1] = Len(p) /\ h[2] = 0 /\ h[3] = 0 /\ h[4] = seq
  <2> DEFINE n == Len(p)
  <2>1. h = <<n, 0, 0, seq>> /\ n \in Byte /\ 0 \in Byte
    BY <1>2, <1>3
  <2> HIDE DEF n, h
  <2>2. h \in Seq(Byte) /\ Len(h) = 4 /\ h[1] = n /\ h[2] = 0 /\ h[3] = 0 /\ h[4] = seq
    BY <2>1
  <2> QED BY <2>2 DEF n
<1>5. b = h \o p
  BY DEF Packet
<1> HIDE DEF h, b
<1>6. /\ b \in Seq(Byte) /\ Len(b) = Len(h) + Len(p)
      /\ \A i \in 1..(Len(h) + Len(p)) : b[i] = IF i <= Len(h) THEN h[i] ELSE p[i - Len(h)]
  BY <1>4, <1>5, Joined
<1>7. b[1] = Len(p) /\ b[1 + 1] = 0 /\ b[1 + 2] = 0 /\ b[4] = seq
  <2>1. \A i \in 1..4 : b[i] = h[i]
    BY <1>1, <1>4, <1>6
  <2> QED BY <1>4, <2>1
<1>8. FromBytes(b, 1, 3) = Len(p)
  <2>1. b[1] \in Nat /\ b[1 + 1] \in Nat /\ b[1 + 2] \in Nat /\ 1 \in Nat
    BY <1>1, <1>7
  <2>2. FromBytes(b, 1, 3) = b[1] + b[1 + 1] * 256 + b[1 + 2] * 256^2
    BY <2>1, FromBytes3, Zenon
  <2>3. Len(p) + 0 * 256 + 0 * 256^2 = Len(p)
    BY <1>1, Powers, SMT
  <2> QED BY <1>7, <2>2, <2>3
<1>9. Stands(b, 5, p)
  <2>1. h \in Seq(Byte)
    BY <1>4
  <2>2. Stands(b, Len(h) + 1, p)
    BY <1>5, <2>1, StandsBehind
  <2>3. Len(h) + 1 = 5
    BY <1>4
  <2> QED BY <2>2, <2>3
<1>10. SubSeq(b, 5, 4 + Len(p)) = p
  <2>1. SubSeq(b, 5, 5 + Len(p) - 1) = p /\ 5 + Len(p) - 1 = 4 + Len(p)
    BY <1>1, <1>9, StandsCut
  <2> QED BY <2>1
<1>11. SubSeq(b, 5 + Len(p), Len(b)) = <<>>
  BY <1>1, <1>4, <1>6, SubSeqEmpty
<1>12. Len(b) = 4 + Len(p) /\ b # <<>>
  BY <1>1, <1>4, <1>6
<1> QED BY <1>6, <1>7, <1>8, <1>10, <1>11, <1>12 DEF b

\* The fixed part of a column definition.
FieldTail == <<12>> \o <<33, 0>> \o <<80, 0, 0, 0>> \o <<253>> \o <<0, 0>> \o <<0>> \o <<0, 0>>

LEMMA FieldTailBytes ==
  /\ WriteLenEncode(12) = <<12>> /\ WriteU16(33) = <<33, 0>> /\ WriteU32(80) = <<80, 0, 0, 0>>
  /\ WriteU8(253) = <<253>> /\ WriteU16(0) = <<0, 0>> /\ WriteU8(0) = <<0>>
<1>1. Lo(0) = 0 /\ Hi(0) = 0 /\ Lo(33) = 33 /\ Hi(33) = 0 /\ Lo(80) = 80 /\ Hi(80) = 0
      /\ Lo(253) = 253 /\ Lo(12) = 12
  BY SMT DEF Lo, Hi
<1>2. ASSUME NEW v \in Nat PROVE LittleEndian(v, 1) = <<Lo(v)>>
  <2> DEFINE w == LittleEndian(v, 1)
  <2>1. w \in Seq(Byte) /\ Len(w) = 1 /\ w[1] = Lo(v)
    BY LittleEndianBytes
  <2> HIDE DEF w
  <2>2. w = <<Lo(v)>>
    BY <2>1
  <2> QED BY <2>2 DEF w
<1>3. ASSUME NEW v \in Nat PROVE LittleEndian(v, 2) = <<Lo(v), Lo(Hi(v))>>
  <2> DEFINE w == LittleEndian(v, 2)
  <2>1. w \in Seq(Byte) /\ Len(w) = 2 /\ w[1] = Lo(v) /\ w[2] = Lo(Hi(v))
    BY LittleEndianBytes
  <2> HIDE DEF w
  <2>2. w = <<Lo(v), Lo(Hi(v))>>
    BY <2>1
  <2> QED BY <2>2 DEF w
<1>4. ASSUME NEW v \in Nat
      PROVE  LittleEndian(v, 4) = <<Lo(v), Lo(Hi(v)), Lo(Hi(Hi(v))), Lo(Hi(Hi(Hi(v))))>>
  <2> DEFINE w == LittleEndian(v, 4)
  <2>1. /\ w \in Seq(Byte) /\ Len(w) = 4 /\ w[1] = Lo(v) /\ w[2] = Lo(Hi(v))
        /\ w[3] = Lo(Hi(Hi(v))) /\ w[4] = Lo(Hi(Hi(Hi(v))))
    BY LittleEndianBytes
  <2> HIDE DEF w
  <2>2. w = <<Lo(v), Lo(Hi(v)), Lo(Hi(Hi(v))), Lo(Hi(Hi(Hi(v))))>>
    BY <2>1
  <2> QED BY <2>2 DEF w
<1>5. WriteLenEncode(12) = LittleEndian(12, 1)
  <2>1. 12 \in Nat /\ 12 < 2^24 /\ 12 < 251
    BY SMT
  <2> QED BY <2>1, LenEncodeBytes, Zenon
<1> QED BY <1>1, <1>2, <1>3, <1>4, <1>5 DEF WriteU8, WriteU16, WriteU32

LEMMA OneMore ==
  ASSUME NEW q \in Seq(Byte), NEW r \in Seq(Byte), NEW b \in Seq(Byte)
  PROVE  Cat(Cat(q, r), b) = Cat(q, Cat(r, b)) /\ Cat(r, b) \in Seq(Byte)
<1>1. r \o b \in Seq(Byte)
  BY Joined
<1>2. (q \o r) \o b = q \o (r \o b)
  BY JoinedThree
<1> QED BY <1>1, <1>2 DEF Cat

\* Eight sequences of bytes.
EightParts(q, b1, b2, b3, b4, b5, b6, b7) ==
  /\ q \in Seq(Byte) /\ b1 \in Seq(Byte) /\ b2 \in Seq(Byte) /\ b3 \in Seq(Byte)
  /\ b4 \in Seq(Byte) /\ b5 \in Seq(Byte) /\ b6 \in Seq(Byte) /\ b7 \in Seq(Byte)

LEMMA Reassociated ==
  ASSUME NEW q, NEW b1, NEW b2, NEW b3, NEW b4, NEW b5, NEW b6, NEW b7,
         EightParts(q, b1, b2, b3, b4, b5, b6, b7)
  PROVE  /\ Cat(Cat(Cat(Cat(Cat(Cat(Cat(q, b1), b2), b3), b4), b5), b6), b7)
              = Cat(q, Cat(Cat(Cat(Cat(Cat(Cat(b1, b2), b3), b4), b5), b6), b7))
         /\ Cat(Cat(Cat(Cat(Cat(Cat(b1, b2), b3), b4), b5), b6), b7) \in Seq(Byte)
<1> DEFINE r2 == Cat(b1, b2)
           r3 == Cat(r2, b3)
           r4 == Cat(r3, b4)
           r5 == Cat(r4, b5)
           r6 == Cat(r5, b6)
           r7 == Cat(r6, b7)
<1>1. /\ q \in Seq(Byte) /\ b1 \in Seq(Byte) /\ b2 \in Seq(Byte) /\ b3 \in Seq(Byte)
      /\ b4 \in Seq(Byte) /\ b5 \in Seq(Byte) /\ b6 \in Seq(Byte) /\ b7 \in Seq(Byte)
  BY DEF EightParts
<1>2. Cat(Cat(q, b1), b2) = Cat(q, r2) /\ r2 \in Seq(Byte)
  BY <1>1, OneMore
<1> HIDE DEF r2
<1>3. Cat(Cat(q, r2), b3) = Cat(q, r3) /\ r3 \in Seq(Byte)
  BY <1>1, <1>2, OneMore
<1> HIDE DEF r3
<1>4. Cat(Cat(q, r3), b4) = Cat(q, r4) /\ r4 \in Seq(Byte)
  BY <1>1, <1>3, OneMore
<1> HIDE DEF r4
<1>5. Cat(Cat(q, r4), b5) = Cat(q, r5) /\ r5 \in Seq(Byte)
  BY <1>1, <1>4, OneMore
<1> HIDE DEF r5
<1>6. Cat(Cat(q, r5), b6) = Cat(q, r6) /\ r6 \in Seq(Byte)
  BY <1>1, <1>5, OneMore
<1> HIDE DEF r6
<1>7. Cat(Cat(q, r6), b7) = Cat(q, r7) /\ r7 \in Seq(Byte)
  BY <1>1, <1>6, OneMore
<1> HIDE DEF r7
<1>8. /\ Cat(Cat(Cat(Cat(Cat(Cat(Cat(q, b1), b2), b3), b4), b5), b6), b7) = Cat(q, r7)
      /\ r7 \in Seq(Byte)
  BY <1>2, <1>3, <1>4, <1>5, <1>6, <1>7
<1>9. r7 = Cat(Cat(Cat(Cat(Cat(Cat(b1, b2), b3), b4), b5), b6), b7)
  BY DEF r2, r3, r4, r5, r6, r7
<1> QED BY <1>8, <1>9

\* The fixed part of a column definition behind its strings.
LEMMA FieldTailJoined ==
  ASSUME NEW q \in Seq(Byte)
  PROVE  /\ Cat(Cat(Cat(Cat(Cat(Cat(Cat(q, <<12>>), <<33, 0>>), <<80, 0, 0, 0>>), <<253>>), <<0, 0>>),
                <<0>>), <<0, 0>>) = Cat(q, FieldTail)
         /\ FieldTail \in Seq(Byte)
<1> DEFINE b1 == <<12>>
           b2 == <<33, 0>>
           b3 == <<80, 0, 0, 0>>
           b4 == <<253>>
           b5 == <<0, 0>>
           b6 == <<0>>
<1>1. EightParts(q, b1, b2, b3, b4, b5, b6, b5)
  BY DEF Byte, EightParts
<1>2. FieldTail = Cat(Cat(Cat(Cat(Cat(Cat(b1, b2), b3), b4), b5), b6), b5)
  BY DEF FieldTail, Cat
<1> HIDE DEF b1, b2, b3, b4, b5, b6
<1>3. /\ Cat(Cat(Cat(Cat(Cat(Cat(Cat(q, b1), b2), b3), b4), b5), b6), b5) = Cat(q, FieldTail)
      /\ FieldTail \in Seq(Byte)
  BY <1>1, <1>2, Reassociated
<1> QED BY <1>3 DEF b1, b2, b3, b4, b5, b6

\* Six strings at the start of a packet.
LEMMA SixStrings ==
  ASSUME NEW row \in Seq(Seq(Byte)), Len(row) = 6, NEW r \in Seq(Byte), NEW p,
         p = Cat(Cat(Cat(Cat(Cat(Cat(WriteLenEncodeString(row[1]), WriteLenEncodeString(row[2])),
               WriteLenEncodeString(row[3])), WriteLenEncodeString(row[4])),
               WriteLenEncodeString(row[5])), WriteLenEncodeString(row[6])), r),
         Len(p) <= 255
  PROVE  /\ p \in Seq(Byte) /\ ProtocolStrings(p, 6) = [ok |-> TRUE, strings |-> row, rest |-> r]
         /\ \A i \in 1..6 : Len(row[i]) < 2^16
<1> DEFINE a(i) == WriteLenEncodeString(row[i])
           q2 == Cat(a(1), a(2))
           q3 == Cat(q2, a(3))
           q4 == Cat(q3, a(4))
           q5 == Cat(q4, a(5))
           q6 == Cat(q5, a(6))
           seqs == [i \in 1..6 |-> a(i)]
<1>1. p = Cat(q6, r)
  OBVIOUS
<1>2. \A i \in 1..6 : a(i) \in Seq(Byte)
  <2>1. \A i \in 1..6 : row[i] \in Seq(Byte)
    BY ElementOfSeq
  <2> QED BY <2>1, StringBytes
<1> HIDE DEF a
<1>3. a(1) \in Seq(Byte) /\ a(2) \in Seq(Byte) /\ a(3) \in Seq(Byte) /\ a(4) \in Seq(Byte)
      /\ a(5) \in Seq(Byte) /\ a(6) \in Seq(Byte)
  BY <1>2
<1>4. q2 \in Seq(Byte) /\ q3 \in Seq(Byte) /\ q4 \in Seq(Byte) /\ q5 \in Seq(Byte) /\ q6 \in Seq(Byte)
  <2>1. q2 \in Seq(Byte)
    BY <1>3, OneMore
  <2> HIDE DEF q2
  <2>2. q3 \in Seq(Byte)
    BY <1>3, <2>1, OneMore
  <2> HIDE DEF q3
  <2>3. q4 \in Seq(Byte)
    BY <1>3, <2>2, OneMore
  <2> HIDE DEF q4
  <2>4. q5 \in Seq(Byte)
    BY <1>3, <2>3, OneMore
  <2> HIDE DEF q5
  <2>5. q6 \in Seq(Byte)
    BY <1>3, <2>4, OneMore
  <2> QED BY <2>1, <2>2, <2>3, <2>4, <2>5
<1> DEFINE f == [i \in 0..6 |-> IF i = 0 THEN <<>> ELSE IF i = 1 THEN a(1) ELSE IF i = 2 THEN q2
                                ELSE IF i = 3 THEN q3 ELSE IF i = 4 THEN q4
                                ELSE IF i = 5 THEN q5 ELSE q6]
<1>5. a(1) = <<>> \o a(1)
  BY <1>3, ConcatEmptySeq
<1>6. /\ q2 = a(1) \o a(2) /\ q3 = q2 \o a(3) /\ q4 = q3 \o a(4) /\ q5 = q4 \o a(5)
      /\ q6 = q5 \o a(6)
  BY Zenon DEF Cat
<1> HIDE DEF q2, q3, q4, q5, q6
<1>7. /\ f \in [0..6 -> Seq(Byte)] /\ f[0] = <<>> /\ f[1] = a(1) /\ f[2] = q2 /\ f[3] = q3
      /\ f[4] = q4 /\ f[5] = q5 /\ f[6] = q6
  BY <1>3, <1>4
<1>8. seqs \in Seq(Seq(Byte)) /\ Len(seqs) = 6 /\ \A i \in 1..6 : seqs[i] = a(i)
  BY <1>2
<1> HIDE DEF f, seqs
<1>9. \A i \in 1..6 : f[i] = f[i - 1] \o seqs[i]
  <2>1. \A i \in 1..6 : i = 1 \/ i = 2 \/ i = 3 \/ i = 4 \/ i = 5 \/ i = 6
    OBVIOUS
  <2>2. 1 - 1 = 0 /\ 2 - 1 = 1 /\ 3 - 1 = 2 /\ 4 - 1 = 3 /\ 5 - 1 = 4 /\ 6 - 1 = 5
    OBVIOUS
  <2> QED BY <1>5, <1>6, <1>7, <1>8, <2>1, <2>2, Zenon
<1>10. StringParts(row, seqs, f)
  <2>1. Joins(f, seqs)
    BY <1>7, <1>8, <1>9 DEF Joins
  <2> QED BY <1>8, <2>1 DEF StringParts, a
<1>11. p = Cat(f[Len(row)], r)
  BY <1>1, <1>7, Zenon
<1>12. StringPacket(p, row, seqs, f, r)
  BY <1>10, <1>11 DEF StringPacket
<1>13. /\ p \in Seq(Byte) /\ p # <<>> /\ p[1] \in Nat /\ p[1] < 253
       /\ ProtocolStrings(p, Len(row)) = [ok |-> TRUE, strings |-> row, rest |-> r]
  BY ONLY <1>12, StringsFirst
<1>14. \A i \in 1..6 : Len(row[i]) < 2^16
  <2>1. PICK place : StringPlaces(p, row, place)
    BY ONLY <1>12, StringsStand
  <2>2. \A i \in 1..Len(row) : Len(row[i]) < 2^16
    BY <2>1, Zenon DEF StringPlaces
  <2> QED BY <2>2, Zenon
<1> QED BY <1>13, <1>14

\* The columns the server defines.
TextField(db, tb, col) ==
  [name |-> col, type |-> "VARCHAR", table |-> tb, orgTable |-> tb, dataBase |-> db,
   orgName |-> col, columnLength |-> 80, charset |-> 33, decimals |-> 0]

\* The parts of a column definition.
LEMMA FieldPackParts ==
  ASSUME NEW db, NEW tb, NEW col
  PROVE  FieldPack(TextField(db, tb, col)) =
           Cat(Cat(Cat(Cat(Cat(Cat(Cat(Cat(Cat(Cat(Cat(Cat(
             WriteLenEncodeString(<<100, 101, 102>>), WriteLenEncodeString(db)),
             WriteLenEncodeString(tb)), WriteLenEncodeString(tb)),
             WriteLenEncodeString(col)), WriteLenEncodeString(col)),
             <<12>>), <<33, 0>>), <<80, 0, 0, 0>>), <<253>>), <<0, 0>>), <<0>>), <<0, 0>>)
<1> DEFINE a1 == WriteLenEncodeString(<<100, 101, 102>>)
           a2 == WriteLenEncodeString(db)
           a3 == WriteLenEncodeString(tb)
           a5 == WriteLenEncodeString(col)
           field == TextField(db, tb, col)
           p == FieldPack(field)
<1>1. TYPE_TO_MYSQL["VARCHAR"].typ = 253 /\ TYPE_TO_MYSQL["VARCHAR"].flags = 0
  BY DEF TYPE_TO_MYSQL, MySQLCode
<1>2. field.type = "VARCHAR" /\ field.dataBase = db /\ field.table = tb /\ field.orgTable = tb
      /\ field.name = col /\ field.orgName = col /\ field.charset = 33
      /\ field.columnLength = 80 /\ field.decimals = 0
  BY DEF TextField
<1> HIDE DEF field
<1>3. p = (((((((((((a1 \o a2) \o a3) \o a3) \o a5) \o a5) \o WriteLenEncode(12)) \o WriteU16(33))
           \o WriteU32(80)) \o WriteU8(253)) \o WriteU16(0)) \o WriteU8(0)) \o WriteU16(0)
  BY <1>1, <1>2, Zenon DEF FieldPack
<1> HIDE DEF p, a1, a2, a3, a5
<1>4. p = (((((((((((a1 \o a2) \o a3) \o a3) \o a5) \o a5) \o <<12>>) \o <<33, 0>>)
             \o <<80, 0, 0, 0>>) \o <<253>>) \o <<0, 0>>) \o <<0>>) \o <<0, 0>>
  BY <1>3, FieldTailBytes, Zenon
<1> QED BY <1>4, Zenon DEF p, field, a1, a2, a3, a5, Cat

\* A column definition of 255 bytes at most is read as it was packed.
LEMMA FieldReadBack ==
  ASSUME NEW db \in Seq(Byte), NEW tb \in Seq(Byte), NEW col \in Seq(Byte),
         ~(Len(FieldPack(TextField(db, tb, col))) > 255)
  PROVE  /\ FieldPack(TextField(db, tb, col)) \in Seq(Byte)
         /\ Len(FieldPack(TextField(db, tb, col))) <= 255
         /\ ProtocolStrings(FieldPack(TextField(db, tb, col)), 6) =
              [ok |-> TRUE, strings |-> <<<<100, 101, 102>>, db, tb, tb, col, col>>,
               rest |-> FieldTail]
         /\ Len(db) < 2^16 /\ Len(tb) < 2^16 /\ Len(col) < 2^16
<1> DEFINE def == <<100, 101, 102>>
           row == <<def, db, tb, tb, col, col>>
           a1 == WriteLenEncodeString(def)
           a2 == WriteLenEncodeString(db)
           a3 == WriteLenEncodeString(tb)
           a5 == WriteLenEncodeString(col)
           p == FieldPack(TextField(db, tb, col))
<1>1. def \in Seq(Byte)
  BY DEF Byte
<1>2. a1 \in Seq(Byte) /\ a2 \in Seq(Byte) /\ a3 \in Seq(Byte) /\ a5 \in Seq(Byte)
  BY <1>1, StringBytes
<1> DEFINE q == Cat(Cat(Cat(Cat(Cat(a1, a2), a3), a3), a5), a5)
<1>4. p = Cat(Cat(Cat(Cat(Cat(Cat(Cat(q, <<12>>), <<33, 0>>), <<80, 0, 0, 0>>), <<253>>), <<0, 0>>),
              <<0>>), <<0, 0>>)
  BY FieldPackParts, SMT
<1>5. q \in Seq(Byte)
  <2> HIDE DEF a1, a2, a3, a5
  <2> DEFINE q2 == Cat(a1, a2)
             q3 == Cat(q2, a3)
             q4 == Cat(q3, a3)
             q5 == Cat(q4, a5)
  <2>1. q2 \in Seq(Byte)
    BY <1>2, OneMore
  <2> HIDE DEF q2
  <2>2. q3 \in Seq(Byte)
    BY <1>2, <2>1, OneMore
  <2> HIDE DEF q3
  <2>3. q4 \in Seq(Byte)
    BY <1>2, <2>2, OneMore
  <2> HIDE DEF q4
  <2>4. q5 \in Seq(Byte)
    BY <1>2, <2>3, OneMore
  <2> HIDE DEF q5
  <2>5. Cat(q5, a5) \in Seq(Byte)
    BY <1>2, <2>4, OneMore
  <2> QED BY <2>5 DEF q2, q3, q4, q5
<1>6. p = Cat(q, FieldTail) /\ FieldTail \in Seq(Byte)
  <2> HIDE DEF q, p
  <2> QED BY <1>4, <1>5, FieldTailJoined
<1>7. /\ row \in Seq(Seq(Byte)) /\ Len(row) = 6 /\ row[1] = def /\ row[2] = db
      /\ row[3] = tb /\ row[4] = tb /\ row[5] = col /\ row[6] = col
  <2> HIDE DEF def
  <2> QED BY <1>1
<1> HIDE DEF def, row, p
<1>8. p = Cat(Cat(Cat(Cat(Cat(Cat(WriteLenEncodeString(row[1]), WriteLenEncodeString(row[2])),
               WriteLenEncodeString(row[3])), WriteLenEncodeString(row[4])),
               WriteLenEncodeString(row[5])), WriteLenEncodeString(row[6])), FieldTail)
  BY <1>6, <1>7, Zenon
<1>9. Len(p) <= 255
  <2> HIDE DEF q
  <2>1. p \in Seq(Byte) /\ ~(Len(p) > 255)
    BY <1>5, <1>6, OneMore DEF p
  <2>2. Len(p) \in Nat
    BY <2>1, LenProperties
  <2> QED BY <2>1, <2>2
<1>10. /\ p \in Seq(Byte) /\ ProtocolStrings(p, 6) = [ok |-> TRUE, strings |-> row, rest |-> FieldTail]
       /\ \A i \in 1..6 : Len(row[i]) < 2^16
  <2> HIDE DEF a1, a2, a3, a5
  <2> QED BY <1>6, <1>7, <1>8, <1>9, SixStrings
<1>11. Len(db) < 2^16 /\ Len(tb) < 2^16 /\ Len(col) < 2^16
  <2>1. 2 \in 1..6 /\ 3 \in 1..6 /\ 5 \in 1..6
    OBVIOUS
  <2> QED BY <1>7, <1>10, <2>1, Zenon
<1> QED BY <1>9, <1>10, <1>11 DEF p, row, def

\* The packets of a result set, each in its place.
LEMMA ResultSetPackets ==
  ASSUME NEW reply, NEW n \in Nat, NEW m \in Nat,
         Len(reply.columns) = n, Len(reply.rows) = m
  PROVE  LET set == ResultSet(reply)
         IN  /\ Len(set) = n + m + 3 /\ DOMAIN set = 1..(n + m + 3)
             /\ set[1] = WriteU8(n)
             /\ \A i \in 1..n : set[i + 1] = FieldPack(FieldOf(reply, i))
             /\ set[n + 2] = EofPack(0, 2)
             /\ \A i \in 1..m : set[n + 2 + i] = RowPack(reply.rows[i])
             /\ set[n + m + 3] = EofPack(0, 2)
<1> DEFINE w == WriteU8(n)
           e == EofPack(0, 2)
           fp(i) == FieldPack(FieldOf(reply, i))
           rp(i) == RowPack(reply.rows[i])
           X == {w} \union {e} \union {fp(i) : i \in 1..n} \union {rp(i) : i \in 1..m}
           F == [i \in 1..n |-> fp(i)]
           R == [i \in 1..m |-> rp(i)]
           a == <<w>>
           c == <<e>>
           set == ResultSet(reply)
<1>1. set = (((a \o F) \o c) \o R) \o c
  BY DEF ResultSet
<1> HIDE DEF w, e, fp, rp, set
<1>2. a \in Seq(X) /\ Len(a) = 1 /\ a[1] = w /\ c \in Seq(X) /\ Len(c) = 1 /\ c[1] = e
  OBVIOUS
<1>3. F \in Seq(X) /\ Len(F) = n /\ \A i \in 1..n : F[i] = fp(i)
  OBVIOUS
<1>4. R \in Seq(X) /\ Len(R) = m /\ \A i \in 1..m : R[i] = rp(i)
  OBVIOUS
<1> HIDE DEF a, c, F, R, X
<1> DEFINE s1 == a \o F
           s2 == s1 \o c
           s3 == s2 \o R
           s4 == s3 \o c
<1>5. /\ s1 \in Seq(X) /\ Len(s1) = n + 1 /\ s1[1] = w /\ \A i \in 1..n : s1[i + 1] = fp(i)
  <2>1. /\ s1 \in Seq(X) /\ Len(s1) = Len(a) + Len(F)
        /\ \A i \in 1..(Len(a) + Len(F)) : s1[i] = IF i <= Len(a) THEN a[i] ELSE F[i - Len(a)]
    BY <1>2, <1>3, ConcatProperties
  <2> HIDE DEF s1
  <2> QED BY <1>2, <1>3, <2>1
<1> HIDE DEF s1
<1>6. /\ s2 \in Seq(X) /\ Len(s2) = n + 2 /\ s2[1] = w /\ \A i \in 1..n : s2[i + 1] = fp(i)
      /\ s2[n + 2] = e
  <2>1. /\ s2 \in Seq(X) /\ Len(s2) = Len(s1) + Len(c)
        /\ \A i \in 1..(Len(s1) + Len(c)) : s2[i] = IF i <= Len(s1) THEN s1[i] ELSE c[i - Len(s1)]
    BY <1>2, <1>5, ConcatProperties
  <2> HIDE DEF s2
  <2> QED BY <1>2, <1>5, <2>1
<1> HIDE DEF s2
<1>7. /\ s3 \in Seq(X) /\ Len(s3) = n + 2 + m /\ s3[1] = w /\ \A i \in 1..n : s3[i + 1] = fp(i)
      /\ s3[n + 2] = e /\ \A i \in 1..m : s3[n + 2 + i] = rp(i)
  <2>1. /\ s3 \in Seq(X) /\ Len(s3) = Len(s2) + Len(R)
        /\ \A i \in 1..(Len(s2) + Len(R)) : s3[i] = IF i <= Len(s2) THEN s2[i] ELSE R[i - Len(s2)]
    BY <1>4, <1>6, ConcatProperties
  <2> HIDE DEF s3
  <2> QED BY <1>4, <1>6, <2>1
<1> HIDE DEF s3
<1>8. /\ s4 \in Seq(X) /\ Len(s4) = n + m + 3 /\ s4[1] = w /\ \A i \in 1..n : s4[i + 1] = fp(i)
      /\ s4[n + 2] = e /\ (\A i \in 1..m : s4[n + 2 + i] = rp(i)) /\ s4[n + m + 3] = e
  <2>1. /\ s4 \in Seq(X) /\ Len(s4) = Len(s3) + Len(c)
        /\ \A i \in 1..(Len(s3) + Len(c)) : s4[i] = IF i <= Len(s3) THEN s3[i] ELSE c[i - Len(s3)]
    <3>1. s3 \in Seq(X) /\ c \in Seq(X)
      BY <1>2, <1>7
    <3> QED BY <3>1, ConcatProperties
  <2> HIDE DEF s4
  <2> QED BY <1>2, <1>7, <2>1
<1>9. set = s4
  BY <1>1 DEF s1, s2, s3
<1> HIDE DEF s4
<1>10. DOMAIN s4 = 1..(n + m + 3)
  BY <1>8
<1> QED BY <1>8, <1>9, <1>10 DEF set, w, e, fp, rp

\* A result of the plans has the shape of one.
LEMMA RowRepliesAreTables ==
  ASSUME NEW reply \in RowReplies
  PROVE  reply \in TableReplies
<1>1. PICK p \in Plans : \E c \in Range(p.commands) : reply \in Range(c.replies)
  BY DEF RowReplies
<1>2. PICK c \in Range(p.commands) : reply \in Range(c.replies)
  BY <1>1
<1>3. p.commands \in Seq(Commands)
  BY PlansAssumption
<1>4. c \in Commands
  BY <1>2, <1>3, ElementOfSeq, LenProperties DEF Range
<1>5. c.replies \in Seq(Replies)
  BY <1>4 DEF Commands
<1>6. reply \in Replies
  BY <1>2, <1>5, ElementOfSeq, LenProperties DEF Range
<1>7. reply.kind = "rows"
  BY DEF RowReplies
<1>8. reply \notin OkReplies /\ reply # Plain("err")
  <2>1. \A x \in OkReplies : x.kind = "ok"
    BY Zenon DEF OkReplies
  <2>2. Plain("err").kind = "err"
    BY DEF Plain
  <2> QED BY <1>7, <2>1, <2>2
<1> QED BY <1>6, <1>8 DEF Replies

LEMMA TableShape ==
  ASSUME NEW reply \in TableReplies
  PROVE  /\ reply.kind = "rows" /\ reply.database \in Seq(Byte) /\ reply.table \in Seq(Byte)
         /\ reply.columns \in Seq(Seq(Byte)) /\ reply.rows \in Seq(Seq(Seq(Byte)))
         /\ Len(reply.columns) \in Nat /\ Len(reply.rows) \in Nat
         /\ \A i \in 1..Len(reply.columns) : reply.columns[i] \in Seq(Byte)
         /\ \A i \in 1..Len(reply.rows) : reply.rows[i] \in Seq(Seq(Byte))
<1>2. /\ reply.kind = "rows" /\ reply.database \in Seq(Byte) /\ reply.table \in Seq(Byte)
      /\ reply.columns \in Seq(Seq(Byte)) /\ reply.rows \in Seq(Seq(Seq(Byte)))
  BY DEF TableReplies
<1> DEFINE cs == reply.columns
           rs == reply.rows
<1>3. cs \in Seq(Seq(Byte)) /\ rs \in Seq(Seq(Seq(Byte)))
  BY <1>2
<1> HIDE DEF cs, rs
<1>4. \A i \in 1..Len(cs) : cs[i] \in Seq(Byte)
  BY <1>3, ElementOfSeq
<1>5. \A i \in 1..Len(rs) : rs[i] \in Seq(Seq(Byte))
  BY <1>3, ElementOfSeq
<1>6. Len(cs) \in Nat /\ Len(rs) \in Nat
  BY <1>3, LenProperties
<1> QED BY <1>2, <1>4, <1>5, <1>6, Zenon DEF cs, rs

\* The results of a shape the server is not made for, and that of the others.
Unfit == Oversize \union Ragged \union Crowded

LEMMA FitShape ==
  ASSUME NEW reply \in RowReplies, reply \notin Unfit
  PROVE  /\ Len(reply.columns) >= 1 /\ Len(reply.columns) <= 250
         /\ \A i \in 1..Len(reply.rows) : Len(reply.rows[i]) = Len(reply.columns)
<1> DEFINE n == Len(reply.columns)
<1>1. n \in 1..250
  BY DEF Unfit, Crowded
<1>2. \A i \in 1..Len(reply.rows) : Len(reply.rows[i]) = n
  BY DEF Unfit, Ragged
<1> HIDE DEF n
<1>3. n >= 1 /\ n <= 250
  BY <1>1
<1> QED BY <1>2, <1>3 DEF n

\* The packets of a result set that has none of 256 bytes or more.
LEMMA PacketsOfResult ==
  ASSUME NEW reply \in RowReplies, reply \notin Unfit,
         NEW k \in 1..(Len(reply.columns) + Len(reply.rows) + 3)
  PROVE  ~(Len(ResultSet(reply)[k]) > 255)
<1> DEFINE n == Len(reply.columns)
           m == Len(reply.rows)
           set == ResultSet(reply)
<1>1. n \in Nat /\ m \in Nat
  BY RowRepliesAreTables, TableShape
<1>2. DOMAIN set = 1..(n + m + 3)
  <2>1. Len(reply.columns) = n /\ Len(reply.rows) = m
    OBVIOUS
  <2> HIDE DEF n, m
  <2> QED BY <1>1, <2>1, ResultSetPackets
<1>3. set[k] \in Range(set)
  BY <1>2 DEF Range
<1> QED BY <1>3 DEF Unfit, Oversize

\* The columns, in the protocol's terms.
LEMMA ColumnPacket ==
  ASSUME NEW reply \in RowReplies, reply \notin Unfit, NEW i \in 1..Len(reply.columns)
  PROVE  LET p == ResultSet(reply)[i + 1]
         IN  /\ p \in Seq(Byte) /\ Len(p) <= 255
             /\ ProtocolStrings(p, 6) =
                  [ok |-> TRUE, rest |-> FieldTail,
                   strings |-> <<<<100, 101, 102>>, reply.database, reply.table, reply.table,
                                 reply.columns[i], reply.columns[i]>>]
             /\ Len(reply.database) < 2^16 /\ Len(reply.table) < 2^16
             /\ Len(reply.columns[i]) < 2^16
<1> DEFINE n == Len(reply.columns)
           m == Len(reply.rows)
           db == reply.database
           tb == reply.table
           col == reply.columns[i]
           p == ResultSet(reply)[i + 1]
<1>1. n \in Nat /\ m \in Nat /\ db \in Seq(Byte) /\ tb \in Seq(Byte) /\ col \in Seq(Byte)
  BY RowRepliesAreTables, TableShape
<1>2. p = FieldPack(FieldOf(reply, i))
  BY <1>1, ResultSetPackets
<1>3. FieldOf(reply, i) = TextField(db, tb, col)
  BY DEF FieldOf, TextField
<1>4. ~(Len(p) > 255)
  <2>1. i + 1 \in 1..(n + m + 3)
    <3>1. n \in Nat /\ m \in Nat /\ i \in 1..n
      BY <1>1
    <3> HIDE DEF n, m
    <3> QED BY <3>1
  <2> QED BY <2>1, PacketsOfResult
<1> HIDE DEF p, db, tb, col
<1>5. p = FieldPack(TextField(db, tb, col))
  BY <1>2, <1>3
<1>6. /\ p \in Seq(Byte) /\ Len(p) <= 255
      /\ ProtocolStrings(p, 6) = [ok |-> TRUE, strings |-> <<<<100, 101, 102>>, db, tb, tb, col, col>>,
                                  rest |-> FieldTail]
      /\ Len(db) < 2^16 /\ Len(tb) < 2^16 /\ Len(col) < 2^16
  BY <1>1, <1>4, <1>5, FieldReadBack
<1> QED BY <1>6 DEF p, db, tb, col

LEMMA RowPacket ==
  ASSUME NEW reply \in RowReplies, reply \notin Unfit, NEW i \in 1..Len(reply.rows)
  PROVE  LET p == ResultSet(reply)[Len(reply.columns) + 2 + i]
         IN  /\ p \in Seq(Byte) /\ Len(p) <= 255 /\ ~IsEof(p)
             /\ ProtocolStrings(p, Len(reply.columns)) =
                  [ok |-> TRUE, strings |-> reply.rows[i], rest |-> <<>>]
             /\ \E place : StringPlaces(p, reply.rows[i], place)
<1> DEFINE n == Len(reply.columns)
           m == Len(reply.rows)
           row == reply.rows[i]
           p == ResultSet(reply)[n + 2 + i]
<1>1. n \in Nat /\ m \in Nat /\ n >= 1 /\ row \in Seq(Seq(Byte)) /\ Len(row) = n
  BY RowRepliesAreTables, TableShape, FitShape
<1>2. p = RowPack(row)
  BY <1>1, ResultSetPackets
<1>3. ~(Len(p) > 255)
  <2>1. n + 2 + i \in 1..(n + m + 3)
    <3>1. n \in Nat /\ m \in Nat /\ i \in 1..m
      BY <1>1
    <3> HIDE DEF n, m
    <3> QED BY <3>1
  <2> QED BY <2>1, PacketsOfResult
<1> HIDE DEF p, row, n, m
<1>4. Len(row) > 0
  BY <1>1
<1>5. /\ p \in Seq(Byte) /\ Len(p) <= 255 /\ ~IsEof(p)
      /\ ProtocolStrings(p, Len(row)) = [ok |-> TRUE, strings |-> row, rest |-> <<>>]
      /\ \E place : StringPlaces(p, row, place)
  BY <1>1, <1>2, <1>3, <1>4, RowReadBack
<1> QED BY <1>1, <1>5 DEF p, row, n

LEMMA CountPacket ==
  ASSUME NEW reply \in RowReplies, reply \notin Unfit
  PROVE  LET p == ResultSet(reply)[1]
         IN  /\ p \in Seq(Byte) /\ Len(p) = 1 /\ p # <<>> /\ p[1] = Len(reply.columns)
             /\ p[1] # 0 /\ p[1] \notin 251..254 /\ p[1] # 255
<1> DEFINE n == Len(reply.columns)
           m == Len(reply.rows)
           p == ResultSet(reply)[1]
<1>1. n \in Nat /\ m \in Nat /\ n >= 1 /\ n <= 250
  BY RowRepliesAreTables, TableShape, FitShape
<1>2. p = WriteU8(n)
  BY <1>1, ResultSetPackets
<1> HIDE DEF p, n, m
<1>3. LittleEndian(n, 1) \in Seq(Byte) /\ Len(LittleEndian(n, 1)) = 1 /\ LittleEndian(n, 1)[1] = Lo(n)
  BY <1>1, LittleEndianBytes
<1>4. Lo(n) = n
  BY <1>1, SMT DEF Lo
<1>5. p \in Seq(Byte) /\ Len(p) = 1 /\ p[1] = n
  BY <1>2, <1>3, <1>4 DEF WriteU8
<1>6. n # 0 /\ n \notin 251..254 /\ n # 255
  BY <1>1
<1>7. p # <<>>
  BY <1>5
<1> QED BY <1>5, <1>6, <1>7 DEF p, n

LEMMA EndPackets ==
  ASSUME NEW reply \in RowReplies
  PROVE  LET n == Len(reply.columns)
             m == Len(reply.rows)
         IN  ResultSet(reply)[n + 2] = EofPack(0, 2) /\ ResultSet(reply)[n + m + 3] = EofPack(0, 2)
<1>1. Len(reply.columns) \in Nat /\ Len(reply.rows) \in Nat
  BY RowRepliesAreTables, TableShape
<1> QED BY <1>1, ResultSetPackets

-----------------------------------------------------------------------------
(* Packets on their way to the client *)

\* The bytes b are a packet of 255 bytes at most with its header.
IsFrame(b, seq, p) == seq \in Byte /\ p \in Seq(Byte) /\ Len(p) <= 255 /\ b = Packet(seq, p)

\* FrameReady, of any bytes.
Ready(b) == Len(b) >= 4 /\ Len(b) >= 4 + FromBytes(b, 1, 3)

\* What the client makes of the bytes b: the packet p with number seq and no more.
Holds(b, seq, p) ==
  /\ b \in Seq(Byte) /\ b # <<>> /\ Ready(b) /\ b[4] = seq
  /\ SubSeq(b, 5, 4 + FromBytes(b, 1, 3)) = p
  /\ SubSeq(b, 5 + FromBytes(b, 1, 3), Len(b)) = <<>>

LEMMA FrameRead ==
  ASSUME NEW b, NEW seq, NEW p, IsFrame(b, seq, p)
  PROVE  Holds(b, seq, p)
<1>1. seq \in Byte /\ p \in Seq(Byte) /\ Len(p) <= 255 /\ b = Packet(seq, p)
  BY DEF IsFrame
<1>2. /\ b \in Seq(Byte) /\ Len(b) = 4 + Len(p)
      /\ FromBytes(b, 1, 3) = Len(p) /\ b[4] = seq
      /\ SubSeq(b, 5, 4 + Len(p)) = p /\ SubSeq(b, 5 + Len(p), Len(b)) = <<>>
      /\ b # <<>>
  BY <1>1, PacketBytes, Zenon
<1>3. Len(p) \in Nat
  BY <1>1, LenProperties
<1>4. Ready(b)
  BY <1>2, <1>3 DEF Ready
<1> QED BY <1>2, <1>4, Zenon DEF Holds

LEMMA NothingReady == ~Ready(<<>>)
BY DEF Ready

Framed(out) ==
  /\ out \in Seq(Seq(Byte))
  /\ \A j \in 1..Len(out) : \E seq, p : IsFrame(out[j], seq, p)

\* Of the packets out, k have been taken, the next one may be in the client's
\* hands, and the others are sent.
InTransit(out, k, buf, sent) ==
  \/ buf = <<>> /\ sent = SubSeq(out, k + 1, Len(out))
  \/ k < Len(out) /\ buf = out[k + 1] /\ sent = SubSeq(out, k + 2, Len(out))

\* The client reads on: the next packet comes into its hands.
LEMMA TransitReceives ==
  ASSUME NEW out, Framed(out), NEW k \in Nat, NEW buf, NEW sent,
         InTransit(out, k, buf, sent), ~Ready(buf), sent # <<>>
  PROVE  InTransit(out, k, buf \o Head(sent), Tail(sent))
<1>1. out \in Seq(Seq(Byte)) /\ Len(out) \in Nat
  BY LenProperties DEF Framed
<1>2. buf = <<>> /\ sent = SubSeq(out, k + 1, Len(out))
  <2>1. ASSUME k < Len(out), buf = out[k + 1] PROVE FALSE
    <3>1. k + 1 \in 1..Len(out)
      BY <1>1, <2>1
    <3>2. PICK seq, p : IsFrame(out[k + 1], seq, p)
      BY <3>1 DEF Framed
    <3>3. Ready(out[k + 1])
      BY <3>2, FrameRead DEF Holds
    <3> QED BY <2>1, <3>3
  <2> QED BY <2>1 DEF InTransit
<1>3. k < Len(out)
  <2>1. CASE Len(out) < k + 1
    BY <1>1, <1>2, <2>1, SubSeqEmpty
  <2> QED BY <1>1, <2>1
<1>4. Head(sent) = out[k + 1] /\ Tail(sent) = SubSeq(out, (k + 1) + 1, Len(out))
  <2>1. k + 1 \in 1..Len(out) /\ Len(out) \in (k + 1)..Len(out)
    BY <1>1, <1>3
  <2> QED BY <1>1, <1>2, <2>1, HeadTailOfSubSeq
<1>5. (k + 1) + 1 = k + 2
  OBVIOUS
<1>6. buf \o Head(sent) = out[k + 1]
  <2>1. k + 1 \in 1..Len(out)
    BY <1>1, <1>3
  <2>2. out[k + 1] \in Seq(Byte)
    BY <1>1, <2>1, ElementOfSeq
  <2>3. <<>> \o out[k + 1] = out[k + 1]
    BY <2>2, ConcatEmptySeq
  <2> QED BY <1>2, <1>4, <2>3
<1> QED BY <1>3, <1>4, <1>5, <1>6 DEF InTransit

\* The client takes the packet it has in its hands.
LEMMA TransitTakes ==
  ASSUME NEW out, NEW k \in Nat, NEW buf, NEW sent,
         InTransit(out, k, buf, sent), Ready(buf)
  PROVE  k < Len(out) /\ buf = out[k + 1] /\ InTransit(out, k + 1, <<>>, sent)
<1>1. k < Len(out) /\ buf = out[k + 1] /\ sent = SubSeq(out, k + 2, Len(out))
  BY NothingReady DEF InTransit
<1>2. (k + 1) + 1 = k + 2
  OBVIOUS
<1> QED BY <1>1, <1>2 DEF InTransit

\* All packets are out.
LEMMA TransitStarts ==
  ASSUME NEW out, Framed(out)
  PROVE  InTransit(out, 0, <<>>, out)
<1>1. SubSeq(out, 0 + 1, Len(out)) = out
  BY SubSeqFull DEF Framed
<1> QED BY <1>1 DEF InTransit

\* All packets are taken.
LEMMA TransitEnds ==
  ASSUME NEW out, Framed(out), NEW buf, NEW sent, InTransit(out, Len(out), buf, sent)
  PROVE  buf = <<>> /\ sent = <<>>
<1>1. Len(out) \in Nat
  BY LenProperties DEF Framed
<1>2. SubSeq(out, Len(out) + 1, Len(out)) = <<>>
  BY <1>1, SubSeqEmpty
<1> QED BY <1>1, <1>2 DEF InTransit

LEMMA OneFramed ==
  ASSUME NEW b, NEW seq, NEW p, IsFrame(b, seq, p)
  PROVE  Framed(<<b>>) /\ Len(<<b>>) = 1 /\ <<b>>[1] = b
<1>1. b \in Seq(Byte)
  BY FrameRead DEF Holds
<1> DEFINE x == <<b>>
<1>2. x \in Seq(Seq(Byte)) /\ Len(x) = 1 /\ x[1] = b
  BY <1>1
<1> HIDE DEF x
<1>3. \A j \in 1..1 : j = 1
  OBVIOUS
<1>4. Framed(x)
  BY <1>2, <1>3 DEF Framed
<1> QED BY <1>2, <1>4 DEF x

LEMMA NextNumbers ==
  /\ Next8(0) = 1 /\ Next8(1) = 2 /\ 1 \in Byte /\ 2 \in Byte /\ 0 \in Byte
  /\ \A k \in Nat : k % 256 \in Byte /\ Next8(k % 256) = (k + 1) % 256
<1>1. Next8(0) = 1 /\ Next8(1) = 2
  BY SMT DEF Next8
<1>2. ASSUME NEW k \in Nat PROVE k % 256 \in 0..255 /\ ((k % 256) + 1) % 256 = (k + 1) % 256
  BY SMT
<1>3. 1 \in Byte /\ 2 \in Byte /\ 0 \in Byte
  BY DEF Byte
<1> QED BY <1>1, <1>2, <1>3, Zenon DEF Next8, Byte

LEMMA OkFrame ==
  ASSUME NEW reply, reply.affected \in Nat, reply.affected < 2^24,
         reply.warnings \in Nat, reply.warnings < 2^16, NEW seq, Next8(seq) \in Byte
  PROVE  /\ IsFrame(SendOkMessageToClient(seq, reply), Next8(seq),
                    OkPack(reply.affected, 0, 2, reply.warnings))
         /\ LET p == OkPack(reply.affected, 0, 2, reply.warnings)
            IN  /\ p # <<>> /\ p[1] = 0 /\ ProtocolNumber(p, 2).val = reply.affected
                /\ FromBytes(p, Len(p) - 1, 2) = reply.warnings
<1> DEFINE a == reply.affected
           w == reply.warnings
           p == OkPack(a, 0, 2, w)
<1>1. /\ p \in Seq(Byte) /\ Len(p) <= 255 /\ p # <<>> /\ p[1] = 0
      /\ ProtocolNumber(p, 2).val = a /\ FromBytes(p, Len(p) - 1, 2) = w
  <2>1. a \in Nat /\ a < 2^24 /\ w \in Nat /\ w < 2^16
    OBVIOUS
  <2> HIDE DEF a, w
  <2> QED BY <2>1, OkReadBack, Zenon
<1>2. SendOkMessageToClient(seq, reply) = Packet(Next8(seq), p)
  BY DEF SendOkMessageToClient
<1> HIDE DEF p
<1>3. IsFrame(SendOkMessageToClient(seq, reply), Next8(seq), p)
  BY <1>1, <1>2, Zenon DEF IsFrame
<1> QED BY <1>1, <1>3, Zenon DEF p

ErrPayload == ErrPack(50, <<65, 66, 67, 68, 69>>, <<Letter>>)

LEMMA ErrFrame ==
  ASSUME NEW seq, Next8(seq) \in Byte
  PROVE  /\ IsFrame(SendErrorMessageToClient(seq), Next8(seq), ErrPayload)
         /\ ErrPayload # <<>> /\ ErrPayload[1] = 255
<1>1. /\ ErrPayload \in Seq(Byte) /\ Len(ErrPayload) <= 255 /\ ErrPayload # <<>>
      /\ ErrPayload[1] = 255
  BY ErrReadBack DEF ErrPayload
<1>2. SendErrorMessageToClient(seq) = Packet(Next8(seq), ErrPayload)
  BY DEF SendErrorMessageToClient, ErrPayload
<1>3. IsFrame(SendErrorMessageToClient(seq), Next8(seq), ErrPayload)
  BY <1>1, <1>2, Zenon DEF IsFrame
<1> QED BY <1>1, <1>3

\* The result sets of the plans: every packet carries its number.
LEMMA ResultFramed ==
  ASSUME NEW reply \in RowReplies, reply \notin Unfit
  PROVE  LET out == ResultSets[reply]
             size == Len(reply.columns) + Len(reply.rows) + 3
         IN  /\ Framed(out) /\ Len(out) = size
             /\ \A k \in 1..size : IsFrame(out[k], k % 256, ResultSet(reply)[k])
<1> DEFINE n == Len(reply.columns)
           m == Len(reply.rows)
           set == ResultSet(reply)
           out == ResultSets[reply]
<1>1. n \in Nat /\ m \in Nat
  BY RowRepliesAreTables, TableShape
<1>0. Len(reply.columns) = n /\ Len(reply.rows) = m
  OBVIOUS
<1> HIDE DEF n, m
<1> DEFINE size == n + m + 3
<1>2. size \in Nat
  BY <1>1
<1>3. Len(set) = size
  BY <1>0, <1>1, ResultSetPackets
<1>4. out = [k \in 1..Len(set) |-> Packet(k % 256, set[k])]
  BY Zenon DEF ResultSets, SendResultSetToClient
<1>5. ASSUME NEW k \in 1..size PROVE set[k] \in Seq(Byte) /\ Len(set[k]) <= 255
  <2> HIDE DEF set
  <2>1. CASE k = 1
    <3>1. set[1] \in Seq(Byte) /\ Len(set[1]) = 1 /\ 1 <= 255
      BY CountPacket DEF set
    <3> QED BY <2>1, <3>1, Zenon
  <2>2. CASE k \in 2..(n + 1)
    <3>1. k - 1 \in 1..n /\ (k - 1) + 1 = k
      BY <1>1, <2>2
    <3>2. set[(k - 1) + 1] \in Seq(Byte) /\ Len(set[(k - 1) + 1]) <= 255
      BY <1>0, <3>1, ColumnPacket DEF set
    <3> QED BY <3>1, <3>2, Zenon
  <2>3. CASE k = n + 2 \/ k = n + m + 3
    <3>1. set[k] = EofPack(0, 2)
      BY <1>0, <2>3, EndPackets DEF set
    <3>2. 5 <= 255
      OBVIOUS
    <3> QED BY <3>1, <3>2, EofReadBack, Zenon
  <2>4. CASE k \in (n + 3)..(n + 2 + m)
    <3>1. k - n - 2 \in 1..m /\ n + 2 + (k - n - 2) = k
      BY <1>1, <2>4
    <3>2. set[n + 2 + (k - n - 2)] \in Seq(Byte) /\ Len(set[n + 2 + (k - n - 2)]) <= 255
      BY <1>0, <3>1, RowPacket DEF set
    <3> QED BY <3>1, <3>2, Zenon
  <2>5. k = 1 \/ k \in 2..(n + 1) \/ k = n + 2 \/ k = n + m + 3 \/ k \in (n + 3)..(n + 2 + m)
    BY <1>1
  <2> QED BY <2>1, <2>2, <2>3, <2>4, <2>5
<1> HIDE DEF size, set, out
<1>6. \A k \in 1..size : IsFrame(out[k], k % 256, set[k])
  <2> TAKE k \in 1..size
  <2>1. k % 256 \in Byte
    BY <1>2, NextNumbers
  <2>2. out[k] = Packet(k % 256, set[k])
    BY <1>3, <1>4
  <2> QED BY <1>5, <2>1, <2>2, Zenon DEF IsFrame
<1>7. \A k \in 1..size : out[k] \in Seq(Byte)
  BY <1>6, FrameRead DEF Holds
<1>8. out \in Seq(Seq(Byte)) /\ Len(out) = size
  <2> DEFINE g(k) == Packet(k % 256, set[k])
  <2>1. out = [k \in 1..size |-> g(k)]
    BY <1>3, <1>4
  <2> HIDE DEF g
  <2>2. \A k \in 1..size : g(k) \in Seq(Byte)
    BY <1>7, <2>1
  <2> QED BY <1>2, <2>1, <2>2
<1>9. Framed(out)
  BY <1>6, <1>8 DEF Framed
<1> QED BY <1>0, <1>6, <1>8, <1>9 DEF size, set, out

\* A part of a packet, of n bytes.
IsPart(x, n) == n \in Nat /\ x \in Seq(Byte) /\ Len(x) = n

LEMMA PartJoined ==
  ASSUME NEW a, NEW b, NEW m, NEW n, IsPart(a, m), IsPart(b, n)
  PROVE  IsPart(Cat(a, b), m + n)
<1>1. a \in Seq(Byte) /\ b \in Seq(Byte) /\ m \in Nat /\ n \in Nat /\ Len(a) = m /\ Len(b) = n
  BY DEF IsPart
<1>2. a \o b \in Seq(Byte) /\ Len(a \o b) = Len(a) + Len(b)
  BY <1>1, Joined
<1> QED BY <1>1, <1>2 DEF IsPart, Cat

LEMMA PartOfOne ==
  ASSUME NEW b \in Byte
  PROVE  IsPart(<<b>>, 1)
BY OneByte DEF IsPart

LEMMA PartRepeated ==
  ASSUME NEW b \in Byte, NEW n \in Nat
  PROVE  IsPart([j \in 1..n |-> b], n)
BY DEF IsPart

LEMMA PartOfNumber ==
  ASSUME NEW v \in Nat, NEW n \in 1..4
  PROVE  IsPart(LittleEndian(v, n), n)
<1>1. LittleEndian(v, n) \in Seq(Byte) /\ Len(LittleEndian(v, n)) = n
  BY LittleEndianBytes
<1>2. n \in Nat
  OBVIOUS
<1> QED BY <1>1, <1>2 DEF IsPart

\* What stands behind n bytes.
LEMMA PlacedPart ==
  ASSUME NEW p, NEW c, NEW b, NEW n, NEW m, IsPart(c, n), IsPart(b, m), Stands(p, 1, Cat(c, b))
  PROVE  Stands(p, 1, c) /\ Stands(p, 1 + n, b)
<1>1. c \in Seq(Byte) /\ b \in Seq(Byte) /\ Len(c) = n /\ 1 \in Nat
  BY DEF IsPart
<1>2. Stands(p, 1, c \o b)
  BY DEF Cat
<1> QED BY <1>1, <1>2, StandsConcat

\* The greeting has 80 bytes, each part of it its place.
LEMMA GreetingPlaces ==
  ASSUME NEW st \in [1..20 -> Nat], NEW g,
         g = Greeting(1, [j \in 1..12 |-> 85], [j \in 1..21 |-> 109], st),
         NEW p, p = GreetingPack(g)
  PROVE  /\ IsPart(p, 80) /\ IsPart(g.saltPart1, 8) /\ IsPart(g.saltPart2, 12)
         /\ Stands(p, 1, <<g.protocolVersion>>) /\ Stands(p, 2, g.serverVersion)
         /\ Stands(p, 14, << 0 >>) /\ Stands(p, 15, WriteU32(g.connectionID))
         /\ Stands(p, 19, g.saltPart1) /\ Stands(p, 28, WriteU16(g.capability % 2^16))
         /\ Stands(p, 30, <<g.charset>>) /\ Stands(p, 31, WriteU16(g.status))
         /\ Stands(p, 33, WriteU16(g.capability \div 2^16)) /\ Stands(p, 46, g.saltPart2)
         /\ Stands(p, 59, g.authPluginName) /\ Stands(p, 80, << 0 >>)
<1> DEFINE x1 == <<g.protocolVersion>>
           x2 == g.serverVersion
           x3 == <<0>>
           x4 == WriteU32(g.connectionID)
           x5 == g.saltPart1
           x6 == WriteU16(g.capability % 2^16)
           x7 == <<g.charset>>
           x8 == WriteU16(g.status)
           x9 == WriteU16(g.capability \div 2^16)
           x10 == <<21>>
           x11 == Zeros(10)
           x12 == g.saltPart2
           x13 == g.authPluginName
<1>1. /\ g.protocolVersion = 10 /\ g.serverVersion = [j \in 1..12 |-> 85] /\ g.connectionID = 1
      /\ g.saltPart1 = [j \in 1..8 |-> st[j] % 123] /\ g.capability = Capability
      /\ g.charset = 33 /\ g.status = 2 /\ g.saltPart2 = [j \in 1..12 |-> st[8 + j] % 123]
      /\ g.authPluginName = [j \in 1..21 |-> 109]
  BY DEF Greeting
<1>2. p = Cat(Cat(Cat(Cat(Cat(Cat(Cat(Cat(Cat(Cat(Cat(Cat(Cat(Cat(Cat(x1, x2), x3), x4), x5), x3), x6), x7), x8), x9), x10), x11), x12), x3), x13), x3)
  BY Zenon DEF GreetingPack, Cat
<1>4. IsPart(x1, 1) /\ IsPart(x3, 1) /\ IsPart(x7, 1) /\ IsPart(x10, 1)
  <2>1. 10 \in Byte /\ 0 \in Byte /\ 33 \in Byte /\ 21 \in Byte
    BY DEF Byte
  <2> QED BY <1>1, <2>1, PartOfOne, Zenon
<1>5. IsPart(x2, 12) /\ IsPart(x13, 21) /\ IsPart(x11, 10)
  <2>1. 85 \in Byte /\ 109 \in Byte /\ 0 \in Byte
    BY DEF Byte
  <2>2. IsPart([j \in 1..12 |-> 85], 12) /\ IsPart([j \in 1..21 |-> 109], 21)
        /\ IsPart([j \in 1..10 |-> 0], 10)
    <3>1. 12 \in Nat /\ 21 \in Nat /\ 10 \in Nat
      OBVIOUS
    <3> QED BY <2>1, <3>1, PartRepeated
  <2> QED BY <1>1, <2>2, Zenon DEF Zeros
<1>6. IsPart(x5, 8) /\ IsPart(x12, 12)
  <2>1. ASSUME NEW v \in Nat PROVE v % 123 \in 0..255
    BY SMT
  <2>2. \A j \in 1..8 : st[j] % 123 \in Byte
    BY <2>1 DEF Byte
  <2>3. \A j \in 1..12 : st[8 + j] % 123 \in Byte
    <3> TAKE j \in 1..12
    <3>1. 8 + j \in 1..20
      OBVIOUS
    <3>2. st[8 + j] \in Nat
      BY <3>1
    <3> QED BY <2>1, <3>2, Zenon DEF Byte
  <2> DEFINE e(j) == st[j] % 123
             h(j) == st[8 + j] % 123
  <2>4. x5 = [j \in 1..8 |-> e(j)] /\ x12 = [j \in 1..12 |-> h(j)]
    BY <1>1
  <2>5. (\A j \in 1..8 : e(j) \in Byte) /\ \A j \in 1..12 : h(j) \in Byte
    BY <2>2, <2>3
  <2> HIDE DEF e, h, x5, x12
  <2> QED BY <2>4, <2>5 DEF IsPart
<1>8. IsPart(x4, 4) /\ IsPart(x6, 2) /\ IsPart(x8, 2) /\ IsPart(x9, 2)
  <2>1. Capability \in Nat
    BY SMT DEF Capability
  <2>2. Capability % 2^16 \in Nat /\ Capability \div 2^16 \in Nat
    BY <2>1, SMT
  <2>3. 1 \in Nat /\ 2 \in Nat /\ 2 \in 1..4 /\ 4 \in 1..4
    OBVIOUS
  <2> QED BY <1>1, <2>2, <2>3, PartOfNumber, Zenon DEF WriteU16, WriteU32
<1> HIDE DEF x1, x2, x3, x4, x5, x6, x7, x8, x9, x10, x11, x12, x13
<1> DEFINE q1 == Cat(x1, x2)
           q2 == Cat(q1, x3)
           q3 == Cat(q2, x4)
           q4 == Cat(q3, x5)
           q5 == Cat(q4, x3)
           q6 == Cat(q5, x6)
           q7 == Cat(q6, x7)
           q8 == Cat(q7, x8)
           q9 == Cat(q8, x9)
           q10 == Cat(q9, x10)
           q11 == Cat(q10, x11)
           q12 == Cat(q11, x12)
           q13 == Cat(q12, x3)
           q14 == Cat(q13, x13)
           q15 == Cat(q14, x3)
<1>9. p = q15
  BY ONLY <1>2
<1> HIDE DEF q1, q2, q3, q4, q5, q6, q7, q8, q9, q10, q11, q12, q13, q14, q15
<1>10. IsPart(q1, 13)
  <2>1. IsPart(q1, 1 + 12)
    BY ONLY <1>4, <1>5, PartJoined, Zenon DEF q1
  <2>2. 1 + 12 = 13
    OBVIOUS
  <2> QED BY ONLY <2>1, <2>2
<1>11. IsPart(q2, 14)
  <2>1. IsPart(q2, 13 + 1)
    BY ONLY <1>10, <1>4, PartJoined, Zenon DEF q2
  <2>2. 13 + 1 = 14
    OBVIOUS
  <2> QED BY ONLY <2>1, <2>2
<1>12. IsPart(q3, 18)
  <2>1. IsPart(q3, 14 + 4)
    BY ONLY <1>11, <1>8, PartJoined, Zenon DEF q3
  <2>2. 14 + 4 = 18
    OBVIOUS
  <2> QED BY ONLY <2>1, <2>2
<1>13. IsPart(q4, 26)
  <2>1. IsPart(q4, 18 + 8)
    BY ONLY <1>12, <1>6, PartJoined, Zenon DEF q4
  <2>2. 18 + 8 = 26
    OBVIOUS
  <2> QED BY ONLY <2>1, <2>2
<1>14. IsPart(q5, 27)
  <2>1. IsPart(q5, 26 + 1)
    BY ONLY <1>13, <1>4, PartJoined, Zenon DEF q5
  <2>2. 26 + 1 = 27
    OBVIOUS
  <2> QED BY ONLY <2>1, <2>2
<1>15. IsPart(q6, 29)
  <2>1. IsPart(q6, 27 + 2)
    BY ONLY <1>14, <1>8, PartJoined, Zenon DEF q6
  <2>2. 27 + 2 = 29
    OBVIOUS
  <2> QED BY ONLY <2>1, <2>2
<1>16. IsPart(q7, 30)
  <2>1. IsPart(q7, 29 + 1)
    BY ONLY <1>15, <1>4, PartJoined, Zenon DEF q7
  <2>2. 29 + 1 = 30
    OBVIOUS
  <2> QED BY ONLY <2>1, <2>2
<1>17. IsPart(q8, 32)
  <2>1. IsPart(q8, 30 + 2)
    BY ONLY <1>16, <1>8, PartJoined, Zenon DEF q8
  <2>2. 30 + 2 = 32
    OBVIOUS
  <2> QED BY ONLY <2>1, <2>2
<1>18. IsPart(q9, 34)
  <2>1. IsPart(q9, 32 + 2)
    BY ONLY <1>17, <1>8, PartJoined, Zenon DEF q9
  <2>2. 32 + 2 = 34
    OBVIOUS
  <2> QED BY ONLY <2>1, <2>2
<1>19. IsPart(q10, 35)
  <2>1. IsPart(q10, 34 + 1)
    BY ONLY <1>18, <1>4, PartJoined, Zenon DEF q10
  <2>2. 34 + 1 = 35
    OBVIOUS
  <2> QED BY ONLY <2>1, <2>2
<1>20. IsPart(q11, 45)
  <2>1. IsPart(q11, 35 + 10)
    BY ONLY <1>19, <1>5, PartJoined, Zenon DEF q11
  <2>2. 35 + 10 = 45
    OBVIOUS
  <2> QED BY ONLY <2>1, <2>2
<1>21. IsPart(q12, 57)
  <2>1. IsPart(q12, 45 + 12)
    BY ONLY <1>20, <1>6, PartJoined, Zenon DEF q12
  <2>2. 45 + 12 = 57
    OBVIOUS
  <2> QED BY ONLY <2>1, <2>2
<1>22. IsPart(q13, 58)
  <2>1. IsPart(q13, 57 + 1)
    BY ONLY <1>21, <1>4, PartJoined, Zenon DEF q13
  <2>2. 57 + 1 = 58
    OBVIOUS
  <2> QED BY ONLY <2>1, <2>2
<1>23. IsPart(q14, 79)
  <2>1. IsPart(q14, 58 + 21)
    BY ONLY <1>22, <1>5, PartJoined, Zenon DEF q14
  <2>2. 58 + 21 = 79
    OBVIOUS
  <2> QED BY ONLY <2>1, <2>2
<1>24. IsPart(q15, 80)
  <2>1. IsPart(q15, 79 + 1)
    BY ONLY <1>23, <1>4, PartJoined, Zenon DEF q15
  <2>2. 79 + 1 = 80
    OBVIOUS
  <2> QED BY ONLY <2>1, <2>2
<1>25. Stands(p, 1, q15)
  <2>1. q15 \in Seq(Byte)
    BY ONLY <1>24 DEF IsPart
  <2> QED BY ONLY <1>9, <2>1, StandsWhole
<1>26. Stands(p, 1, q14) /\ Stands(p, 80, x3)
  <2>1. Stands(p, 1, q14) /\ Stands(p, 1 + 79, x3)
    BY ONLY <1>25, <1>23, <1>4, PlacedPart, Zenon DEF q15
  <2>2. 1 + 79 = 80
    OBVIOUS
  <2> QED BY ONLY <2>1, <2>2
<1>27. Stands(p, 1, q13) /\ Stands(p, 59, x13)
  <2>1. Stands(p, 1, q13) /\ Stands(p, 1 + 58, x13)
    BY ONLY <1>26, <1>22, <1>5, PlacedPart, Zenon DEF q14
  <2>2. 1 + 58 = 59
    OBVIOUS
  <2> QED BY ONLY <2>1, <2>2
<1>28. Stands(p, 1, q12) /\ Stands(p, 58, x3)
  <2>1. Stands(p, 1, q12) /\ Stands(p, 1 + 57, x3)
    BY ONLY <1>27, <1>21, <1>4, PlacedPart, Zenon DEF q13
  <2>2. 1 + 57 = 58
    OBVIOUS
  <2> QED BY ONLY <2>1, <2>2
<1>29. Stands(p, 1, q11) /\ Stands(p, 46, x12)
  <2>1. Stands(p, 1, q11) /\ Stands(p, 1 + 45, x12)
    BY ONLY <1>28, <1>20, <1>6, PlacedPart, Zenon DEF q12
  <2>2. 1 + 45 = 46
    OBVIOUS
  <2> QED BY ONLY <2>1, <2>2
<1>30. Stands(p, 1, q10) /\ Stands(p, 36, x11)
  <2>1. Stands(p, 1, q10) /\ Stands(p, 1 + 35, x11)
    BY ONLY <1>29, <1>19, <1>5, PlacedPart, Zenon DEF q11
  <2>2. 1 + 35 = 36
    OBVIOUS
  <2> QED BY ONLY <2>1, <2>2
<1>31. Stands(p, 1, q9) /\ Stands(p, 35, x10)
  <2>1. Stands(p, 1, q9) /\ Stands(p, 1 + 34, x10)
    BY ONLY <1>30, <1>18, <1>4, PlacedPart, Zenon DEF q10
  <2>2. 1 + 34 = 35
    OBVIOUS
  <2> QED BY ONLY <2>1, <2>2
<1>32. Stands(p, 1, q8) /\ Stands(p, 33, x9)
  <2>1. Stands(p, 1, q8) /\ Stands(p, 1 + 32, x9)
    BY ONLY <1>31, <1>17, <1>8, PlacedPart, Zenon DEF q9
  <2>2. 1 + 32 = 33
    OBVIOUS
  <2> QED BY ONLY <2>1, <2>2
<1>33. Stands(p, 1, q7) /\ Stands(p, 31, x8)
  <2>1. Stands(p, 1, q7) /\ Stands(p, 1 + 30, x8)
    BY ONLY <1>32, <1>16, <1>8, PlacedPart, Zenon DEF q8
  <2>2. 1 + 30 = 31
    OBVIOUS
  <2> QED BY ONLY <2>1, <2>2
<1>34. Stands(p, 1, q6) /\ Stands(p, 30, x7)
  <2>1. Stands(p, 1, q6) /\ Stands(p, 1 + 29, x7)
    BY ONLY <1>33, <1>15, <1>4, PlacedPart, Zenon DEF q7
  <2>2. 1 + 29 = 30
    OBVIOUS
  <2> QED BY ONLY <2>1, <2>2
<1>35. Stands(p, 1, q5) /\ Stands(p, 28, x6)
  <2>1. Stands(p, 1, q5) /\ Stands(p, 1 + 27, x6)
    BY ONLY <1>34, <1>14, <1>8, PlacedPart, Zenon DEF q6
  <2>2. 1 + 27 = 28
    OBVIOUS
  <2> QED BY ONLY <2>1, <2>2
<1>36. Stands(p, 1, q4) /\ Stands(p, 27, x3)
  <2>1. Stands(p, 1, q4) /\ Stands(p, 1 + 26, x3)
    BY ONLY <1>35, <1>13, <1>4, PlacedPart, Zenon DEF q5
  <2>2. 1 + 26 = 27
    OBVIOUS
  <2> QED BY ONLY <2>1, <2>2
<1>37. Stands(p, 1, q3) /\ Stands(p, 19, x5)
  <2>1. Stands(p, 1, q3) /\ Stands(p, 1 + 18, x5)
    BY ONLY <1>36, <1>12, <1>6, PlacedPart, Zenon DEF q4
  <2>2. 1 + 18 = 19
    OBVIOUS
  <2> QED BY ONLY <2>1, <2>2
<1>38. Stands(p, 1, q2) /\ Stands(p, 15, x4)
  <2>1. Stands(p, 1, q2) /\ Stands(p, 1 + 14, x4)
    BY ONLY <1>37, <1>11, <1>8, PlacedPart, Zenon DEF q3
  <2>2. 1 + 14 = 15
    OBVIOUS
  <2> QED BY ONLY <2>1, <2>2
<1>39. Stands(p, 1, q1) /\ Stands(p, 14, x3)
  <2>1. Stands(p, 1, q1) /\ Stands(p, 1 + 13, x3)
    BY ONLY <1>38, <1>10, <1>4, PlacedPart, Zenon DEF q2
  <2>2. 1 + 13 = 14
    OBVIOUS
  <2> QED BY ONLY <2>1, <2>2
<1>40. Stands(p, 1, x1) /\ Stands(p, 2, x2)
  <2>1. Stands(p, 1, x1) /\ Stands(p, 1 + 1, x2)
    BY ONLY <1>39, <1>4, <1>5, PlacedPart, Zenon DEF q1
  <2>2. 1 + 1 = 2
    OBVIOUS
  <2> QED BY ONLY <2>1, <2>2
<1> QED
  BY ONLY <1>6, <1>9, <1>24, <1>26, <1>27, <1>29, <1>32, <1>33, <1>34, <1>35, <1>37, <1>38, <1>39, <1>40
  DEF x1, x2, x3, x4, x5, x6, x7, x8, x9, x12, x13

LEMMA GreetingFrame ==
  ASSUME NEW st \in [1..20 -> Nat], NEW g,
         g = Greeting(1, [j \in 1..12 |-> 85], [j \in 1..21 |-> 109], st)
  PROVE  IsFrame(Packet(0, GreetingPack(g)), 0, GreetingPack(g))
<1> DEFINE p == GreetingPack(g)
<1>1. IsPart(p, 80)
  BY GreetingPlaces, Zenon
<1> HIDE DEF p
<1>2. p \in Seq(Byte) /\ Len(p) = 80 /\ 80 <= 255 /\ 0 \in Byte
  BY <1>1 DEF IsPart, Byte
<1>3. p \in Seq(Byte) /\ Len(p) <= 255 /\ 0 \in Byte
  BY <1>2
<1> QED BY <1>3, Zenon DEF IsFrame, p

-----------------------------------------------------------------------------
(* The login packet *)

LEMMA NatsJoined ==
  ASSUME NEW a \in Seq(Nat), NEW b \in Seq(Nat)
  PROVE  Cat(a, b) \in Seq(Nat) /\ Len(Cat(a, b)) >= Len(a)
<1>1. a \o b \in Seq(Nat) /\ Len(a \o b) = Len(a) + Len(b) /\ Len(a) \in Nat /\ Len(b) \in Nat
  BY ConcatProperties, LenProperties
<1> QED BY <1>1 DEF Cat

LEMMA BytesAreNats ==
  ASSUME NEW a \in Seq(Byte)
  PROVE  a \in Seq(Nat)
<1>1. Byte \subseteq Nat
  BY DEF Byte
<1> QED BY <1>1, SeqMonotonic

\* It has its header and more, and the number one.
LEMMA LoginPacketShape ==
  ASSUME NEW l \in Logins
  PROVE  /\ LoginPacket(l) \in Seq(Nat) /\ Len(LoginPacket(l)) \in Nat
         /\ Len(LoginPacket(l)) >= 5 /\ LoginPacket(l)[4] = 1
<1> DEFINE flags == 2^Protocol41 + 2^SecureConnection
                    + (IF l.database = NoName THEN 0 ELSE 2^ConnectWithDB)
                    + (IF l.pluginName = NoName THEN 0 ELSE 2^PluginAuth)
           Ended(name) == IF name = NoName THEN <<>> ELSE name \o <<0>>
           b1 == WriteU32(flags)
           b2 == WriteU32(0)
           b3 == <<33>>
           b4 == Zeros(23)
           b5 == l.user
           b6 == <<0>>
           b7 == <<Len(l.response)>>
           b8 == l.response
           b9 == Ended(l.database)
           b10 == Ended(l.pluginName)
           body == Cat(Cat(Cat(Cat(Cat(Cat(Cat(Cat(Cat(b1, b2), b3), b4), b5), b6), b7), b8), b9), b10)
<1>1. LoginPacket(l) = <<Len(body), 0, 0, 1>> \o body
  BY Zenon DEF LoginPacket, Cat
<1>2. l.user \in Seq(1..255) /\ l.response \in Seq(Byte) /\ l.database \in Seq(1..255)
      /\ l.pluginName \in Seq(1..255)
  BY DEF Logins
<1>3. flags \in Nat
  BY SMT DEF Protocol41, SecureConnection, ConnectWithDB, PluginAuth
<1> HIDE DEF flags
<1>4. b1 \in Seq(Nat) /\ Len(b1) = 4 /\ b2 \in Seq(Nat)
  <2>1. b1 \in Seq(Byte) /\ Len(b1) = 4 /\ b2 \in Seq(Byte)
    BY <1>3, LittleEndianBytes DEF WriteU32
  <2> QED BY <2>1, BytesAreNats
<1>5. b3 \in Seq(Nat) /\ b4 \in Seq(Nat) /\ b6 \in Seq(Nat)
  BY DEF Zeros
<1>6. b5 \in Seq(Nat) /\ l.database \in Seq(Nat) /\ l.pluginName \in Seq(Nat)
  <2>1. \A x \in Seq(1..255) : x \in Seq(Nat)
    <3>1. 1..255 \subseteq Nat
      OBVIOUS
    <3> QED BY <3>1, SeqMonotonic
  <2> QED BY <1>2, <2>1
<1>7. b7 \in Seq(Nat) /\ b8 \in Seq(Nat)
  <2>1. Len(l.response) \in Nat
    BY <1>2, LenProperties
  <2>2. b8 \in Seq(Nat)
    BY <1>2, BytesAreNats
  <2> QED BY <2>1, <2>2
<1>8. b9 \in Seq(Nat) /\ b10 \in Seq(Nat)
  <2>1. ASSUME NEW x \in Seq(Nat) PROVE Ended(x) \in Seq(Nat)
    <3>1. <<0>> \in Seq(Nat) /\ <<>> \in Seq(Nat)
      OBVIOUS
    <3>2. x \o <<0>> \in Seq(Nat)
      BY <3>1, ConcatProperties
    <3> QED BY <3>1, <3>2
  <2> QED BY <1>6, <2>1
<1> HIDE DEF b1, b2, b3, b4, b5, b6, b7, b8, b9, b10
<1> DEFINE c2 == Cat(b1, b2)
           c3 == Cat(c2, b3)
           c4 == Cat(c3, b4)
           c5 == Cat(c4, b5)
           c6 == Cat(c5, b6)
           c7 == Cat(c6, b7)
           c8 == Cat(c7, b8)
           c9 == Cat(c8, b9)
           c10 == Cat(c9, b10)
<1>c2. c2 \in Seq(Nat) /\ Len(c2) >= Len(b1)
  BY <1>4, NatsJoined
<1> HIDE DEF c2
<1>c3. c3 \in Seq(Nat) /\ Len(c3) >= Len(c2)
  BY <1>c2, <1>5, NatsJoined
<1> HIDE DEF c3
<1>c4. c4 \in Seq(Nat) /\ Len(c4) >= Len(c3)
  BY <1>c3, <1>5, NatsJoined
<1> HIDE DEF c4
<1>c5. c5 \in Seq(Nat) /\ Len(c5) >= Len(c4)
  BY <1>c4, <1>6, NatsJoined
<1> HIDE DEF c5
<1>c6. c6 \in Seq(Nat) /\ Len(c6) >= Len(c5)
  BY <1>c5, <1>5, NatsJoined
<1> HIDE DEF c6
<1>c7. c7 \in Seq(Nat) /\ Len(c7) >= Len(c6)
  BY <1>c6, <1>7, NatsJoined
<1> HIDE DEF c7
<1>c8. c8 \in Seq(Nat) /\ Len(c8) >= Len(c7)
  BY <1>c7, <1>7, NatsJoined
<1> HIDE DEF c8
<1>c9. c9 \in Seq(Nat) /\ Len(c9) >= Len(c8)
  BY <1>c8, <1>8, NatsJoined
<1> HIDE DEF c9
<1>c10. c10 \in Seq(Nat) /\ Len(c10) >= Len(c9)
  BY <1>c9, <1>8, NatsJoined
<1> HIDE DEF c10
<1>9. body \in Seq(Nat) /\ Len(body) \in Nat /\ Len(body) >= 4
  <2>1. /\ Len(b1) = 4 /\ Len(c2) \in Nat /\ Len(c3) \in Nat /\ Len(c4) \in Nat /\ Len(c5) \in Nat
        /\ Len(c6) \in Nat /\ Len(c7) \in Nat /\ Len(c8) \in Nat /\ Len(c9) \in Nat /\ Len(c10) \in Nat
    BY <1>4, <1>c2, <1>c3, <1>c4, <1>c5, <1>c6, <1>c7, <1>c8, <1>c9, <1>c10, LenProperties
  <2>2. Len(c10) >= 4
    BY <2>1, <1>c2, <1>c3, <1>c4, <1>c5, <1>c6, <1>c7, <1>c8, <1>c9, <1>c10
  <2>3. body = c10
    BY Zenon DEF c2, c3, c4, c5, c6, c7, c8, c9, c10
  <2> HIDE DEF body
  <2> QED BY <2>1, <2>2, <2>3, <1>c10
<1> HIDE DEF body
<1> DEFINE h == <<Len(body), 0, 0, 1>>
           m == Len(body)
<1>10. h \in Seq(Nat) /\ Len(h) = 4 /\ h[4] = 1
  <2>1. m \in Nat
    BY <1>9
  <2>2. h = <<m, 0, 0, 1>>
    OBVIOUS
  <2> HIDE DEF h, m
  <2> QED BY <2>1, <2>2
<1> HIDE DEF h
<1>11. /\ h \o body \in Seq(Nat) /\ Len(h \o body) = Len(h) + Len(body)
       /\ \A j \in 1..(Len(h) + Len(body)) : (h \o body)[j] = IF j <= Len(h) THEN h[j] ELSE body[j - Len(h)]
  BY <1>9, <1>10, ConcatProperties
<1>12. Len(h \o body) \in Nat /\ Len(h \o body) >= 5 /\ (h \o body)[4] = 1
  BY <1>9, <1>10, <1>11
<1> QED BY <1>1, <1>11, <1>12 DEF h

-----------------------------------------------------------------------------
(* The client's packets on their way to the server *)

\* The packet with these bytes is on its way, in pieces or not: received of it is
\* what the server has, coming is the rest.  Nothing comes back.
Asking(bytes, coming, received, buf, sent) ==
  /\ coming \in Seq(Range(bytes)) /\ received \in Seq(Range(bytes))
  /\ received \o coming = bytes
  /\ buf = <<>> /\ sent = <<>>

LEMMA AskingReceives ==
  ASSUME NEW bytes, NEW coming, NEW received, NEW buf, NEW sent,
         Asking(bytes, coming, received, buf, sent), NEW n \in 1..Len(coming)
  PROVE  Asking(bytes, SubSeq(coming, n + 1, Len(coming)), received \o SubSeq(coming, 1, n),
                buf, sent)
<1> DEFINE R == Range(bytes)
           a == SubSeq(coming, 1, n)
           b == SubSeq(coming, n + 1, Len(coming))
<1>1. coming \in Seq(R) /\ received \in Seq(R) /\ received \o coming = bytes
      /\ buf = <<>> /\ sent = <<>>
  BY DEF Asking
<1> HIDE DEF R
<1>2. Len(coming) \in Nat /\ \A j \in 1..Len(coming) : coming[j] \in R
  BY <1>1, LenProperties, ElementOfSeq
<1>3. a \in Seq(R)
  <2>1. \A j \in 1..n : coming[j] \in R
    BY <1>2
  <2> QED BY <1>2, <2>1, SubSeqProperties
<1>4. b \in Seq(R)
  <2>1. \A j \in (n + 1)..Len(coming) : coming[j] \in R
    BY <1>2
  <2> QED BY <1>2, <2>1, SubSeqProperties
<1>5. a \o b = coming
  <2>1. 1 \in 1..(Len(coming) + 1) /\ n \in (1 - 1)..Len(coming) /\ Len(coming) \in n..Len(coming)
    BY <1>2
  <2>2. a \o b = SubSeq(coming, 1, Len(coming))
    BY <1>1, <2>1, ConcatAdjacentSubSeq
  <2> QED BY <1>1, <2>2, SubSeqFull
<1> HIDE DEF a, b
<1>6. received \o a \in Seq(R)
  BY <1>1, <1>3, ConcatProperties
<1>7. (received \o a) \o b = received \o (a \o b)
  BY <1>1, <1>3, <1>4, ConcatAssociative
<1>8. (received \o a) \o b = bytes
  BY <1>1, <1>5, <1>7
<1> QED BY <1>1, <1>4, <1>6, <1>8 DEF Asking, R, a, b

\* A packet is sent.
LEMMA AskingStarts ==
  ASSUME NEW S, NEW bytes \in Seq(S)
  PROVE  Asking(bytes, bytes, <<>>, <<>>, <<>>)
<1> DEFINE R == Range(bytes)
<1>1. bytes \in Seq(R)
  <2>1. Len(bytes) \in Nat /\ bytes \in [1..Len(bytes) -> S] /\ DOMAIN bytes = 1..Len(bytes)
    BY LenProperties
  <2>2. bytes \in [1..Len(bytes) -> R]
    BY <2>1 DEF Range
  <2> HIDE DEF R
  <2> QED BY <2>1, <2>2, SeqDef
<1> HIDE DEF R
<1>2. <<>> \in Seq(R) /\ <<>> \o bytes = bytes
  BY <1>1, EmptySeq, ConcatEmptySeq
<1> QED BY <1>1, <1>2 DEF Asking, R

\* Once as much has arrived as was sent, nothing is missing.
LEMMA AskingEnds ==
  ASSUME NEW bytes, NEW coming, NEW received, NEW buf, NEW sent,
         Asking(bytes, coming, received, buf, sent), received = bytes
  PROVE  coming = <<>>
<1> DEFINE R == Range(bytes)
<1>1. coming \in Seq(R) /\ received \in Seq(R) /\ received \o coming = received
  BY DEF Asking
<1> HIDE DEF R
<1>2. Len(received \o coming) = Len(received) + Len(coming)
      /\ Len(received) \in Nat /\ Len(coming) \in Nat
  BY <1>1, ConcatProperties, LenProperties
<1>3. Len(coming) = 0
  BY <1>1, <1>2
<1> QED BY <1>1, <1>3

LEMMA PlanShape ==
  ASSUME plan \in Plans
  PROVE  /\ plan.login \in Logins /\ plan.modern \in BOOLEAN /\ plan.commands \in Seq(Commands)
         /\ Len(plan.commands) \in Nat
         /\ \A i \in 1..Len(plan.commands) :
              /\ plan.commands[i].code \in Byte /\ plan.commands[i].replies \in Seq(Replies)
              /\ plan.commands[i].replies # <<>>
<1>1. plan.login \in Logins /\ plan.modern \in BOOLEAN /\ plan.commands \in Seq(Commands)
  BY PlansAssumption
<1> DEFINE cs == plan.commands
<1>2. cs \in Seq(Commands)
  BY <1>1
<1> HIDE DEF cs
<1>3. Len(cs) \in Nat /\ \A i \in 1..Len(cs) : cs[i] \in Commands
  BY <1>2, LenProperties, ElementOfSeq
<1>4. \A c \in Commands : c.code \in Byte /\ c.replies \in Seq(Replies) /\ c.replies # <<>>
  BY DEF Commands
<1>5. \A i \in 1..Len(cs) : cs[i].code \in Byte /\ cs[i].replies \in Seq(Replies) /\ cs[i].replies # <<>>
  BY <1>3, <1>4
<1> QED BY <1>1, <1>3, <1>5 DEF cs

\* A packet of the client is longer than its header.
LEMMA Sizes ==
  ASSUME plan \in Plans, NEW i \in 0..Len(plan.commands)
  PROVE  /\ SizeOf(i) \in Nat /\ SizeOf(i) >= 5
         /\ i # 0 /\ plan.commands[i].code = COM_QUERY => SizeOf(i) = 7
         /\ Len(Bytes(i)) = SizeOf(i)
         /\ Bytes(i) \in Seq({[cmd |-> i, place |-> j] : j \in 1..SizeOf(i)})
         /\ \A j \in 1..SizeOf(i) : Bytes(i)[j] = [cmd |-> i, place |-> j]
<1>1. SizeOf(i) \in Nat /\ SizeOf(i) >= 5 /\ (i # 0 /\ plan.commands[i].code = COM_QUERY => SizeOf(i) = 7)
  <2>1. CASE i = 0
    <3>1. plan.login \in Logins /\ plan.login \in {p.login : p \in Plans}
      BY PlanShape
    <3>2. LoginPackets[plan.login] = LoginPacket(plan.login)
      BY <3>1 DEF LoginPackets
    <3>3. Len(LoginPacket(plan.login)) \in Nat /\ Len(LoginPacket(plan.login)) >= 5
      BY <3>1, LoginPacketShape
    <3>4. SizeOf(i) = Len(LoginPackets[plan.login])
      BY <2>1 DEF SizeOf
    <3> QED BY <2>1, <3>2, <3>3, <3>4
  <2>2. CASE i # 0
    BY <2>2 DEF SizeOf, TextSize
  <2> QED BY <2>1, <2>2
<1> DEFINE n == SizeOf(i)
           r(j) == [cmd |-> i, place |-> j]
           S == {r(j) : j \in 1..n}
<1>2. Bytes(i) = [j \in 1..n |-> r(j)]
  BY DEF Bytes
<1>3. n \in Nat
  BY <1>1
<1> HIDE DEF n, r
<1>4. \A j \in 1..n : r(j) \in S
  OBVIOUS
<1> HIDE DEF S
<1>5. [j \in 1..n |-> r(j)] \in Seq(S) /\ Len([j \in 1..n |-> r(j)]) = n
      /\ \A k \in 1..n : [j \in 1..n |-> r(j)][k] = r(k)
  BY <1>3, <1>4
<1> QED BY <1>1, <1>2, <1>5 DEF n, r, S

\* What is read whole is the packet sent last.
LEMMA WholeIsCurrent ==
  ASSUME plan \in Plans, current \in 0..Len(plan.commands), recvBuf # <<>>, ReadWhole,
         Asking(Bytes(current), up, recvBuf, inbuf, down)
  PROVE  recvBuf = Bytes(current) /\ up = <<>> /\ inbuf = <<>> /\ down = <<>>
<1>1. PICK i \in 0..Len(plan.commands) : recvBuf = Bytes(i)
  BY DEF ReadWhole
<1>2. /\ SizeOf(i) \in Nat /\ SizeOf(i) >= 5 /\ Len(Bytes(i)) = SizeOf(i)
      /\ \A j \in 1..SizeOf(i) : Bytes(i)[j] = [cmd |-> i, place |-> j]
  BY Sizes
<1>3. 1 \in 1..SizeOf(i) /\ recvBuf[1] = [cmd |-> i, place |-> 1] /\ Len(recvBuf) = SizeOf(i)
  BY <1>1, <1>2
<1>4. recvBuf[1] \in Range(Bytes(current))
  <2>1. recvBuf \in Seq(Range(Bytes(current)))
    BY DEF Asking
  <2> QED BY <1>3, <2>1, ElementOfSeq
<1>5. \A b \in Range(Bytes(current)) : b.cmd = current
  <2>1. Bytes(current) = [j \in 1..SizeOf(current) |-> [cmd |-> current, place |-> j]]
    BY DEF Bytes
  <2> QED BY <2>1 DEF Range
<1>6. i = current
  BY <1>3, <1>4, <1>5
<1>7. recvBuf = Bytes(current)
  BY <1>1, <1>6
<1>8. up = <<>>
  BY <1>7, AskingEnds
<1> QED BY <1>7, <1>8 DEF Asking

-----------------------------------------------------------------------------
(* Where the exchange is *)

Login == plan.login
Reply == plan.commands[current].replies[1]

GreetingOut == <<Packet(0, GreetingPack(ServerGreeting))>>
OkOut == <<SendOkMessageToClient(1, Plain("ok"))>>

\* Of the packets out, k are taken; nothing is on its way to the server.
Underway(out, k, coming, received, buf, sent) ==
  coming = <<>> /\ received = <<>> /\ InTransit(out, k, buf, sent)

\* The command that is answered is one the server is made for.
Served ==
  /\ current > 0
  /\ plan.commands[current].code = COM_QUERY
  /\ Len(plan.commands[current].replies) = 1
  /\ Reply \notin Unfit
  /\ Reply.kind = "rows" => ~plan.modern

\* The answer after c columns and r rows.
Partial(c, r) ==
  [kind |-> "rows", columns |-> SubSeq(Intended(Reply).columns, 1, c),
   rows |-> SubSeq(Reply.rows, 1, r)]

\* The client after k packets of a result set with n columns and m rows.
Progress(n, m, k) ==
  /\ want = (k + 1) % 256
  /\ \/ k \in 1..n /\ phase = "fields" /\ left = n - k + 1 /\ answer = Partial(k - 1, 0)
     \/ k = n + 1 /\ phase = "eof" /\ left = 0 /\ answer = Partial(n, 0)
     \/ k \in (n + 2)..(n + 2 + m) /\ phase = "rows" /\ left = 0 /\ answer = Partial(n, k - n - 2)

AtNew ==
  /\ phase = "new" /\ current = 0
  /\ up = <<>> /\ recvBuf = <<>> /\ down = <<>> /\ inbuf = <<>>
AtGreeting ==
  /\ phase = "greeting" /\ current = 0
  /\ Underway(GreetingOut, 0, up, recvBuf, inbuf, down)
AtLogin ==
  /\ phase = "login" /\ current = 0 /\ want = 2
  /\ \/ Asking(Bytes(0), up, recvBuf, inbuf, down)
     \/ Underway(OkOut, 0, up, recvBuf, inbuf, down) /\ names = LoginNames[Login]
AtIdle ==
  /\ phase = "idle" /\ names = LoginNames[Login]
  /\ up = <<>> /\ recvBuf = <<>> /\ down = <<>> /\ inbuf = <<>>
  /\ current > 0 => answer = Intended(Reply)
AtQuery ==
  /\ phase = "query" /\ current > 0 /\ want = 1 /\ names = LoginNames[Login]
  /\ \/ Asking(Bytes(current), up, recvBuf, inbuf, down)
     \/ Served /\ Underway(SendReply(0, Reply), 0, up, recvBuf, inbuf, down)
AtResult ==
  /\ Served /\ Reply.kind = "rows" /\ names = LoginNames[Login]
  /\ \E k \in 1..(Len(Reply.columns) + Len(Reply.rows) + 2) :
       /\ Underway(ResultSets[Reply], k, up, recvBuf, inbuf, down)
       /\ Progress(Len(Reply.columns), Len(Reply.rows), k)

Lockstep == AtNew \/ AtGreeting \/ AtLogin \/ AtIdle \/ AtQuery \/ AtResult

\* The inductive invariant: while nothing has happened that the server is not made
\* for, exactly one side has the word, and the client has read of the answer what
\* the packets it has taken carry.
SessionInv ==
  /\ plan \in Plans /\ salt \in Salts
  /\ current \in 0..Len(plan.commands)
  /\ crashed => "mangled" \in trouble
  /\ trouble = {} => Lockstep

LEMMA ReplyKinds ==
  ASSUME plan \in Plans, current \in 0..Len(plan.commands), current > 0
  PROVE  \/ Reply.kind = "ok" /\ Reply \in OkReplies
         \/ Reply.kind = "err" /\ Reply = Plain("err")
         \/ Reply.kind = "rows" /\ Reply \in RowReplies
<1> DEFINE cs == plan.commands
           rs == cs[current].replies
<1>0. cs \in Seq(Commands) /\ Len(cs) \in Nat
      /\ \A i \in 1..Len(cs) : cs[i].replies \in Seq(Replies) /\ cs[i].replies # <<>>
  BY PlanShape
<1>1. current \in 1..Len(cs)
  BY <1>0
<1>2. rs \in Seq(Replies) /\ rs # <<>>
  BY <1>0, <1>1
<1>3. Reply = rs[1]
  BY DEF Reply
<1>4. rs \in Range([i \in 1..Len(cs) |-> cs[i].replies]) /\ cs[current] \in Range(cs)
  BY <1>0, <1>1 DEF Range
<1> HIDE DEF rs, cs
<1>5. 1 \in 1..Len(rs) /\ DOMAIN rs = 1..Len(rs)
  BY <1>2, EmptySeq, LenProperties
<1>6. Reply \in Replies /\ Reply \in Range(rs)
  BY <1>2, <1>3, <1>5, ElementOfSeq DEF Range
<1>7. Reply.kind = "rows" => Reply \in RowReplies
  BY <1>4, <1>6 DEF RowReplies, rs, cs
<1>8. \A x \in OkReplies : x.kind = "ok"
  BY Zenon DEF OkReplies
<1>9. Plain("err").kind = "err"
  BY DEF Plain
<1>10. \A x \in TableReplies : x.kind = "rows"
  BY TableShape
<1> QED BY <1>6, <1>7, <1>8, <1>9, <1>10, Zenon DEF Replies

LEMMA OkShape ==
  ASSUME NEW r \in OkReplies
  PROVE  /\ r.affected \in Nat /\ r.affected < 2^24 /\ r.warnings \in Nat /\ r.warnings < 2^16
         /\ r = [kind |-> "ok", affected |-> r.affected, warnings |-> r.warnings]
<1>1. r.affected \in 0..2^24 - 1 /\ r.warnings \in 0..2^16 - 1 /\ r.kind = "ok"
  BY Zenon DEF OkReplies
<1> DEFINE a == r.affected
           w == r.warnings
<1>2. a \in 0..2^24 - 1 /\ w \in 0..2^16 - 1
  BY <1>1
<1> HIDE DEF a, w
<1>3. a \in Nat /\ a < 2^24 /\ w \in Nat /\ w < 2^16
  BY <1>2, SMT
<1>4. r = [kind |-> r.kind, affected |-> r.affected, warnings |-> r.warnings]
  <2> DEFINE A == 0..2^24 - 1
             W == 0..2^16 - 1
  <2>1. r \in [kind : {"ok"}, affected : A, warnings : W]
    BY DEF OkReplies
  <2> HIDE DEF A, W
  <2> QED BY <2>1
<1> QED BY <1>1, <1>3, <1>4, Zenon DEF a, w

LEMMA PlainOk ==
  /\ Plain("ok").affected \in Nat /\ Plain("ok").affected < 2^24
  /\ Plain("ok").warnings \in Nat /\ Plain("ok").warnings < 2^16
<1>1. Plain("ok").affected = 0 /\ Plain("ok").warnings = 0
  BY DEF Plain
<1>2. 0 \in Nat /\ 0 < 2^24 /\ 0 < 2^16
  BY SMT
<1> QED BY <1>1, <1>2, Zenon

LEMMA GreetingFramed ==
  ASSUME salt \in Salts
  PROVE  /\ IsFrame(GreetingOut[1], 0, GreetingPack(ServerGreeting))
         /\ Framed(GreetingOut) /\ Len(GreetingOut) = 1
<1> DEFINE p == GreetingPack(ServerGreeting)
           b == Packet(0, p)
<1>1. IsFrame(b, 0, p)
  BY SaltsAssumption, GreetingFrame DEF ServerGreeting
<1>2. GreetingOut = <<b>>
  BY DEF GreetingOut
<1> HIDE DEF b, p
<1>3. Framed(<<b>>) /\ Len(<<b>>) = 1 /\ <<b>>[1] = b
  BY <1>1, OneFramed
<1> QED BY <1>1, <1>2, <1>3 DEF p

LEMMA OkOutFramed ==
  LET p == OkPack(0, 0, 2, 0)
  IN  IsFrame(OkOut[1], 2, p) /\ p # <<>> /\ p[1] = 0 /\ Framed(OkOut) /\ Len(OkOut) = 1
<1> DEFINE p == OkPack(0, 0, 2, 0)
           b == SendOkMessageToClient(1, Plain("ok"))
<1>1. Plain("ok").affected = 0 /\ Plain("ok").warnings = 0
  BY DEF Plain
<1>2. IsFrame(b, Next8(1), OkPack(Plain("ok").affected, 0, 2, Plain("ok").warnings))
      /\ OkPack(Plain("ok").affected, 0, 2, Plain("ok").warnings) # <<>>
      /\ OkPack(Plain("ok").affected, 0, 2, Plain("ok").warnings)[1] = 0
  BY PlainOk, NextNumbers, OkFrame
<1>3. IsFrame(b, 2, p) /\ p # <<>> /\ p[1] = 0
  BY <1>1, <1>2, NextNumbers
<1>4. OkOut = <<b>>
  BY DEF OkOut
<1> HIDE DEF b, p
<1>5. Framed(<<b>>) /\ Len(<<b>>) = 1 /\ <<b>>[1] = b
  BY <1>3, OneFramed
<1> QED BY <1>3, <1>4, <1>5 DEF p

LEMMA ReplyOut ==
  ASSUME plan \in Plans, current \in 0..Len(plan.commands), Served
  PROVE  LET out == SendReply(0, Reply)
             ok == OkPack(Reply.affected, 0, 2, Reply.warnings)
         IN  /\ Framed(out)
             /\ Reply.kind = "ok" =>
                  /\ Len(out) = 1 /\ IsFrame(out[1], 1, ok) /\ ok # <<>> /\ ok[1] = 0
                  /\ ProtocolNumber(ok, 2).val = Reply.affected
                  /\ FromBytes(ok, Len(ok) - 1, 2) = Reply.warnings
             /\ Reply.kind = "err" => Len(out) = 1 /\ IsFrame(out[1], 1, ErrPayload)
             /\ Reply.kind = "rows" => out = ResultSets[Reply] /\ Reply \in RowReplies
<1> DEFINE out == SendReply(0, Reply)
           ok == OkPack(Reply.affected, 0, 2, Reply.warnings)
<1>0. current > 0 /\ Reply \notin Unfit
  BY DEF Served
<1>1. CASE Reply.kind = "ok"
  <2>1. Reply \in OkReplies
    BY <1>0, <1>1, ReplyKinds
  <2> DEFINE b == SendOkMessageToClient(0, Reply)
  <2>2. out = <<b>>
    BY <1>1 DEF SendReply
  <2>3. /\ IsFrame(b, Next8(0), ok) /\ ok # <<>> /\ ok[1] = 0
        /\ ProtocolNumber(ok, 2).val = Reply.affected
        /\ FromBytes(ok, Len(ok) - 1, 2) = Reply.warnings
    BY <2>1, OkShape, NextNumbers, OkFrame
  <2> HIDE DEF b, ok, out
  <2>4. IsFrame(b, 1, ok)
    BY <2>3, NextNumbers
  <2>5. Framed(<<b>>) /\ Len(<<b>>) = 1 /\ <<b>>[1] = b
    BY <2>4, OneFramed
  <2> QED BY <1>1, <2>2, <2>3, <2>4, <2>5 DEF ok, out
<1>2. CASE Reply.kind = "err"
  <2> DEFINE b == SendErrorMessageToClient(0)
  <2>1. out = <<b>>
    BY <1>2 DEF SendReply
  <2>2. IsFrame(b, 1, ErrPayload)
    BY NextNumbers, ErrFrame
  <2> HIDE DEF b, out
  <2>3. Framed(<<b>>) /\ Len(<<b>>) = 1 /\ <<b>>[1] = b
    BY <2>2, OneFramed
  <2> QED BY <1>2, <2>1, <2>2, <2>3 DEF out
<1>3. CASE Reply.kind = "rows"
  <2>1. Reply \in RowReplies
    BY <1>0, <1>3, ReplyKinds
  <2>2. out = ResultSets[Reply]
    BY <1>3 DEF SendReply
  <2>3. Framed(ResultSets[Reply])
    BY <1>0, <2>1, ResultFramed
  <2> QED BY <1>3, <2>1, <2>2, <2>3
<1> QED BY <1>0, <1>1, <1>2, <1>3, ReplyKinds

LEMMA ReadyIsFrameReady == FrameReady <=> Ready(inbuf)
BY DEF FrameReady, FrameSize, Ready

-----------------------------------------------------------------------------
(* The steps *)

\* The client reads the next bytes.
LEMMA LockstepReceives ==
  ASSUME plan \in Plans, salt \in Salts, current \in 0..Len(plan.commands), Lockstep,
         ClientReceives
  PROVE  Lockstep'
<1>1. /\ phase \notin {"idle", "lost"} /\ ~Ready(inbuf) /\ down # <<>>
      /\ inbuf' = inbuf \o Head(down) /\ down' = Tail(down)
      /\ plan' = plan /\ salt' = salt /\ up' = up /\ recvBuf' = recvBuf /\ phase' = phase
      /\ current' = current /\ want' = want /\ left' = left /\ answer' = answer /\ names' = names
  BY ReadyIsFrameReady DEF ClientReceives
<1>2. ASSUME NEW out, Framed(out), NEW k \in Nat, Underway(out, k, up, recvBuf, inbuf, down)
      PROVE  Underway(out, k, up', recvBuf', inbuf', down')
  BY <1>1, <1>2, TransitReceives DEF Underway
<1>3. ASSUME NEW bytes PROVE ~Asking(bytes, up, recvBuf, inbuf, down)
  BY <1>1 DEF Asking
<1>4. /\ GreetingOut' = GreetingOut /\ Login' = Login /\ Reply' = Reply
      /\ Served' <=> Served
  BY <1>1 DEF GreetingOut, ServerGreeting, Login, Reply, Served
<1>5. CASE AtNew
  BY <1>1, <1>5 DEF AtNew
<1>6. CASE AtGreeting
  <2>1. Underway(GreetingOut, 0, up', recvBuf', inbuf', down')
    BY <1>2, <1>6, GreetingFramed DEF AtGreeting
  <2> QED BY <1>1, <1>4, <1>6, <2>1 DEF AtGreeting, Lockstep
<1>7. CASE AtLogin
  <2>1. Underway(OkOut, 0, up, recvBuf, inbuf, down) /\ names = LoginNames[Login]
    BY <1>3, <1>7 DEF AtLogin
  <2>2. Underway(OkOut, 0, up', recvBuf', inbuf', down')
    BY <1>2, <2>1, OkOutFramed
  <2>3. OkOut' = OkOut
    BY DEF OkOut
  <2> QED BY <1>1, <1>4, <1>7, <2>1, <2>2, <2>3 DEF AtLogin, Lockstep
<1>8. CASE AtIdle
  BY <1>1, <1>8 DEF AtIdle
<1>9. CASE AtQuery
  <2>1. Served /\ Underway(SendReply(0, Reply), 0, up, recvBuf, inbuf, down)
    BY <1>3, <1>9 DEF AtQuery
  <2>2. Underway(SendReply(0, Reply), 0, up', recvBuf', inbuf', down')
    BY <1>2, <2>1, ReplyOut
  <2>3. SendReply(0, Reply)' = SendReply(0, Reply)
    BY <1>4 DEF SendReply
  <2> QED BY <1>1, <1>4, <1>9, <2>1, <2>2, <2>3 DEF AtQuery, Lockstep
<1>10. CASE AtResult
  <2>1. PICK k \in 1..(Len(Reply.columns) + Len(Reply.rows) + 2) :
          /\ Underway(ResultSets[Reply], k, up, recvBuf, inbuf, down)
          /\ Progress(Len(Reply.columns), Len(Reply.rows), k)
    BY <1>10 DEF AtResult
  <2>2. Framed(ResultSets[Reply])
    BY <1>10, ReplyOut DEF AtResult
  <2>3. Underway(ResultSets[Reply], k, up', recvBuf', inbuf', down')
    <3>1. k \in Nat
      OBVIOUS
    <3> QED BY <1>2, <2>1, <2>2, <3>1
  <2>4. Progress(Len(Reply.columns), Len(Reply.rows), k)'
    BY <1>1, <1>4, <2>1 DEF Progress, Partial, Intended
  <2>5. ResultSets[Reply]' = ResultSets[Reply]
    BY <1>4
  <2> QED BY <1>1, <1>4, <1>10, <2>1, <2>3, <2>4, <2>5 DEF AtResult, Lockstep
<1> QED BY <1>5, <1>6, <1>7, <1>8, <1>9, <1>10 DEF Lockstep

\* A read brings some of the bytes on their way.
LEMMA LockstepRecv ==
  ASSUME plan \in Plans, salt \in Salts, current \in 0..Len(plan.commands), Lockstep,
         NEW n \in 1..Len(up), Recv(n)
  PROVE  Lockstep'
<1>1. /\ recvBuf' = recvBuf \o SubSeq(up, 1, n) /\ up' = SubSeq(up, n + 1, Len(up))
      /\ plan' = plan /\ salt' = salt /\ down' = down /\ inbuf' = inbuf /\ phase' = phase
      /\ current' = current /\ want' = want /\ left' = left /\ answer' = answer /\ names' = names
  BY DEF Recv, clientVars
<1>2. up # <<>>
  <2>1. Len(<<>>) = 0 /\ ~\E j \in 1..0 : TRUE
    OBVIOUS
  <2> QED BY <2>1
<1>3. ASSUME NEW out, NEW k PROVE ~Underway(out, k, up, recvBuf, inbuf, down)
  BY <1>2 DEF Underway
<1>4. ASSUME NEW bytes, Asking(bytes, up, recvBuf, inbuf, down)
      PROVE  Asking(bytes, up', recvBuf', inbuf', down')
  BY <1>1, <1>4, AskingReceives
<1>5. Login' = Login /\ Bytes(0)' = Bytes(0) /\ Bytes(current)' = Bytes(current)
  BY <1>1 DEF Login, Bytes, SizeOf
<1>6. ~AtNew /\ ~AtGreeting /\ ~AtIdle /\ ~AtResult
  BY <1>2, <1>3 DEF AtNew, AtGreeting, AtIdle, AtResult
<1>7. CASE AtLogin
  <2>1. Asking(Bytes(0), up, recvBuf, inbuf, down)
    BY <1>3, <1>7 DEF AtLogin
  <2>2. Asking(Bytes(0), up', recvBuf', inbuf', down')
    BY <1>4, <2>1
  <2> QED BY <1>1, <1>5, <1>7, <2>2 DEF AtLogin, Lockstep
<1>8. CASE AtQuery
  <2>1. Asking(Bytes(current), up, recvBuf, inbuf, down)
    BY <1>3, <1>8 DEF AtQuery
  <2>2. Asking(Bytes(current), up', recvBuf', inbuf', down')
    BY <1>4, <2>1
  <2> QED BY <1>1, <1>5, <1>8, <2>2 DEF AtQuery, Lockstep
<1> QED BY <1>6, <1>7, <1>8 DEF Lockstep

\* The greeting is sent.
LEMMA LockstepConnect ==
  ASSUME salt \in Salts, Lockstep, OnConnect
  PROVE  Lockstep'
<1>1. /\ phase = "new" /\ phase' = "greeting" /\ down' = GreetingOut
      /\ salt' = salt /\ up' = up /\ recvBuf' = recvBuf /\ inbuf' = inbuf /\ current' = current
  BY DEF OnConnect, GreetingOut
<1>2. AtNew
  BY <1>1 DEF Lockstep, AtGreeting, AtLogin, AtIdle, AtQuery, AtResult, Progress
<1>3. InTransit(GreetingOut, 0, <<>>, GreetingOut)
  BY GreetingFramed, TransitStarts
<1>4. GreetingOut' = GreetingOut
  BY <1>1 DEF GreetingOut, ServerGreeting
<1>5. AtGreeting'
  BY <1>1, <1>2, <1>3, <1>4 DEF AtNew, AtGreeting, Underway
<1> QED BY <1>5 DEF Lockstep

\* The login is sent.
LEMMA LockstepLogsIn ==
  ASSUME plan \in Plans, salt \in Salts, current \in 0..Len(plan.commands), Lockstep,
         ClientLogsIn
  PROVE  Lockstep'
<1>1. /\ phase = "greeting" /\ Ready(inbuf) /\ phase' = "login" /\ want' = 2 /\ up' = Bytes(0)
      /\ inbuf' = SubSeq(inbuf, 5 + FromBytes(inbuf, 1, 3), Len(inbuf))
      /\ plan' = plan /\ recvBuf' = recvBuf /\ down' = down /\ current' = current
  BY ReadyIsFrameReady DEF ClientLogsIn, FrameSize
<1>2. AtGreeting
  BY <1>1 DEF Lockstep, AtNew, AtLogin, AtIdle, AtQuery, AtResult, Progress
<1>3. /\ Framed(GreetingOut) /\ Len(GreetingOut) = 1
      /\ IsFrame(GreetingOut[1], 0, GreetingPack(ServerGreeting))
  BY GreetingFramed
<1>4. InTransit(GreetingOut, 0, inbuf, down) /\ recvBuf = <<>> /\ current = 0
  BY <1>2 DEF AtGreeting, Underway
<1>5. inbuf = GreetingOut[0 + 1] /\ InTransit(GreetingOut, 0 + 1, <<>>, down)
  BY <1>1, <1>4, TransitTakes
<1>6. 0 + 1 = 1
  OBVIOUS
<1>7. inbuf' = <<>>
  BY <1>1, <1>3, <1>5, <1>6, FrameRead DEF Holds
<1>8. down = <<>>
  BY <1>3, <1>5, <1>6, TransitEnds
<1>9. Asking(Bytes(0), Bytes(0), <<>>, <<>>, <<>>)
  <2>1. 0 \in 0..Len(plan.commands)
    BY PlanShape
  <2> QED BY <2>1, Sizes, AskingStarts
<1>10. Bytes(0)' = Bytes(0)
  BY <1>1 DEF Bytes, SizeOf
<1>11. AtLogin'
  BY <1>1, <1>4, <1>7, <1>8, <1>9, <1>10 DEF AtLogin
<1> QED BY <1>11 DEF Lockstep

\* The next command is sent.
LEMMA LockstepSends ==
  ASSUME plan \in Plans, current \in 0..Len(plan.commands), Lockstep, ClientSends
  PROVE  Lockstep'
<1>1. /\ phase = "idle" /\ down = <<>> /\ inbuf = <<>> /\ current < Len(plan.commands)
      /\ current' = current + 1 /\ up' = up \o Bytes(current + 1)
      /\ phase' = "query" /\ want' = 1 /\ plan' = plan /\ recvBuf' = recvBuf
      /\ down' = down /\ inbuf' = inbuf /\ names' = names
  BY DEF ClientSends
<1>2. AtIdle
  BY <1>1 DEF Lockstep, AtNew, AtGreeting, AtLogin, AtQuery, AtResult, Progress
<1>3. current + 1 \in 0..Len(plan.commands) /\ current + 1 > 0
  BY <1>1, PlanShape
<1> DEFINE bytes == Bytes(current + 1)
           S == {[cmd |-> current + 1, place |-> j] : j \in 1..SizeOf(current + 1)}
<1>4. bytes \in Seq(S)
  BY <1>3, Sizes
<1>5. Bytes(current)' = bytes
  BY <1>1 DEF Bytes, SizeOf
<1> HIDE DEF bytes, S
<1>6. Asking(bytes, bytes, <<>>, <<>>, <<>>)
  BY <1>4, AskingStarts
<1>7. up' = bytes
  <2>1. <<>> \o bytes = bytes
    BY <1>4, ConcatEmptySeq
  <2> QED BY <1>1, <1>2, <2>1 DEF AtIdle, bytes
<1>8. AtQuery'
  BY <1>1, <1>2, <1>3, <1>5, <1>6, <1>7 DEF AtQuery, AtIdle, Login
<1> QED BY <1>8 DEF Lockstep

\* Nothing comes that was not asked for.
LEMMA LockstepSurprise ==
  ASSUME Lockstep
  PROVE  ~ClientIsSurprised
<1> SUFFICES ASSUME ClientIsSurprised PROVE FALSE
  OBVIOUS
<1>1. phase = "idle" /\ (down # <<>> \/ inbuf # <<>>)
  BY DEF ClientIsSurprised
<1>2. AtIdle
  BY <1>1 DEF Lockstep, AtNew, AtGreeting, AtLogin, AtQuery, AtResult, Progress
<1> QED BY <1>1, <1>2 DEF AtIdle

\* A read too short to be a command is not whole.
LEMMA ShortIsMangled ==
  ASSUME plan \in Plans, HandleShort
  PROVE  "mangled" \in trouble'
<1>1. Len(recvBuf) < 5 /\ trouble' = trouble \union TroubleOf(<<>>)
  BY DEF HandleShort
<1>2. ~ReadWhole
  <2>1. ASSUME NEW i \in 0..Len(plan.commands), recvBuf = Bytes(i) PROVE FALSE
    <3>1. SizeOf(i) \in Nat /\ SizeOf(i) >= 5 /\ Len(Bytes(i)) = SizeOf(i)
      BY Sizes
    <3> QED BY <1>1, <2>1, <3>1
  <2> QED BY <2>1 DEF ReadWhole
<1> QED BY <1>1, <1>2 DEF TroubleOf

\* Whose turn it is when the server has read something.
LEMMA ReadMeansAsking ==
  ASSUME Lockstep, recvBuf # <<>>
  PROVE  \/ AtLogin /\ Asking(Bytes(0), up, recvBuf, inbuf, down)
         \/ AtQuery /\ Asking(Bytes(current), up, recvBuf, inbuf, down)
BY DEF Lockstep, AtNew, AtGreeting, AtLogin, AtIdle, AtQuery, AtResult, Underway

\* The fourth byte of a login is one, that of a command is zero.
LEMMA LoginByItsNumber ==
  ASSUME plan \in Plans, NEW i \in 0..Len(plan.commands), recvBuf = Bytes(i)
  PROVE  IsLogin <=> i = 0
<1>1. /\ SizeOf(i) \in Nat /\ SizeOf(i) >= 5
      /\ \A j \in 1..SizeOf(i) : Bytes(i)[j] = [cmd |-> i, place |-> j]
  BY Sizes
<1>2. recvBuf[4] = [cmd |-> i, place |-> 4]
  BY <1>1
<1>3. CASE i = 0
  <2>1. plan.login \in Logins /\ plan.login \in {p.login : p \in Plans}
    BY PlanShape
  <2>2. LoginPackets[plan.login][4] = 1
    BY <2>1, LoginPacketShape DEF LoginPackets
  <2> QED BY <1>2, <1>3, <2>2 DEF IsLogin, ValueOf
<1>4. CASE i # 0
  <2>1. ValueOf([cmd |-> i, place |-> 4]) = 0
    BY <1>4 DEF ValueOf
  <2> QED BY <1>2, <1>4, <2>1 DEF IsLogin
<1> QED BY <1>3, <1>4

\* The server answers the login.
LEMMA LockstepHandlesLogin ==
  ASSUME plan \in Plans, current \in 0..Len(plan.commands), Lockstep, HandleLogin,
         trouble' = {}
  PROVE  Lockstep'
<1>1. /\ Len(recvBuf) >= 5 /\ IsLogin
      /\ names' = (IF ReadWhole THEN LoginNames[plan.login] ELSE names)
      /\ down' = Append(down, SendOkMessageToClient(1, Plain("ok")))
      /\ recvBuf' = <<>> /\ trouble' = trouble \union TroubleOf(<<Plain("ok")>>)
      /\ plan' = plan /\ up' = up /\ inbuf' = inbuf /\ phase' = phase
      /\ current' = current /\ want' = want
  BY DEF HandleLogin, clientVars
<1>2. ReadWhole
  BY <1>1 DEF TroubleOf
<1>3. recvBuf # <<>>
  <2>1. Len(<<>>) = 0
    OBVIOUS
  <2> QED BY <1>1, <2>1
<1>4. recvBuf = Bytes(current) /\ up = <<>> /\ inbuf = <<>> /\ down = <<>>
  BY <1>2, <1>3, ReadMeansAsking, WholeIsCurrent DEF AtLogin
<1>5. current = 0
  BY <1>1, <1>4, LoginByItsNumber
<1>6. AtLogin
  BY <1>3, <1>5, ReadMeansAsking DEF AtQuery
<1>7. down' = OkOut
  BY <1>1, <1>4 DEF OkOut
<1>8. InTransit(OkOut, 0, <<>>, OkOut)
  BY OkOutFramed, TransitStarts
<1>9. OkOut' = OkOut
  BY DEF OkOut
<1>10. names' = LoginNames[Login]'
  BY <1>1, <1>2 DEF Login
<1>11. AtLogin'
  BY <1>1, <1>4, <1>6, <1>7, <1>8, <1>9, <1>10 DEF AtLogin, Underway
<1> QED BY <1>11 DEF Lockstep

\* One part flattened is that part.
LEMMA FlattenOne ==
  ASSUME NEW seqs, Len(seqs) = 1
  PROVE  FlattenSeq(seqs) = seqs[1]
<1> DEFINE eqn(g) == g = [i \in 1..1 |-> IF i = 1 THEN seqs[i] ELSE g[i - 1] \o seqs[i]]
           d == CHOOSE g : eqn(g)
<1>1. \E g : eqn(g)
  <2> DEFINE g == [i \in 1..1 |-> seqs[1]]
  <2>1. \A i \in 1..1 : i = 1 /\ g[i] = seqs[i]
    OBVIOUS
  <2>2. g = [i \in 1..1 |-> g[i]]
    OBVIOUS
  <2> HIDE DEF g
  <2>3. \A i \in 1..1 : g[i] = IF i = 1 THEN seqs[i] ELSE g[i - 1] \o seqs[i]
    BY <2>1
  <2>4. eqn(g)
    BY <2>2, <2>3, Zenon
  <2> QED BY <2>4, Zenon
<1>2. FlattenSeq(seqs) = d[1]
  BY DEF FlattenSeq
<1>3. eqn(d)
  BY <1>1, Zenon
<1> HIDE DEF d
<1>4. 1 \in 1..1
  OBVIOUS
<1>5. d[1] = seqs[1]
  BY <1>3, <1>4, Zenon
<1> QED BY <1>2, <1>5

\* A command that is a query has a text of two letters.
LEMMA TextOfQuery ==
  ASSUME plan \in Plans, NEW i \in 1..Len(plan.commands), recvBuf = Bytes(i),
         plan.commands[i].code = COM_QUERY
  PROVE  /\ Text = SubSeq(Bytes(i), 6, SizeOf(i)) /\ Text # <<>>
         /\ Text[1] = [cmd |-> i, place |-> 6]
<1> DEFINE b == Bytes(i)
<1>1. /\ SizeOf(i) = 7 /\ Len(b) = 7
      /\ \A j \in 1..7 : b[j] = [cmd |-> i, place |-> j]
  <2>1. i \in 0..Len(plan.commands) /\ i # 0
    BY PlanShape
  <2> QED BY <2>1, Sizes
<1>2. ValueOf(b[6]) = Letter /\ ValueOf(b[7]) = Letter
  <2>1. b[6] = [cmd |-> i, place |-> 6] /\ b[7] = [cmd |-> i, place |-> 7] /\ i # 0
    BY <1>1
  <2> HIDE DEF b
  <2> QED BY <2>1 DEF ValueOf
<1> DEFINE letters == {j \in 6..Len(recvBuf) : \A k \in 6..j : ValueOf(recvBuf[k]) # 0}
<1>3. letters = {6, 7}
  <2> HIDE DEF b
  <2>1. recvBuf = b
    BY DEF b
  <2>2. ValueOf(recvBuf[6]) # 0 /\ ValueOf(recvBuf[7]) # 0 /\ Len(recvBuf) = 7
    BY <1>1, <1>2, <2>1 DEF Letter
  <2>3. \A j \in 6..7 : (\A k \in 6..j : k = 6 \/ k = 7) /\ (j = 6 \/ j = 7)
    OBVIOUS
  <2>4. 6 \in 6..7 /\ 7 \in 6..7
    OBVIOUS
  <2> QED BY <2>2, <2>3, <2>4
<1>4. Cardinality(letters) = 2
  <2> DEFINE s == {6}
             t == s \union {7}
  <2>1. letters = t /\ 7 \notin s
    BY <1>3
  <2>2. IsFiniteSet(s) /\ Cardinality(s) = 1
    BY FS_Singleton
  <2> HIDE DEF s
  <2>3. Cardinality(t) = Cardinality(s) + 1
    BY <2>1, <2>2, FS_AddElement
  <2> HIDE DEF t, letters
  <2> QED BY <2>1, <2>2, <2>3
<1>5. Text = SubSeq(recvBuf, 6, 5 + Cardinality(letters))
  BY DEF Text
<1> HIDE DEF letters, b
<1>6. Text = SubSeq(b, 6, 7)
  BY <1>4, <1>5 DEF b
<1>7. SubSeq(b, 6, 7)[1] = b[6] /\ Len(SubSeq(b, 6, 7)) = 2
  <2>1. b \in Seq({[cmd |-> i, place |-> j] : j \in 1..SizeOf(i)})
    <3>1. i \in 0..Len(plan.commands)
      BY PlanShape
    <3> QED BY <3>1, Sizes DEF b
  <2> QED BY <1>1, <2>1
<1>8. b[6] = [cmd |-> i, place |-> 6]
  BY <1>1
<1>9. Text # <<>>
  <2>1. Len(Text) = 2
    BY <1>6, <1>7, Zenon
  <2>2. Len(<<>>) # 2
    OBVIOUS
  <2> QED BY <2>1, <2>2, Zenon
<1> QED BY <1>1, <1>6, <1>7, <1>8, <1>9 DEF b

\* The text of a command is no other command's.
LEMMA MeaningOfQuery ==
  ASSUME plan \in Plans, NEW i \in 1..Len(plan.commands), recvBuf = Bytes(i),
         plan.commands[i].code = COM_QUERY
  PROVE  Meanings = {plan.commands[i].replies}
<1> DEFINE whole == {j \in 1..Len(plan.commands) :
                       plan.commands[j].code = COM_QUERY /\ Text = SubSeq(Bytes(j), 6, SizeOf(j))}
<1>1. /\ Text = SubSeq(Bytes(i), 6, SizeOf(i)) /\ Text # <<>>
      /\ Text[1] = [cmd |-> i, place |-> 6]
  BY TextOfQuery
<1>2. ASSUME NEW j \in whole PROVE j = i
  <2>1. /\ j \in 0..Len(plan.commands) /\ j # 0 /\ plan.commands[j].code = COM_QUERY
        /\ Text = SubSeq(Bytes(j), 6, SizeOf(j))
    BY PlanShape
  <2> HIDE DEF whole
  <2> DEFINE b == Bytes(j)
             S == {[cmd |-> j, place |-> k] : k \in 1..SizeOf(j)}
  <2>2. /\ SizeOf(j) = 7 /\ Len(b) = SizeOf(j) /\ b \in Seq(S)
        /\ \A k \in 1..SizeOf(j) : b[k] = [cmd |-> j, place |-> k]
    BY <2>1, Sizes
  <2>3. Text = SubSeq(b, 6, 7)
    BY <2>1, <2>2
  <2> HIDE DEF b, S
  <2>4. SubSeq(b, 6, 7)[1] = b[6] /\ b[6] = [cmd |-> j, place |-> 6]
    BY <2>2
  <2>5. Text[1].cmd = j
    BY <2>3, <2>4
  <2>6. Text[1].cmd = i
    <3>1. Text[1] = [cmd |-> i, place |-> 6]
      BY <1>1, Zenon
    <3> QED BY <3>1
  <2> QED BY <2>5, <2>6
<1>3. i \in whole
  BY <1>1
<1> DEFINE Outcomes == {plan.commands[j].replies : j \in whole}
<1>4. Meanings = Outcomes
  <2>1. whole # {}
    BY <1>3
  <2> QED BY <1>1, <2>1, Zenon DEF Meanings
<1> HIDE DEF whole
<1>5. Outcomes = {plan.commands[i].replies}
  BY <1>2, <1>3
<1> QED BY <1>4, <1>5

\* The server answers a command.
LEMMA LockstepHandlesCommand ==
  ASSUME plan \in Plans, current \in 0..Len(plan.commands), Lockstep, HandleCommand,
         trouble' = {}
  PROVE  Lockstep'
<1>1. /\ Len(recvBuf) >= 5 /\ ~IsLogin /\ recvBuf' = <<>>
      /\ plan' = plan /\ up' = up /\ inbuf' = inbuf /\ phase' = phase
      /\ current' = current /\ want' = want /\ names' = names
  BY DEF HandleCommand, clientVars
<1>2. PICK replies \in Meanings :
        /\ down' = down \o Exec(ValueOf(recvBuf[4]), replies)
        /\ trouble' = trouble \union TroubleOf(replies)
  BY DEF HandleCommand
<1>3. /\ ReadWhole /\ ~(Len(replies) > 1) /\ \A j \in DOMAIN replies : replies[j] \notin Unfit
      /\ plan.modern => \A j \in DOMAIN replies : replies[j].kind # "rows"
      /\ ValueOf(recvBuf[5]) = COM_QUERY
  BY <1>1, <1>2 DEF TroubleOf, Unfit
<1>4. recvBuf # <<>>
  <2>1. Len(<<>>) = 0
    OBVIOUS
  <2> QED BY <1>1, <2>1
<1>5. recvBuf = Bytes(current) /\ up = <<>> /\ inbuf = <<>> /\ down = <<>>
  BY <1>3, <1>4, ReadMeansAsking, WholeIsCurrent DEF AtLogin
<1>6. current # 0
  BY <1>1, <1>5, LoginByItsNumber
<1>7. AtQuery
  BY <1>4, <1>6, ReadMeansAsking DEF AtLogin
<1>8. current \in 1..Len(plan.commands) /\ current > 0
  BY <1>6, PlanShape
<1>9. recvBuf[4] = [cmd |-> current, place |-> 4] /\ recvBuf[5] = [cmd |-> current, place |-> 5]
  <2>1. /\ SizeOf(current) \in Nat /\ SizeOf(current) >= 5
        /\ \A j \in 1..SizeOf(current) : Bytes(current)[j] = [cmd |-> current, place |-> j]
    BY Sizes
  <2> QED BY <1>5, <2>1
<1>10. plan.commands[current].code = COM_QUERY
  <2>1. ValueOf([cmd |-> current, place |-> 5]) = plan.commands[current].code
    BY <1>6 DEF ValueOf
  <2> QED BY <1>3, <1>9, <2>1
<1>11. ValueOf(recvBuf[4]) = 0
  BY <1>6, <1>9 DEF ValueOf
<1>12. replies = plan.commands[current].replies
  BY <1>2, <1>5, <1>8, <1>10, MeaningOfQuery
<1>13. replies \in Seq(Replies) /\ replies # <<>>
  BY <1>8, <1>12, PlanShape
<1>14. Len(replies) = 1 /\ 1 \in DOMAIN replies /\ Reply = replies[1]
  <2> DEFINE l == Len(replies)
  <2>0. l \in Nat /\ l # 0 /\ ~(l > 1)
    BY <1>3, <1>13, EmptySeq, LenProperties
  <2> HIDE DEF l
  <2>2. l = 1
    BY <2>0
  <2>1. Len(replies) = 1
    BY <2>2 DEF l
  <2> QED BY <1>12, <1>13, <2>1, LenProperties DEF Reply
<1>15. Served
  BY <1>3, <1>8, <1>10, <1>12, <1>14 DEF Served
<1> DEFINE out == SendReply(0, Reply)
<1>16. Exec(0, replies) = out
  <2> DEFINE g(j) == SendReply(0, replies[j])
             s == [j \in 1..Len(replies) |-> g(j)]
  <2>1. Exec(0, replies) = FlattenSeq(s)
    BY DEF Exec
  <2>2. out = g(1)
    BY <1>14
  <2> HIDE DEF g
  <2>3. Len(s) = 1 /\ s[1] = g(1)
    BY <1>14
  <2> HIDE DEF s
  <2> QED BY <2>1, <2>2, <2>3, FlattenOne
<1>17. Framed(out)
  BY <1>15, ReplyOut
<1>18. out' = out /\ (Served' <=> Served) /\ Login' = Login
  BY <1>1 DEF SendReply, Reply, Served, Login
<1> HIDE DEF out
<1>19. down' = out
  <2>1. <<>> \o out = out
    BY <1>17, ConcatEmptySeq DEF Framed
  <2> QED BY <1>2, <1>5, <1>11, <1>16, <2>1
<1>20. InTransit(out, 0, <<>>, out)
  BY <1>17, TransitStarts
<1>21. AtQuery'
  BY <1>1, <1>5, <1>7, <1>15, <1>18, <1>19, <1>20 DEF AtQuery, Underway, out
<1> QED BY <1>21 DEF Lockstep

\* The client takes a packet that carries the number it expects.
LEMMA TakesFrame ==
  ASSUME ClientTakes, NEW p, IsFrame(inbuf, want, p)
  PROVE  /\ phase' = PhaseTurn(p).phase /\ left' = PhaseTurn(p).left
         /\ answer' = PhaseTurn(p).answer
         /\ inbuf' = <<>> /\ want' = Next8(want)
         /\ plan' = plan /\ salt' = salt /\ up' = up /\ recvBuf' = recvBuf /\ down' = down
         /\ current' = current /\ names' = names
<1>1. /\ inbuf[4] = want /\ SubSeq(inbuf, 5, 4 + FromBytes(inbuf, 1, 3)) = p
      /\ SubSeq(inbuf, 5 + FromBytes(inbuf, 1, 3), Len(inbuf)) = <<>>
  BY FrameRead DEF Holds
<1>2. Payload = p
  BY <1>1 DEF Payload, FrameSize
<1> DEFINE turn == IF inbuf[4] = want THEN PhaseTurn(Payload) ELSE LostTurn
<1>3. phase' = turn.phase /\ left' = turn.left /\ answer' = turn.answer
  BY DEF ClientTakes
<1>4. turn = PhaseTurn(p)
  BY <1>1, <1>2, Zenon
<1> HIDE DEF turn
<1>5. inbuf' = <<>>
  BY <1>1 DEF ClientTakes, FrameSize
<1> QED BY <1>3, <1>4, <1>5 DEF ClientTakes

LEMMA TurnParts ==
  ASSUME NEW a, NEW b, NEW c
  PROVE  Turn(a, b, c).phase = a /\ Turn(a, b, c).left = b /\ Turn(a, b, c).answer = c
BY DEF Turn

Table(columns, rows) == [kind |-> "rows", columns |-> columns, rows |-> rows]
Longer(s, x) == Append(s, x)
MoreColumns(r, x) == [r EXCEPT !.columns = Append(@, x)]
MoreRows(r, x) == [r EXCEPT !.rows = Append(@, x)]

LEMMA MoreOfAnswer ==
  ASSUME NEW b, NEW c, NEW x
  PROVE  /\ MoreColumns(Table(b, c), x) = Table(Longer(b, x), c)
         /\ MoreRows(Table(b, c), x) = Table(b, Longer(c, x))
         /\ Table(b, c).columns = b
<1> DEFINE r == Table(b, c)
<1>1. r.columns = b /\ r.rows = c
  BY DEF Table
<1>2. ASSUME NEW y
      PROVE  [r EXCEPT !.columns = y] = Table(y, c) /\ [r EXCEPT !.rows = y] = Table(b, y)
  BY DEF Table
<1> HIDE DEF r
<1>3. /\ [r EXCEPT !.columns = Append(r.columns, x)] = Table(Append(r.columns, x), c)
      /\ [r EXCEPT !.rows = Append(r.rows, x)] = Table(b, Append(r.rows, x))
  BY <1>2
<1>4. /\ MoreColumns(r, x) = [r EXCEPT !.columns = Append(r.columns, x)]
      /\ MoreRows(r, x) = [r EXCEPT !.rows = Append(r.rows, x)]
  BY Zenon DEF MoreColumns, MoreRows
<1> QED BY <1>1, <1>3, <1>4, Zenon DEF r, Longer

LEMMA OneMoreElement ==
  ASSUME NEW S, NEW s \in Seq(S), NEW k \in 1..Len(s)
  PROVE  SubSeq(s, 1, k) = Longer(SubSeq(s, 1, k - 1), s[k])
<1>1. Len(s) \in Nat
  BY LenProperties
<1>2. 1 \in 1..(k - 1 + 1) /\ k \in 1..Len(s)
  BY <1>1
<1> QED BY <1>1, <1>2, SubSeqRecursiveSecond DEF Longer

\* What the protocol carries for column k.
Column(k) ==
  [strings |-> <<<<100, 101, 102>>, Reply.database, Reply.table, Reply.table,
                 Reply.columns[k], Reply.columns[k]>>,
   rest |-> FieldTail]

\* The answer grows by what a packet carries.
LEMMA PartialGrows ==
  ASSUME Reply \in TableReplies
  PROVE  LET n == Len(Reply.columns)
             m == Len(Reply.rows)
         IN  /\ Partial(0, 0) = Table(<<>>, <<>>)
             /\ \A k \in 1..n : MoreColumns(Partial(k - 1, 0), Column(k)) = Partial(k, 0)
             /\ \A k \in 1..m : MoreRows(Partial(n, k - 1), Reply.rows[k]) = Partial(n, k)
             /\ Partial(n, m) = Intended(Reply)
             /\ \A k \in 0..m : Len(Partial(n, k).columns) = n
<1> DEFINE n == Len(Reply.columns)
           m == Len(Reply.rows)
           rs == Reply.rows
           cs == [k \in 1..n |-> Column(k)]
           P(c, r) == Table(SubSeq(cs, 1, c), SubSeq(rs, 1, r))
<1>1. Reply.kind = "rows" /\ n \in Nat /\ m \in Nat /\ rs \in Seq(Seq(Seq(Byte))) /\ Len(rs) = m
  BY TableShape
<1>2. Intended(Reply) = Table(cs, rs)
  BY <1>1 DEF Intended, FieldTail, Column, Table
<1>3. \A c, r : Partial(c, r) = P(c, r)
  BY <1>2 DEF Partial, Table
<1> DEFINE S == {Column(k) : k \in 1..n}
<1>4. cs \in Seq(S) /\ Len(cs) = n /\ \A k \in 1..n : cs[k] = Column(k)
  <2> HIDE DEF n
  <2>1. \A k \in 1..n : Column(k) \in S
    OBVIOUS
  <2> HIDE DEF S
  <2> QED BY <1>1, <2>1
<1> HIDE DEF n, m, rs, cs, S
<1>5. SubSeq(cs, 1, 0) = <<>> /\ SubSeq(rs, 1, 0) = <<>>
  BY <1>1, <1>4, SubSeqEmpty
<1>6. SubSeq(cs, 1, n) = cs /\ SubSeq(rs, 1, m) = rs
  BY <1>1, <1>4, SubSeqFull
<1>7. \A k \in 1..n : MoreColumns(P(k - 1, 0), Column(k)) = P(k, 0)
  <2> TAKE k \in 1..n
  <2> DEFINE a == SubSeq(cs, 1, k - 1)
             e == SubSeq(rs, 1, 0)
  <2>1. SubSeq(cs, 1, k) = Longer(a, Column(k))
    BY <1>4, OneMoreElement
  <2> HIDE DEF a, e
  <2>2. MoreColumns(Table(a, e), Column(k)) = Table(Longer(a, Column(k)), e)
    BY MoreOfAnswer
  <2> QED BY <2>1, <2>2, Zenon DEF a, e
<1>8. \A k \in 1..m : MoreRows(P(n, k - 1), rs[k]) = P(n, k)
  <2> TAKE k \in 1..m
  <2> DEFINE a == SubSeq(rs, 1, k - 1)
             c == SubSeq(cs, 1, n)
  <2>1. SubSeq(rs, 1, k) = Longer(a, rs[k])
    BY <1>1, OneMoreElement
  <2> HIDE DEF a, c
  <2>2. MoreRows(Table(c, a), rs[k]) = Table(c, Longer(a, rs[k]))
    BY MoreOfAnswer
  <2> QED BY <2>1, <2>2, Zenon DEF a, c
<1>9. \A k : P(n, k).columns = cs
  BY <1>6, MoreOfAnswer
<1>10. P(0, 0) = Table(<<>>, <<>>)
  BY <1>5
<1>11. P(n, m) = Intended(Reply)
  BY <1>2, <1>6
<1> HIDE DEF P
<1>12. /\ \A k \in 1..n : MoreColumns(Partial(k - 1, 0), Column(k)) = Partial(k, 0)
       /\ \A k \in 1..m : MoreRows(Partial(n, k - 1), rs[k]) = Partial(n, k)
       /\ \A k \in 0..m : Len(Partial(n, k).columns) = n
       /\ Partial(n, m) = Intended(Reply) /\ Partial(0, 0) = Table(<<>>, <<>>)
  BY <1>3, <1>4, <1>7, <1>8, <1>9, <1>10, <1>11
<1> QED BY <1>12 DEF n, m, rs

\* The client has a packet in its hands: the next of those on their way.
LEMMA TakesNext ==
  ASSUME ClientTakes, NEW out, NEW k \in Nat, Underway(out, k, up, recvBuf, inbuf, down)
  PROVE  /\ k < Len(out) /\ inbuf = out[k + 1]
         /\ Underway(out, k + 1, up, recvBuf, <<>>, down)
<1>1. Ready(inbuf)
  BY ReadyIsFrameReady DEF ClientTakes
<1> QED BY <1>1, TransitTakes DEF Underway

LEMMA NotAsking ==
  ASSUME ClientTakes, NEW bytes
  PROVE  ~Asking(bytes, up, recvBuf, inbuf, down)
<1>1. Ready(inbuf)
  BY ReadyIsFrameReady DEF ClientTakes
<1> QED BY <1>1, NothingReady DEF Asking

\* The last packet is taken: nothing is on its way.
LEMMA UnderwayEnds ==
  ASSUME NEW out, Framed(out), Underway(out, Len(out), up, recvBuf, <<>>, down)
  PROVE  up = <<>> /\ recvBuf = <<>> /\ down = <<>>
BY TransitEnds DEF Underway

LEMMA TakesInLogin ==
  ASSUME AtLogin, ClientTakes
  PROVE  AtIdle'
<1> DEFINE p == OkPack(0, 0, 2, 0)
<1>1. /\ phase = "login" /\ current = 0 /\ want = 2 /\ names = LoginNames[Login]
      /\ Underway(OkOut, 0, up, recvBuf, inbuf, down)
  BY NotAsking DEF AtLogin
<1>2. IsFrame(OkOut[1], 2, p) /\ p # <<>> /\ p[1] = 0 /\ Framed(OkOut) /\ Len(OkOut) = 1
  BY OkOutFramed
<1> HIDE DEF p
<1>3. inbuf = OkOut[1] /\ Underway(OkOut, 1, up, recvBuf, <<>>, down)
  <2>1. 0 + 1 = 1 /\ 0 \in Nat
    OBVIOUS
  <2> QED BY <1>1, <2>1, TakesNext
<1>4. up = <<>> /\ recvBuf = <<>> /\ down = <<>>
  BY <1>2, <1>3, UnderwayEnds
<1>5. IsFrame(inbuf, want, p)
  BY <1>1, <1>2, <1>3
<1>6. PhaseTurn(p).phase = "idle"
  BY <1>1, <1>2 DEF PhaseTurn, Turn
<1>7. /\ phase' = "idle" /\ inbuf' = <<>> /\ plan' = plan /\ up' = up /\ recvBuf' = recvBuf
      /\ down' = down /\ current' = current /\ names' = names
  BY <1>5, <1>6, TakesFrame
<1> QED BY <1>1, <1>4, <1>7 DEF AtIdle, Login

\* The answer is one packet.
LEMMA TakesOne ==
  ASSUME plan \in Plans, current \in 0..Len(plan.commands), AtQuery, ClientTakes,
         Reply.kind # "rows"
  PROVE  AtIdle'
<1> DEFINE out == SendReply(0, Reply)
           ok == OkPack(Reply.affected, 0, 2, Reply.warnings)
<1>1. /\ phase = "query" /\ current > 0 /\ want = 1 /\ names = LoginNames[Login]
      /\ Served /\ Underway(out, 0, up, recvBuf, inbuf, down)
  BY NotAsking DEF AtQuery
<1>2. /\ Framed(out)
      /\ Reply.kind = "ok" =>
           /\ Len(out) = 1 /\ IsFrame(out[1], 1, ok) /\ ok # <<>> /\ ok[1] = 0
           /\ ProtocolNumber(ok, 2).val = Reply.affected
           /\ FromBytes(ok, Len(ok) - 1, 2) = Reply.warnings
      /\ Reply.kind = "err" => Len(out) = 1 /\ IsFrame(out[1], 1, ErrPayload)
  BY <1>1, ReplyOut
<1>3. \/ Reply.kind = "ok" /\ Reply \in OkReplies
      \/ Reply.kind = "err" /\ Reply = Plain("err")
  BY <1>1, ReplyKinds, Zenon
<1> HIDE DEF out, ok
<1>4. inbuf = out[1] /\ Underway(out, 1, up, recvBuf, <<>>, down)
  <2>1. 0 + 1 = 1 /\ 0 \in Nat
    OBVIOUS
  <2> QED BY <1>1, <2>1, TakesNext
<1>5. up = <<>> /\ recvBuf = <<>> /\ down = <<>>
  <2>1. Len(out) = 1
    BY <1>2, <1>3, Zenon
  <2> QED BY <1>2, <1>4, <2>1, UnderwayEnds
<1>6. PICK p : IsFrame(inbuf, want, p) /\ FirstTurn(p) = Turn("idle", 0, Reply)
  <2>1. CASE Reply.kind = "ok" /\ Reply \in OkReplies
    <3>1. FirstTurn(ok) = Turn("idle", 0, [kind |-> "ok", affected |-> ProtocolNumber(ok, 2).val,
                                           warnings |-> FromBytes(ok, Len(ok) - 1, 2)])
      <4>1. ok # <<>> /\ ok[1] = 0 /\ ok[1] # 255 /\ ok[1] \notin 251..254
        BY <1>2, <2>1
      <4> QED BY <4>1, Zenon DEF FirstTurn
    <3>2. Reply = [kind |-> "ok", affected |-> Reply.affected, warnings |-> Reply.warnings]
      BY <2>1, OkShape
    <3>3. FirstTurn(ok) = Turn("idle", 0, Reply)
      BY <1>2, <2>1, <3>1, <3>2, Zenon
    <3> QED BY <1>1, <1>2, <1>4, <2>1, <3>3
  <2>2. CASE Reply.kind = "err" /\ Reply = Plain("err")
    <3>1. ErrPayload # <<>> /\ ErrPayload[1] = 255 /\ ErrPayload[1] # 0
      BY NextNumbers, ErrFrame
    <3>2. FirstTurn(ErrPayload) = Turn("idle", 0, Plain("err"))
      BY <3>1, SMT DEF FirstTurn
    <3> QED BY <1>1, <1>2, <1>4, <2>2, <3>2
  <2> QED BY <1>3, <2>1, <2>2
<1>7. PhaseTurn(p) = Turn("idle", 0, Reply)
  BY <1>1, <1>6 DEF PhaseTurn
<1>8. PhaseTurn(p).phase = "idle" /\ PhaseTurn(p).answer = Reply
  BY <1>7, TurnParts
<1>9. /\ phase' = "idle" /\ answer' = Reply /\ inbuf' = <<>> /\ plan' = plan /\ up' = up
      /\ recvBuf' = recvBuf /\ down' = down /\ current' = current /\ names' = names
  BY <1>6, <1>8, TakesFrame
<1>10. answer' = Intended(Reply)'
  <2>1. Reply' = Reply
    BY <1>9 DEF Reply
  <2>2. Intended(Reply) = Reply
    BY DEF Intended
  <2>3. Intended(Reply)' = Intended(Reply)
    BY <2>1 DEF Intended
  <2> QED BY <1>9, <2>2, <2>3
<1> QED BY <1>1, <1>5, <1>9, <1>10 DEF AtIdle, Login

\* The first packet of a result set tells the number of columns.
LEMMA TakesCount ==
  ASSUME plan \in Plans, current \in 0..Len(plan.commands), AtQuery, ClientTakes,
         Reply.kind = "rows"
  PROVE  AtResult'
<1> DEFINE out == ResultSets[Reply]
           n == Len(Reply.columns)
           m == Len(Reply.rows)
           p == ResultSet(Reply)[1]
<1>1. /\ phase = "query" /\ current > 0 /\ want = 1 /\ names = LoginNames[Login]
      /\ Served /\ Underway(SendReply(0, Reply), 0, up, recvBuf, inbuf, down)
  BY NotAsking DEF AtQuery
<1>2. Reply \in RowReplies /\ Reply \notin Unfit /\ SendReply(0, Reply) = out
  BY <1>1, ReplyOut DEF Served
<1>3. n \in Nat /\ m \in Nat /\ n >= 1 /\ Reply \in TableReplies
  BY <1>2, RowRepliesAreTables, TableShape, FitShape
<1>4. \A k \in 1..(n + m + 3) : IsFrame(out[k], k % 256, ResultSet(Reply)[k])
  BY <1>2, ResultFramed
<1>5. p # <<>> /\ p[1] = n /\ p[1] # 0 /\ p[1] \notin 251..254 /\ p[1] # 255
  BY <1>2, CountPacket
<1>6. Len(Reply.columns) = n /\ Len(Reply.rows) = m
  OBVIOUS
<1>7. IsFrame(out[1], 1, p)
  <2> HIDE DEF n, m
  <2>1. 1 \in 1..(n + m + 3) /\ 1 % 256 = 1
    BY <1>3
  <2> QED BY <1>4, <2>1, Zenon
<1> HIDE DEF out, n, m, p
<1>8. inbuf = out[1] /\ Underway(out, 1, up, recvBuf, <<>>, down)
  <2>1. 0 + 1 = 1 /\ 0 \in Nat
    OBVIOUS
  <2> QED BY <1>1, <1>2, <2>1, TakesNext
<1>9. FirstTurn(p) = Turn("fields", n, Partial(0, 0))
  <2>1. FirstTurn(p) = Turn("fields", p[1], [kind |-> "rows", columns |-> <<>>, rows |-> <<>>])
    BY <1>5, Zenon DEF FirstTurn
  <2>2. Partial(0, 0) = [kind |-> "rows", columns |-> <<>>, rows |-> <<>>]
    BY <1>3, PartialGrows, Zenon DEF Table
  <2> QED BY <1>5, <2>1, <2>2, Zenon
<1>10. PhaseTurn(p) = Turn("fields", n, Partial(0, 0))
  BY <1>1, <1>9 DEF PhaseTurn
<1>11. PhaseTurn(p).phase = "fields" /\ PhaseTurn(p).left = n /\ PhaseTurn(p).answer = Partial(0, 0)
  BY <1>10, TurnParts
<1>12. IsFrame(inbuf, want, p)
  BY <1>1, <1>7, <1>8
<1>13. /\ phase' = "fields" /\ left' = n /\ answer' = Partial(0, 0) /\ inbuf' = <<>>
       /\ want' = 2 /\ plan' = plan /\ up' = up /\ recvBuf' = recvBuf /\ down' = down
       /\ current' = current /\ names' = names
  BY <1>1, <1>11, <1>12, TakesFrame, NextNumbers
<1>14. Reply' = Reply /\ (Served' <=> Served) /\ Login' = Login
  BY <1>13 DEF Reply, Served, Login
<1>15. Partial(0, 0)' = Partial(0, 0)
  BY <1>14 DEF Partial, Intended
<1>16. /\ want' = (1 + 1) % 256 /\ 1 \in 1..n /\ left' = n - 1 + 1 /\ 1 - 1 = 0
       /\ 1 \in 1..(n + m + 2)
  BY <1>3, <1>13
<1>17. out' = out /\ n' = n /\ m' = m
  BY <1>14 DEF out, n, m
<1>18. Progress(n, m, 1)'
  BY <1>13, <1>15, <1>16, <1>17 DEF Progress
<1>19. Underway(out, 1, up', recvBuf', inbuf', down')
  BY <1>8, <1>13
<1> QED BY <1>1, <1>6, <1>13, <1>14, <1>16, <1>17, <1>18, <1>19 DEF AtResult, out, n, m

\* An end mark.
LEMMA EofTurn ==
  ASSUME NEW p, p = EofPack(0, 2), phase \in {"eof", "rows"}
  PROVE  PhaseTurn(p) = Turn(IF phase = "eof" THEN "rows" ELSE "idle", 0, answer)
<1>1. IsEof(p)
  BY EofReadBack
<1>2. CASE phase = "eof"
  BY <1>1, <1>2 DEF PhaseTurn
<1>3. CASE phase = "rows"
  <2>1. RowTurn(p) = Turn("idle", 0, answer)
    BY <1>1, Zenon DEF RowTurn
  <2> QED BY <1>3, <2>1 DEF PhaseTurn
<1> QED BY <1>2, <1>3

LEMMA FieldTailLength == Len(FieldTail) = 13
<1> DEFINE x1 == <<12>>
           x2 == <<33, 0>>
           x3 == <<80, 0, 0, 0>>
           x4 == <<253>>
           x5 == <<0, 0>>
           x6 == <<0>>
<1>1. FieldTail = Cat(Cat(Cat(Cat(Cat(Cat(x1, x2), x3), x4), x5), x6), x5)
  BY Zenon DEF FieldTail, Cat
<1>2. /\ IsPart(x1, 1) /\ IsPart(x2, 2) /\ IsPart(x3, 4) /\ IsPart(x4, 1) /\ IsPart(x5, 2)
      /\ IsPart(x6, 1)
  BY SMT DEF IsPart, Byte
<1> HIDE DEF x1, x2, x3, x4, x5, x6
<1>3. IsPart(Cat(Cat(x1, x2), x3), 1 + 2 + 4)
  BY <1>2, PartJoined
<1>4. IsPart(Cat(Cat(Cat(Cat(Cat(Cat(x1, x2), x3), x4), x5), x6), x5), 1 + 2 + 4 + 1 + 2 + 1 + 2)
  BY <1>2, <1>3, PartJoined
<1>5. 1 + 2 + 4 + 1 + 2 + 1 + 2 = 13
  OBVIOUS
<1> QED BY <1>1, <1>4, <1>5 DEF IsPart

\* A column definition.
LEMMA ColumnTurn ==
  ASSUME Reply \in RowReplies, Reply \notin Unfit, plan.modern = FALSE,
         NEW k \in 1..Len(Reply.columns), NEW n, n = Len(Reply.columns),
         phase = "fields", left = n - k + 1, answer = Partial(k - 1, 0)
  PROVE  PhaseTurn(ResultSet(Reply)[k + 1])
           = Turn(IF k < n THEN "fields" ELSE "eof", n - k, Partial(k, 0))
<1> DEFINE p == ResultSet(Reply)[k + 1]
           f == ProtocolStrings(p, 6)
<1>1. /\ f.ok /\ Column(k) = [strings |-> f.strings, rest |-> f.rest]
      /\ f.rest = FieldTail
  <2>1. f = [ok |-> TRUE, rest |-> FieldTail,
             strings |-> <<<<100, 101, 102>>, Reply.database, Reply.table, Reply.table,
                           Reply.columns[k], Reply.columns[k]>>]
    BY ColumnPacket
  <2> HIDE DEF f
  <2> QED BY <2>1 DEF Column
<1>2. Len(FieldTail) = 13
  BY FieldTailLength
<1>3. n \in Nat /\ Reply \in TableReplies
  BY RowRepliesAreTables, TableShape
<1>4. MoreColumns(answer, Column(k)) = Partial(k, 0)
  BY <1>3, PartialGrows
<1> DEFINE to == IF left > 1 THEN "fields" ELSE IF plan.modern THEN "rows" ELSE "eof"
<1>5. to = (IF k < n THEN "fields" ELSE "eof") /\ left - 1 = n - k
  BY <1>3
<1>6. FieldTurn(p) = Turn(to, left - 1, MoreColumns(answer, Column(k)))
  <2> HIDE DEF p
  <2>1. ~(~f.ok \/ Len(f.rest) # 13)
    BY <1>1, <1>2
  <2> QED BY <1>1, <2>1, Zenon DEF FieldTurn, MoreColumns
<1> HIDE DEF p, f, to
<1>7. PhaseTurn(p) = FieldTurn(p)
  BY DEF PhaseTurn
<1> QED BY <1>4, <1>5, <1>6, <1>7 DEF p

\* A row.
LEMMA RowOfResultTurn ==
  ASSUME Reply \in RowReplies, Reply \notin Unfit, NEW i \in 1..Len(Reply.rows),
         NEW n, n = Len(Reply.columns), phase = "rows", answer = Partial(n, i - 1)
  PROVE  PhaseTurn(ResultSet(Reply)[n + 2 + i]) = Turn("rows", 0, Partial(n, i))
<1> DEFINE p == ResultSet(Reply)[n + 2 + i]
           m == Len(Reply.rows)
<1>1. n \in Nat /\ m \in Nat /\ Reply \in TableReplies
  BY RowRepliesAreTables, TableShape
<1>2. i - 1 \in 0..m
  <2>1. i \in 1..m
    OBVIOUS
  <2> HIDE DEF m
  <2> QED BY <1>1, <2>1
<1>3. Len(answer.columns) = n /\ MoreRows(answer, Reply.rows[i]) = Partial(n, i)
  BY <1>1, <1>2, PartialGrows
<1> DEFINE row == ProtocolStrings(p, n)
<1>4. ~IsEof(p) /\ row = [ok |-> TRUE, strings |-> Reply.rows[i], rest |-> <<>>]
  BY RowPacket
<1>5. row.ok /\ row.rest = <<>> /\ row.strings = Reply.rows[i]
  <2> HIDE DEF row
  <2> QED BY <1>4
<1>6. RowTurn(p) = Turn("rows", 0, MoreRows(answer, Reply.rows[i]))
  <2> HIDE DEF p
  <2> QED BY <1>3, <1>4, <1>5, Zenon DEF RowTurn, MoreRows
<1> HIDE DEF p, row
<1>7. PhaseTurn(p) = RowTurn(p)
  BY DEF PhaseTurn
<1> QED BY <1>3, <1>6, <1>7 DEF p

\* The packets of a result set after the first.
LEMMA TakesInResult ==
  ASSUME plan \in Plans, current \in 0..Len(plan.commands), AtResult, ClientTakes
  PROVE  AtResult' \/ AtIdle'
<1> DEFINE out == ResultSets[Reply]
           n == Len(Reply.columns)
           m == Len(Reply.rows)
           set == ResultSet(Reply)
<1>1. Served /\ Reply.kind = "rows" /\ names = LoginNames[Login]
  BY DEF AtResult
<1>2. PICK k \in 1..(n + m + 2) :
        Underway(out, k, up, recvBuf, inbuf, down) /\ Progress(n, m, k)
  BY DEF AtResult
<1>3. Reply \in RowReplies /\ Reply \notin Unfit /\ plan.modern = FALSE /\ current > 0
  BY <1>1, ReplyOut, PlanShape DEF Served
<1>4. n \in Nat /\ m \in Nat /\ n >= 1 /\ Reply \in TableReplies
  BY <1>3, RowRepliesAreTables, TableShape, FitShape
<1>5. /\ Framed(out) /\ Len(out) = n + m + 3
      /\ \A j \in 1..(n + m + 3) : IsFrame(out[j], j % 256, set[j])
  BY <1>3, ResultFramed
<1>6. set[n + 2] = EofPack(0, 2) /\ set[n + m + 3] = EofPack(0, 2)
  BY <1>3, EndPackets
<1>7. Partial(n, m) = Intended(Reply)
  BY <1>4, PartialGrows
<1>8. n = Len(Reply.columns) /\ m = Len(Reply.rows)
  OBVIOUS
<1> HIDE DEF out, n, m, set
<1>9. k \in Nat /\ k + 1 \in 1..(n + m + 3)
  BY <1>4
<1>10. inbuf = out[k + 1] /\ Underway(out, k + 1, up, recvBuf, <<>>, down)
  BY <1>2, <1>9, TakesNext
<1> DEFINE p == set[k + 1]
<1>11. want = (k + 1) % 256
  BY <1>2 DEF Progress
<1>12. IsFrame(inbuf, want, p)
  BY <1>5, <1>9, <1>10, <1>11, Zenon
<1> HIDE DEF p
<1>13. /\ phase' = PhaseTurn(p).phase /\ left' = PhaseTurn(p).left /\ answer' = PhaseTurn(p).answer
       /\ inbuf' = <<>> /\ want' = Next8(want) /\ plan' = plan /\ up' = up /\ recvBuf' = recvBuf
       /\ down' = down /\ current' = current /\ names' = names
  BY <1>12, TakesFrame
<1>14. want' = ((k + 1) + 1) % 256
  BY <1>9, <1>11, <1>13, NextNumbers
<1>15. /\ Reply' = Reply /\ (Served' <=> Served) /\ Login' = Login
  BY <1>13 DEF Reply, Served, Login
<1>16. \A c, r : Partial(c, r)' = Partial(c, r)
  BY <1>15 DEF Partial, Intended
<1>17. out' = out /\ n' = n /\ m' = m /\ Intended(Reply)' = Intended(Reply)
  BY <1>15 DEF out, n, m, Intended
<1>18. Underway(out, k + 1, up', recvBuf', inbuf', down')
  BY <1>10, <1>13
<1>19. ASSUME k + 1 \in 1..(n + m + 2), Progress(n, m, k + 1)'
       PROVE  AtResult'
  <2>1. /\ Served' /\ Reply'.kind = "rows" /\ names' = LoginNames[Login]'
    BY <1>1, <1>13, <1>15
  <2>2. k + 1 \in 1..(n' + m' + 2) /\ Underway(out, k + 1, up, recvBuf, inbuf, down)'
    BY <1>17, <1>18, <1>19
  <2> QED BY <1>19, <2>1, <2>2 DEF AtResult, out, n, m
<1>20. CASE k \in 1..n /\ phase = "fields" /\ left = n - k + 1 /\ answer = Partial(k - 1, 0)
  <2>1. PhaseTurn(p) = Turn(IF k < n THEN "fields" ELSE "eof", n - k, Partial(k, 0))
    BY <1>3, <1>8, <1>20, ColumnTurn DEF p, set
  <2>2. phase' = (IF k < n THEN "fields" ELSE "eof") /\ left' = n - k /\ answer' = Partial(k, 0)
    BY <1>13, <2>1, TurnParts
  <2>3. CASE k < n
    <3>1. k + 1 \in 1..n /\ n - k = n - (k + 1) + 1 /\ (k + 1) - 1 = k /\ k + 1 \in 1..(n + m + 2)
      BY <1>4, <1>9, <2>3
    <3>2. Progress(n, m, k + 1)'
      BY <1>14, <1>16, <1>17, <2>2, <2>3, <3>1 DEF Progress
    <3> QED BY <1>19, <3>1, <3>2
  <2>4. CASE k = n
    <3>1. n - k = 0 /\ ~(k < n) /\ k + 1 \in 1..(n + m + 2)
      BY <1>4, <1>9, <2>4
    <3>2. Progress(n, m, k + 1)'
      BY <1>14, <1>16, <1>17, <2>2, <2>4, <3>1 DEF Progress
    <3> QED BY <1>19, <3>1, <3>2
  <2> QED BY <1>4, <1>20, <2>3, <2>4
<1>21. CASE k = n + 1 /\ phase = "eof" /\ left = 0 /\ answer = Partial(n, 0)
  <2>1. k + 1 = n + 2 /\ k + 1 \in (n + 2)..(n + 2 + m) /\ (k + 1) - n - 2 = 0
        /\ k + 1 \in 1..(n + m + 2)
    BY <1>4, <1>21
  <2>2. p = EofPack(0, 2)
    BY <1>6, <2>1 DEF p
  <2>3. PhaseTurn(p) = Turn("rows", 0, answer)
    BY <1>21, <2>2, EofTurn
  <2>4. phase' = "rows" /\ left' = 0 /\ answer' = Partial(n, 0)
    BY <1>13, <1>21, <2>3, TurnParts
  <2>5. Progress(n, m, k + 1)'
    BY <1>14, <1>16, <1>17, <2>1, <2>4 DEF Progress
  <2> QED BY <1>19, <2>1, <2>5
<1>22. CASE k \in (n + 2)..(n + 2 + m) /\ phase = "rows" /\ left = 0 /\ answer = Partial(n, k - n - 2)
  <2>1. CASE k = n + 2 + m
    <3>1. k + 1 = n + m + 3 /\ k - n - 2 = m
      BY <1>4, <2>1
    <3>2. p = EofPack(0, 2)
      BY <1>6, <3>1 DEF p
    <3>3. PhaseTurn(p) = Turn("idle", 0, answer)
      BY <1>22, <3>2, EofTurn
    <3>4. phase' = "idle" /\ answer' = Intended(Reply)
      BY <1>7, <1>13, <1>22, <3>1, <3>3, TurnParts
    <3>5. up = <<>> /\ recvBuf = <<>> /\ down = <<>>
      BY <1>5, <1>10, <3>1, UnderwayEnds
    <3>6. AtIdle'
      BY <1>1, <1>13, <1>15, <1>17, <3>4, <3>5 DEF AtIdle
    <3> QED BY <3>6
  <2>2. CASE k # n + 2 + m
    <3> DEFINE i == k - n - 1
    <3>1. /\ i \in 1..m /\ i - 1 = k - n - 2 /\ n + 2 + i = k + 1 /\ (k + 1) - n - 2 = i
          /\ k + 1 \in (n + 2)..(n + 2 + m) /\ k + 1 \in 1..(n + m + 2)
      BY <1>4, <1>9, <1>22, <2>2
    <3> HIDE DEF i
    <3>2. PhaseTurn(set[n + 2 + i]) = Turn("rows", 0, Partial(n, i))
      BY <1>3, <1>8, <1>22, <3>1, RowOfResultTurn DEF set
    <3>3. phase' = "rows" /\ left' = 0 /\ answer' = Partial(n, i)
      BY <1>13, <3>1, <3>2, TurnParts DEF p
    <3>4. Progress(n, m, k + 1)'
      BY <1>14, <1>16, <1>17, <3>1, <3>3 DEF Progress
    <3> QED BY <1>19, <3>1, <3>4
  <2> QED BY <2>1, <2>2
<1> QED BY <1>2, <1>20, <1>21, <1>22 DEF Progress

\* The client takes a packet.
LEMMA LockstepTakes ==
  ASSUME plan \in Plans, current \in 0..Len(plan.commands), Lockstep, ClientTakes
  PROVE  Lockstep'
<1>1. phase \in {"login", "query", "fields", "eof", "rows"}
  BY DEF ClientTakes, Waits
<1>2. AtLogin \/ AtQuery \/ AtResult
  BY <1>1 DEF Lockstep, AtNew, AtGreeting, AtIdle
<1>3. CASE AtLogin
  BY <1>3, TakesInLogin DEF Lockstep
<1>4. CASE AtQuery
  BY <1>4, TakesOne, TakesCount DEF Lockstep
<1>5. CASE AtResult
  BY <1>5, TakesInResult DEF Lockstep
<1> QED BY <1>2, <1>3, <1>4, <1>5

-----------------------------------------------------------------------------
(* The theorems *)

LEMMA SessionInit ==
  ASSUME Init
  PROVE  SessionInv
<1>1. current \in 0..Len(plan.commands)
  <2>1. plan \in Plans /\ current = 0
    BY DEF Init
  <2> QED BY <2>1, PlanShape
<1>2. AtNew
  BY DEF Init, AtNew
<1> QED BY <1>1, <1>2 DEF Init, SessionInv, Lockstep

\* What no step changes, and that trouble stays.
LEMMA TroubleStays ==
  ASSUME SessionInv, Next
  PROVE  /\ plan' = plan /\ salt' = salt /\ trouble \subseteq trouble'
         /\ current' \in 0..Len(plan.commands)
<1>1. Len(plan.commands) \in Nat /\ current \in 0..Len(plan.commands)
  BY PlanShape DEF SessionInv
<1>2. CASE OnConnect
  BY <1>1, <1>2 DEF OnConnect
<1>3. ASSUME NEW n \in 1..Len(up), Recv(n)
      PROVE  plan' = plan /\ salt' = salt /\ trouble' = trouble /\ current' = current
  BY <1>3 DEF Recv, clientVars
<1>4. CASE HandleShort
  BY <1>1, <1>4 DEF HandleShort, clientVars
<1>5. CASE HandleLogin
  BY <1>1, <1>5 DEF HandleLogin, clientVars
<1>6. CASE HandleCommand
  BY <1>1, <1>6 DEF HandleCommand, clientVars
<1>7. CASE ClientReceives
  BY <1>1, <1>7 DEF ClientReceives
<1>8. CASE ClientLogsIn
  BY <1>1, <1>8 DEF ClientLogsIn
<1>9. CASE ClientTakes
  BY <1>1, <1>9 DEF ClientTakes
<1>10. CASE ClientSends
  BY <1>1, <1>10 DEF ClientSends
<1>11. CASE ClientIsSurprised
  BY <1>1, <1>11 DEF ClientIsSurprised
<1> QED
  BY <1>1, <1>2, <1>3, <1>4, <1>5, <1>6, <1>7, <1>8, <1>9, <1>10, <1>11 DEF Next

\* Only a read that is not a whole command ends the server.
LEMMA OnlyShortCrashes ==
  ASSUME SessionInv, Next
  PROVE  crashed' => "mangled" \in trouble'
<1>1. plan \in Plans /\ (crashed => "mangled" \in trouble) /\ trouble \subseteq trouble'
  BY TroubleStays DEF SessionInv
<1>2. CASE HandleShort
  BY <1>1, <1>2, ShortIsMangled
<1>3. CASE ~HandleShort
  <2>1. crashed' = crashed
    BY <1>3 DEF Next, OnConnect, Recv, HandleLogin, HandleCommand, ClientReceives, ClientLogsIn,
                ClientTakes, ClientSends, ClientIsSurprised
  <2> QED BY <1>1, <2>1
<1> QED BY <1>2, <1>3

LEMMA LockstepStays ==
  ASSUME SessionInv, Next, trouble' = {}
  PROVE  Lockstep'
<1>1. /\ plan \in Plans /\ salt \in Salts /\ current \in 0..Len(plan.commands) /\ Lockstep
  BY TroubleStays DEF SessionInv
<1>2. CASE OnConnect
  BY <1>1, <1>2, LockstepConnect
<1>3. ASSUME NEW n \in 1..Len(up), Recv(n) PROVE Lockstep'
  BY <1>1, <1>3, LockstepRecv
<1>4. CASE HandleShort
  BY <1>1, <1>4, ShortIsMangled
<1>5. CASE HandleLogin
  BY <1>1, <1>5, LockstepHandlesLogin
<1>6. CASE HandleCommand
  BY <1>1, <1>6, LockstepHandlesCommand
<1>7. CASE ClientReceives
  BY <1>1, <1>7, LockstepReceives
<1>8. CASE ClientLogsIn
  BY <1>1, <1>8, LockstepLogsIn
<1>9. CASE ClientTakes
  BY <1>1, <1>9, LockstepTakes
<1>10. CASE ClientSends
  BY <1>1, <1>10, LockstepSends
<1>11. CASE ClientIsSurprised
  BY <1>1, <1>11, LockstepSurprise
<1> QED BY <1>2, <1>3, <1>4, <1>5, <1>6, <1>7, <1>8, <1>9, <1>10, <1>11 DEF Next

\* The state's definitions follow the variables.
LEMMA LockstepStutters ==
  ASSUME SessionInv, UNCHANGED vars
  PROVE  SessionInv'
<1>1. /\ plan' = plan /\ salt' = salt /\ up' = up /\ recvBuf' = recvBuf /\ down' = down
      /\ inbuf' = inbuf /\ phase' = phase /\ current' = current /\ want' = want /\ left' = left
      /\ answer' = answer /\ names' = names /\ trouble' = trouble /\ crashed' = crashed
  BY DEF vars, clientVars
<1>2. /\ Reply' = Reply /\ Login' = Login /\ GreetingOut' = GreetingOut /\ OkOut' = OkOut
      /\ Served' <=> Served
  BY <1>1 DEF Reply, Login, GreetingOut, ServerGreeting, OkOut, Served
<1>3. Bytes(0)' = Bytes(0) /\ Bytes(current)' = Bytes(current)
  BY <1>1 DEF Bytes, SizeOf
<1>4. Intended(Reply)' = Intended(Reply) /\ SendReply(0, Reply)' = SendReply(0, Reply)
  BY <1>2 DEF Intended, SendReply
<1>5. /\ AtNew => AtNew'
      /\ AtGreeting => AtGreeting'
      /\ AtLogin => AtLogin'
      /\ AtIdle => AtIdle'
      /\ AtQuery => AtQuery'
  BY <1>1, <1>2, <1>3, <1>4 DEF AtNew, AtGreeting, AtLogin, AtIdle, AtQuery
<1>6. AtResult => AtResult'
  <2> SUFFICES ASSUME AtResult PROVE AtResult'
    OBVIOUS
  <2>1. PICK k \in 1..(Len(Reply.columns) + Len(Reply.rows) + 2) :
          /\ Underway(ResultSets[Reply], k, up, recvBuf, inbuf, down)
          /\ Progress(Len(Reply.columns), Len(Reply.rows), k)
    BY DEF AtResult
  <2>2. Progress(Len(Reply.columns), Len(Reply.rows), k)'
    BY <1>1, <1>2, <2>1 DEF Progress, Partial, Intended
  <2> QED BY <1>1, <1>2, <2>1, <2>2 DEF AtResult
<1>7. Lockstep => Lockstep'
  BY <1>5, <1>6 DEF Lockstep
<1> QED BY <1>1, <1>7 DEF SessionInv

\* The invariant of the whole exchange, for every set of plans: logins, commands,
\* outcomes and result sets of any size the formats allow, cut into reads anywhere.
THEOREM SessionInvHolds == Spec => []SessionInv
<1>1. Init => SessionInv
  BY SessionInit
<1>2. SessionInv /\ [Next]_vars => SessionInv'
  <2> SUFFICES ASSUME SessionInv, [Next]_vars PROVE SessionInv'
    OBVIOUS
  <2>1. CASE Next
    <3>1. /\ plan' = plan /\ salt' = salt /\ current' \in 0..Len(plan.commands)
          /\ plan \in Plans /\ salt \in Salts
      BY <2>1, TroubleStays DEF SessionInv
    <3>2. crashed' => "mangled" \in trouble'
      BY <2>1, OnlyShortCrashes
    <3>3. trouble' = {} => Lockstep'
      BY <2>1, LockstepStays
    <3> QED BY <3>1, <3>2, <3>3 DEF SessionInv
  <2>2. CASE UNCHANGED vars
    BY <2>2, LockstepStutters
  <2> QED BY <2>1, <2>2
<1> QED BY <1>1, <1>2, PTL DEF Spec

\* Every answer the client has read by the protocol, column by column and row by
\* row, is the one the server meant to give to the command the client sent last, as
\* long as nothing happens that the server is not made for (client.cc's
\* _HandlePacket, the Send functions of executor/ and the packets they build).
THEOREM AnswersAreTheServers == Spec => []AnswerIsTheServers
<1>1. SessionInv => AnswerIsTheServers
  <2> SUFFICES ASSUME SessionInv, trouble = {}, phase = "idle", current > 0
               PROVE  answer = Intended(plan.commands[current].replies[1])
    BY DEF AnswerIsTheServers
  <2>1. AtIdle
    BY DEF SessionInv, Lockstep, AtNew, AtGreeting, AtLogin, AtQuery, AtResult, Progress
  <2> QED BY <2>1 DEF AtIdle, Reply
<1> QED BY <1>1, SessionInvHolds, PTL

\* A client falls out of step only after one of the known kinds of trouble, and
\* the server falls only over a read that is not a whole command (client.cc's
\* _HandlePacket).
THEOREM ClientStaysInStep == Spec => []InStepWithoutTrouble
<1>1. SessionInv => InStepWithoutTrouble
  <2> SUFFICES ASSUME SessionInv PROVE InStepWithoutTrouble
    OBVIOUS
  <2>1. phase = "lost" => trouble # {}
    BY DEF SessionInv, Lockstep, AtNew, AtGreeting, AtLogin, AtIdle, AtQuery, AtResult, Progress
  <2> QED BY <2>1 DEF SessionInv, InStepWithoutTrouble
<1> QED BY <1>1, SessionInvHolds, PTL

-----------------------------------------------------------------------------
(* The names in a login *)

LEMMA FromBytes4 ==
  ASSUME NEW p, NEW at \in Nat, p[at] \in Nat, p[at + 1] \in Nat, p[at + 2] \in Nat,
         p[at + 3] \in Nat
  PROVE  FromBytes(p, at, 4)
           = p[at] + p[at + 1] * 256 + p[at + 2] * 256^2 + p[at + 3] * 256^3
<1> DEFINE eqn(f) == f = [k \in 0..4 |-> IF k = 0 THEN 0
                                         ELSE f[k - 1] + p[at + k - 1] * 256^(k - 1)]
           d == CHOOSE f : eqn(f)
<1>1. \E f : eqn(f)
  <2> DEFINE f == [k \in 0..4 |-> IF k = 0 THEN 0 ELSE IF k = 1 THEN p[at]
                                  ELSE IF k = 2 THEN p[at] + p[at + 1] * 256
                                  ELSE IF k = 3 THEN p[at] + p[at + 1] * 256 + p[at + 2] * 256^2
                                  ELSE p[at] + p[at + 1] * 256 + p[at + 2] * 256^2
                                       + p[at + 3] * 256^3]
  <2>1. eqn(f)
    BY Powers
  <2> HIDE DEF f
  <2> QED BY <2>1
<1>2. FromBytes(p, at, 4) = d[4]
  BY DEF FromBytes
<1>3. eqn(d)
  BY <1>1
<1> HIDE DEF d
<1>4. d[0] = 0
  BY <1>3
<1>5. d[1] = p[at]
  BY <1>3, <1>4, Powers
<1>6. d[2] = p[at] + p[at + 1] * 256
  BY <1>3, <1>5, Powers
<1>7. d[3] = p[at] + p[at + 1] * 256 + p[at + 2] * 256^2
  BY <1>3, <1>6, Powers
<1>8. d[4] = p[at] + p[at + 1] * 256 + p[at + 2] * 256^2 + p[at + 3] * 256^3
  BY <1>3, <1>7, Powers
<1> QED BY <1>2, <1>8

LEMMA FourBytesReadBack ==
  ASSUME NEW p, NEW at \in Nat, NEW v \in Nat, v < 2^24, Stands(p, at, LittleEndian(v, 4))
  PROVE  FromBytes(p, at, 4) = v
<1> DEFINE w == LittleEndian(v, 4)
<1>1. /\ Len(w) = 4 /\ w[1] = Lo(v) /\ w[2] = Lo(Hi(v)) /\ w[3] = Lo(Hi(Hi(v)))
      /\ w[4] = Lo(Hi(Hi(Hi(v))))
  BY LittleEndianBytes
<1>2. Stands(p, at, w)
  OBVIOUS
<1> HIDE DEF w
<1>3. \A i \in 1..4 : p[at + i - 1] = w[i]
  BY <1>1, <1>2 DEF Stands
<1>4. /\ p[at] = Lo(v) /\ p[at + 1] = Lo(Hi(v)) /\ p[at + 2] = Lo(Hi(Hi(v)))
      /\ p[at + 3] = Lo(Hi(Hi(Hi(v))))
  <2>1. /\ p[at + 1 - 1] = w[1] /\ p[at + 2 - 1] = w[2] /\ p[at + 3 - 1] = w[3]
        /\ p[at + 4 - 1] = w[4]
    BY <1>3
  <2> QED BY <1>1, <2>1
<1>5. /\ v = 256 * Hi(v) + Lo(v) /\ Hi(v) \in Nat /\ Lo(v) \in 0..255
      /\ Hi(v) = 256 * Hi(Hi(v)) + Lo(Hi(v)) /\ Hi(Hi(v)) \in Nat /\ Lo(Hi(v)) \in 0..255
      /\ Hi(Hi(v)) = 256 * Hi(Hi(Hi(v))) + Lo(Hi(Hi(v)))
      /\ Hi(Hi(Hi(v))) \in Nat /\ Lo(Hi(Hi(v))) \in 0..255
  BY LowAndHigh, Zenon DEF Byte
<1>6. /\ v = Lo(v) + Lo(Hi(v)) * 256 + Lo(Hi(Hi(v))) * 256^2
      /\ Hi(Hi(Hi(v))) = 0
  <2> DEFINE a == Lo(v)
             b == Lo(Hi(v))
             c == Lo(Hi(Hi(v)))
             f == Hi(v)
             g == Hi(Hi(v))
             h == Hi(Hi(Hi(v)))
  <2>1. /\ v = 256 * f + a /\ f = 256 * g + b /\ g = 256 * h + c
        /\ a \in 0..255 /\ b \in 0..255 /\ c \in 0..255 /\ f \in Nat /\ g \in Nat /\ h \in Nat
    BY <1>5
  <2> HIDE DEF a, b, c, f, g, h
  <2>2. v < 16777216
    BY SMT
  <2>3. h = 0
    BY <2>1, <2>2, SMT
  <2>4. v = a + b * 256 + c * 256^2
    BY <2>1, <2>3, SMT
  <2> QED BY <2>3, <2>4 DEF a, b, c, h
<1>7. p[at + 3] = 0
  <2>1. Lo(0) = 0
    BY SMT DEF Lo
  <2> QED BY <1>4, <1>6, <2>1, Zenon
<1>8. FromBytes(p, at, 4) = p[at] + p[at + 1] * 256 + p[at + 2] * 256^2 + p[at + 3] * 256^3
  <2>1. p[at] \in Nat /\ p[at + 1] \in Nat /\ p[at + 2] \in Nat /\ p[at + 3] \in Nat
    BY <1>4, <1>5, <1>7
  <2> QED BY <2>1, FromBytes4, SMT
<1>9. p[at] + p[at + 1] * 256 + p[at + 2] * 256^2 + 0 * 256^3
        = p[at] + p[at + 1] * 256 + p[at + 2] * 256^2
  <2>1. p[at] \in Nat /\ p[at + 1] \in Nat /\ p[at + 2] \in Nat
    BY <1>4, <1>5
  <2> QED BY <2>1, Powers, SMT
<1>10. FromBytes(p, at, 4) = p[at] + p[at + 1] * 256 + p[at + 2] * 256^2
  BY <1>7, <1>8, <1>9, Zenon
<1> QED BY <1>4, <1>6, <1>10, Zenon

LEMMA CatStands ==
  ASSUME NEW a \in Seq(Byte), NEW b \in Seq(Byte)
  PROVE  /\ Cat(a, b) \in Seq(Byte) /\ Len(Cat(a, b)) = Len(a) + Len(b)
         /\ Stands(Cat(a, b), Len(a) + 1, b)
         /\ \A at \in Nat, s \in Seq(Byte) : Stands(a, at, s) => Stands(Cat(a, b), at, s)
<1>1. a \o b \in Seq(Byte) /\ Len(a \o b) = Len(a) + Len(b)
  BY Joined
<1>2. Stands(a \o b, Len(a) + 1, b)
  BY StandsBehind
<1>3. \A at \in Nat, s \in Seq(Byte) : Stands(a, at, s) => Stands(a \o b, at, s)
  BY StandsExtended
<1> QED BY <1>1, <1>2, <1>3, Zenon DEF Cat

\* A name is read up to its zero byte.
LEMMA NameReadBack ==
  ASSUME NEW p \in Seq(Byte), NEW at \in Nat \ {0}, NEW name \in Seq(1..255),
         name \in Seq(Byte), Stands(p, at, name), Stands(p, at + Len(name), << 0 >>)
  PROVE  ReadNulString(p, at) = [val |-> name, at |-> at + Len(name) + 1, found |-> TRUE]
<1> DEFINE n == Len(name)
           e == at + n
<1>1. n \in Nat /\ Len(p) \in Nat /\ DOMAIN p = 1..Len(p)
  BY LenProperties
<1>2. e \in 1..Len(p) /\ p[e] = 0
  <2>1. 1 \in 1..Len(<<0>>) /\ <<0>>[1] = 0
    OBVIOUS
  <2>2. e + 1 - 1 \in 1..Len(p) /\ p[e + 1 - 1] = 0
    BY <2>1 DEF Stands
  <2>3. e + 1 - 1 = e
    BY <1>1
  <2> QED BY <2>2, <2>3
<1>3. \A j \in at..(e - 1) : p[j] # 0
  <2> TAKE j \in at..(e - 1)
  <2>1. j - at + 1 \in 1..n /\ at + (j - at + 1) - 1 = j
    BY <1>1
  <2>2. p[j] = name[j - at + 1]
    BY <2>1 DEF Stands
  <2> DEFINE x == name[j - at + 1]
  <2>3. x \in 1..255
    BY <2>1, ElementOfSeq
  <2> HIDE DEF x
  <2>4. x # 0
    BY <2>3
  <2> QED BY <2>2, <2>4 DEF x
<1> DEFINE Q(i) == /\ i \in DOMAIN p => p[i] = 0
                   /\ \A j \in at..(i - 1) : p[j] # 0
<1>4. e \in at..(Len(p) + 1) /\ Q(e)
  BY <1>1, <1>2, <1>3
<1>5. \A i \in at..(Len(p) + 1) : Q(i) => i = e
  <2> SUFFICES ASSUME NEW i \in at..(Len(p) + 1), Q(i) PROVE i = e
    OBVIOUS
  <2>1. CASE i < e
    <3>1. i \in DOMAIN p /\ i \in at..(e - 1)
      BY <1>1, <1>2, <2>1
    <3> QED BY <1>3, <3>1
  <2>2. CASE i > e
    <3>1. e \in at..(i - 1)
      BY <1>1, <2>2
    <3> QED BY <1>2, <3>1
  <2>3. i < e \/ i > e \/ i = e
    <3>1. i \in Int /\ e \in Int
      BY <1>1
    <3> HIDE DEF e
    <3> QED BY <3>1
  <2> QED BY <2>1, <2>2, <2>3
<1>6. FindZero(p, at) = e
  <2>1. ~(at > Len(p))
    BY <1>1, <1>2
  <2>2. FindZero(p, at) = CHOOSE i \in at..(Len(p) + 1) : Q(i)
    BY <2>1 DEF FindZero
  <2> HIDE DEF Q, e
  <2> QED BY <1>4, <1>5, <2>2
<1>7. SubSeq(p, at, e - 1) = name
  BY StandsCut
<1> HIDE DEF e
<1>8. e <= Len(p)
  BY <1>1, <1>2
<1>9. ReadNulString(p, at) = [val |-> name, at |-> e + 1, found |-> TRUE]
  BY <1>6, <1>7, <1>8, Zenon DEF ReadNulString
<1> QED BY <1>9 DEF e

\* The flags of a login, with or without a database and a plugin.
FlagsOf(database, plugin) ==
  2^Protocol41 + 2^SecureConnection
  + (IF database = NoName THEN 0 ELSE 2^ConnectWithDB)
  + (IF plugin = NoName THEN 0 ELSE 2^PluginAuth)

LEMMA FlagsRead ==
  ASSUME NEW d, NEW g
  PROVE  /\ FlagsOf(d, g) \in Nat /\ FlagsOf(d, g) < 2^24
         /\ HasFlag(FlagsOf(d, g), Protocol41) /\ HasFlag(FlagsOf(d, g), SecureConnection)
         /\ HasFlag(FlagsOf(d, g), ConnectWithDB) <=> d # NoName
         /\ HasFlag(FlagsOf(d, g), PluginAuth) <=> g # NoName
<1> DEFINE f == FlagsOf(d, g)
<1>1. /\ d = NoName /\ g = NoName => f = 33280
      /\ d # NoName /\ g = NoName => f = 33288
      /\ d = NoName /\ g # NoName => f = 557568
      /\ d # NoName /\ g # NoName => f = 557576
  <2>1. 2^9 = 512 /\ 2^15 = 32768 /\ 2^3 = 8 /\ 2^19 = 524288
    BY SMT
  <2>2. 512 + 32768 + 0 + 0 = 33280 /\ 512 + 32768 + 8 + 0 = 33288
        /\ 512 + 32768 + 0 + 524288 = 557568 /\ 512 + 32768 + 8 + 524288 = 557576
    BY SMT
  <2> HIDE DEF NoName
  <2> QED BY <2>1, <2>2, SMT DEF FlagsOf, Protocol41, SecureConnection, ConnectWithDB, PluginAuth
<1> HIDE DEF f
<1>2. f \in {33280, 33288, 557568, 557576}
  BY <1>1, SMT
<1>3. /\ (f = 33288 \/ f = 557576) <=> d # NoName
      /\ (f = 557568 \/ f = 557576) <=> g # NoName
  <2> HIDE DEF NoName
  <2> QED BY <1>1, SMT
<1>4. /\ f \in Nat /\ f < 2^24 /\ (f \div 2^9) % 2 = 1 /\ (f \div 2^15) % 2 = 1
      /\ ((f \div 2^3) % 2 = 1) <=> (f = 33288 \/ f = 557576)
      /\ ((f \div 2^19) % 2 = 1) <=> (f = 557568 \/ f = 557576)
  BY <1>2, SMT
<1> QED
  BY <1>3, <1>4 DEF f, HasFlag, Protocol41, SecureConnection, ConnectWithDB, PluginAuth

\* A name in the packet, if there is one, with its zero byte.
Terminated(name) == IF name = NoName THEN <<>> ELSE name \o <<0>>

LEMMA NamesAreBytes ==
  ASSUME NEW x \in Seq(1..255)
  PROVE  /\ x \in Seq(Byte) /\ Terminated(x) \in Seq(Byte)
         /\ x # NoName => /\ Terminated(x) = Cat(x, <<0>>) /\ Len(Terminated(x)) = Len(x) + 1
         /\ x = NoName => Terminated(x) = <<>>
<1>1. 1..255 \subseteq Byte
  BY DEF Byte
<1>2. x \in Seq(Byte)
  BY <1>1, SeqMonotonic
<1>3. <<0>> \in Seq(Byte) /\ Len(<<0>>) = 1 /\ <<>> \in Seq(Byte)
  BY DEF Byte
<1> DEFINE z == <<0>>
<1>4. Cat(x, z) \in Seq(Byte) /\ Len(Cat(x, z)) = Len(x) + Len(z)
  BY <1>2, <1>3, CatStands
<1>5. x # NoName => Terminated(x) = Cat(x, z)
  BY DEF Terminated, Cat
<1>6. x = NoName => Terminated(x) = <<>>
  BY DEF Terminated
<1> HIDE DEF z
<1>7. Len(z) = 1
  BY <1>3 DEF z
<1>8. Terminated(x) \in Seq(Byte)
  BY <1>3, <1>4, <1>5, <1>6
<1>9. x # NoName => Len(Terminated(x)) = Len(x) + 1
  BY <1>4, <1>5, <1>7
<1> QED BY <1>2, <1>5, <1>6, <1>8, <1>9, Zenon DEF z

LEMMA TerminatedReadBack ==
  ASSUME NEW p \in Seq(Byte), NEW at \in Nat \ {0}, NEW x \in Seq(1..255), x # NoName,
         Stands(p, at, Terminated(x))
  PROVE  ReadNulString(p, at)
           = [val |-> x, at |-> at + Len(Terminated(x)), found |-> TRUE]
<1> DEFINE z == <<0>>
<1>1. x \in Seq(Byte) /\ Terminated(x) = x \o z /\ Len(Terminated(x)) = Len(x) + 1
  BY NamesAreBytes DEF Cat
<1>2. z \in Seq(Byte) /\ Len(x) \in Nat
  BY LenProperties DEF Byte
<1>3. Stands(p, at, x) /\ Stands(p, at + Len(x), z)
  <2> HIDE DEF z
  <2>1. Stands(p, at, x \o z)
    BY <1>1
  <2> QED BY <1>1, <1>2, <2>1, StandsConcat
<1>4. ReadNulString(p, at) = [val |-> x, at |-> at + Len(x) + 1, found |-> TRUE]
  BY <1>1, <1>3, NameReadBack
<1>5. at + Len(x) + 1 = at + Len(Terminated(x))
  BY <1>1, <1>2
<1> QED BY <1>4, <1>5

\* The names a login carries are read back, if it carries no password.
LEMMA LoginReadBack ==
  ASSUME NEW l \in Logins, l.response = <<>>
  PROVE  AuthUnPack(SubSeq(LoginPacket(l), 5, Len(LoginPacket(l))))
           = [user |-> l.user, database |-> l.database, pluginName |-> l.pluginName]
<1> DEFINE user == l.user
           db == l.database
           pl == l.pluginName
           flags == FlagsOf(db, pl)
           z == <<0>>
           b1 == WriteU32(flags)
           b2 == WriteU32(0)
           b3 == <<33>>
           b4 == Zeros(23)
           b7 == <<Len(l.response)>>
           b8 == l.response
           td == Terminated(db)
           tp == Terminated(pl)
           c4 == Cat(Cat(Cat(b1, b2), b3), b4)
           c5 == Cat(c4, user)
           c6 == Cat(c5, z)
           c7 == Cat(c6, b7)
           c8 == Cat(c7, b8)
           c9 == Cat(c8, td)
           p == Cat(c9, tp)
<1>1. LoginPacket(l) = <<Len(p), 0, 0, 1>> \o p
  BY Zenon DEF LoginPacket, Cat, FlagsOf, Terminated
<1>2. user \in Seq(1..255) /\ db \in Seq(1..255) /\ pl \in Seq(1..255)
  BY DEF Logins
<1>3. b7 = z /\ b8 = <<>>
  BY EmptySeq
<1> HIDE DEF user, db, pl, b7, b8, td, tp
<1>4. /\ flags \in Nat /\ flags < 2^24
      /\ HasFlag(flags, Protocol41) /\ HasFlag(flags, SecureConnection)
      /\ HasFlag(flags, ConnectWithDB) <=> db # NoName
      /\ HasFlag(flags, PluginAuth) <=> pl # NoName
  BY FlagsRead
<1> HIDE DEF flags
<1>5. b1 = LittleEndian(flags, 4)
  BY DEF WriteU32
<1>6. IsPart(b1, 4) /\ IsPart(b2, 4) /\ IsPart(b3, 1) /\ IsPart(b4, 23) /\ IsPart(z, 1)
  <2>1. IsPart(b1, 4) /\ IsPart(b2, 4)
    BY <1>4, PartOfNumber DEF WriteU32
  <2>2. IsPart(b3, 1) /\ IsPart(z, 1)
    <3>1. 33 \in Byte /\ 0 \in Byte
      BY DEF Byte
    <3> QED BY <3>1, PartOfOne, Zenon
  <2>3. IsPart(b4, 23)
    <3>1. 0 \in Byte /\ 23 \in Nat
      BY DEF Byte
    <3>2. IsPart([j \in 1..23 |-> 0], 23)
      BY <3>1, PartRepeated
    <3> QED BY <3>2, Zenon DEF Zeros
  <2> QED BY <2>1, <2>2, <2>3
<1>7. user \in Seq(Byte) /\ td \in Seq(Byte) /\ tp \in Seq(Byte) /\ z \in Seq(Byte) /\ Len(z) = 1
  BY <1>2, <1>6, NamesAreBytes DEF td, tp, IsPart
<1>8. z[1] = 0
  OBVIOUS
<1> HIDE DEF b1, b2, b3, b4, z
<1>9. c4 \in Seq(Byte) /\ Len(c4) = 32 /\ Stands(c4, 1, b1) /\ b1 \in Seq(Byte)
  <2>0. b1 \in Seq(Byte) /\ b2 \in Seq(Byte) /\ b3 \in Seq(Byte) /\ b4 \in Seq(Byte)
        /\ Len(b1) = 4 /\ Len(b2) = 4 /\ Len(b3) = 1 /\ Len(b4) = 23
    BY <1>6 DEF IsPart
  <2> DEFINE d2 == Cat(b1, b2)
             d3 == Cat(d2, b3)
  <2>1. Stands(b1, 1, b1) /\ 1 \in Nat
    BY <2>0, StandsWhole
  <2>2. d2 \in Seq(Byte) /\ Len(d2) = Len(b1) + Len(b2) /\ Stands(d2, 1, b1)
    BY <2>0, <2>1, CatStands
  <2> HIDE DEF d2
  <2>3. d3 \in Seq(Byte) /\ Len(d3) = Len(d2) + Len(b3) /\ Stands(d3, 1, b1)
    BY <2>0, <2>1, <2>2, CatStands
  <2> HIDE DEF d3
  <2>4. Cat(d3, b4) \in Seq(Byte) /\ Len(Cat(d3, b4)) = Len(d3) + Len(b4) /\ Stands(Cat(d3, b4), 1, b1)
    BY <2>0, <2>1, <2>3, CatStands
  <2>5. Len(d3) + Len(b4) = 32
    BY <2>0, <2>2, <2>3
  <2> QED BY <2>0, <2>4, <2>5 DEF d2, d3
<1> HIDE DEF c4
<1> DEFINE u == Len(user)
           d == Len(td)
<1>10. u \in Nat /\ d \in Nat /\ 1 \in Nat /\ 33 \in Nat
  BY <1>7, LenProperties
<1>11. c5 \in Seq(Byte) /\ Len(c5) = 32 + u /\ Stands(c5, 33, user) /\ Stands(c5, 1, b1)
  <2>1. c5 \in Seq(Byte) /\ Len(c5) = Len(c4) + u /\ Stands(c5, Len(c4) + 1, user) /\ Stands(c5, 1, b1)
    BY <1>7, <1>9, <1>10, CatStands
  <2>2. Len(c4) + 1 = 33
    BY <1>9
  <2> QED BY <1>9, <2>1, <2>2
<1> HIDE DEF c5, u, d
<1>12. /\ c6 \in Seq(Byte) /\ Len(c6) = 33 + u /\ Stands(c6, 33 + u, z)
       /\ Stands(c6, 33, user) /\ Stands(c6, 1, b1)
  <2>1. /\ c6 \in Seq(Byte) /\ Len(c6) = Len(c5) + Len(z) /\ Stands(c6, Len(c5) + 1, z)
        /\ \A at \in Nat, s \in Seq(Byte) : Stands(c5, at, s) => Stands(c6, at, s)
    <3>1. c5 \in Seq(Byte) /\ z \in Seq(Byte)
      BY <1>7, <1>11
    <3> QED BY <3>1, CatStands, Zenon
  <2> HIDE DEF c6
  <2>2. Stands(c6, 33, user) /\ Stands(c6, 1, b1)
    BY <1>7, <1>9, <1>10, <1>11, <2>1
  <2>3. Len(c5) + 1 = 33 + u
    BY <1>10, <1>11
  <2> QED BY <1>7, <2>1, <2>2, <2>3
<1> HIDE DEF c6
<1>13. 33 + u \in Nat /\ 34 + u \in Nat /\ 35 + u \in Nat
  BY <1>10
<1>14. /\ c7 \in Seq(Byte) /\ Len(c7) = 34 + u /\ Stands(c7, 34 + u, z) /\ Stands(c7, 33 + u, z)
       /\ Stands(c7, 33, user) /\ Stands(c7, 1, b1)
  <2>1. /\ c7 \in Seq(Byte) /\ Len(c7) = Len(c6) + Len(z) /\ Stands(c7, Len(c6) + 1, z)
        /\ \A at \in Nat, s \in Seq(Byte) : Stands(c6, at, s) => Stands(c7, at, s)
    <3>1. c6 \in Seq(Byte) /\ z \in Seq(Byte) /\ c7 = Cat(c6, z)
      BY <1>3, <1>7, <1>12
    <3> QED BY <3>1, CatStands, Zenon
  <2> HIDE DEF c7
  <2>2. Stands(c7, 33 + u, z) /\ Stands(c7, 33, user) /\ Stands(c7, 1, b1)
    BY <1>7, <1>9, <1>10, <1>12, <1>13, <2>1
  <2>3. Len(c6) + 1 = 34 + u
    BY <1>10, <1>12
  <2> QED BY <1>7, <2>1, <2>2, <2>3
<1>15. c8 = c7
  <2>1. c7 \o <<>> = c7
    BY <1>14, ConcatEmptySeq
  <2> QED BY <1>3, <2>1 DEF Cat
<1> HIDE DEF c7, c8
<1>16. /\ c9 \in Seq(Byte) /\ Len(c9) = 34 + u + d /\ Stands(c9, 35 + u, td)
       /\ Stands(c9, 34 + u, z) /\ Stands(c9, 33 + u, z)
       /\ Stands(c9, 33, user) /\ Stands(c9, 1, b1)
  <2>1. /\ c9 \in Seq(Byte) /\ Len(c9) = Len(c7) + Len(td) /\ Stands(c9, Len(c7) + 1, td)
        /\ Stands(c9, 34 + u, z) /\ Stands(c9, 33 + u, z)
        /\ Stands(c9, 33, user) /\ Stands(c9, 1, b1)
    BY <1>7, <1>9, <1>10, <1>13, <1>14, <1>15, CatStands
  <2>2. Len(c7) + 1 = 35 + u /\ Len(td) = d
    BY <1>10, <1>14 DEF d
  <2> QED BY <1>14, <2>1, <2>2
<1> HIDE DEF c9
<1>17. /\ p \in Seq(Byte) /\ Stands(p, 35 + u + d, tp) /\ Stands(p, 35 + u, td)
       /\ Stands(p, 34 + u, z) /\ Stands(p, 33 + u, z) /\ Stands(p, 33, user) /\ Stands(p, 1, b1)
  <2>1. /\ p \in Seq(Byte) /\ Stands(p, Len(c9) + 1, tp) /\ Stands(p, 35 + u, td)
        /\ Stands(p, 34 + u, z) /\ Stands(p, 33 + u, z) /\ Stands(p, 33, user) /\ Stands(p, 1, b1)
    BY <1>7, <1>9, <1>10, <1>13, <1>16, CatStands
  <2>2. Len(c9) + 1 = 35 + u + d
    BY <1>10, <1>16
  <2> QED BY <2>1, <2>2
<1> HIDE DEF p
\* What UnPack reads of it.
<1>18. ReadU32(p, 1).val = flags
  <2>1. FromBytes(p, 1, 4) = flags
    BY <1>4, <1>5, <1>10, <1>17, FourBytesReadBack
  <2> QED BY <2>1 DEF ReadU32, Read
<1>19. ReadNulString(p, 33) = [val |-> user, at |-> 34 + u, found |-> TRUE]
  <2>1. 33 \in Nat \ {0} /\ 33 + u + 1 = 34 + u
    BY <1>10
  <2>2. Stands(p, 33 + Len(user), <<0>>)
    BY <1>17 DEF u, z
  <2>3. ReadNulString(p, 33) = [val |-> user, at |-> 33 + Len(user) + 1, found |-> TRUE]
    BY <1>2, <1>7, <1>17, <2>1, <2>2, NameReadBack
  <2> QED BY <2>1, <2>3 DEF u
<1>20. p[34 + u] = 0
  <2>1. 1 \in 1..Len(z) /\ (34 + u) + 1 - 1 = 34 + u
    BY <1>7, <1>10
  <2> QED BY <1>8, <1>17, <2>1 DEF Stands
<1> DEFINE dbr == IF HasFlag(flags, ConnectWithDB) THEN ReadNulString(p, 35 + u)
                  ELSE [val |-> NoName, at |-> 35 + u, found |-> TRUE]
           plr == IF HasFlag(flags, PluginAuth) THEN ReadNulString(p, 35 + u + d)
                  ELSE [val |-> NoName, found |-> TRUE]
<1>21. dbr = [val |-> db, at |-> 35 + u + d, found |-> TRUE]
  <2>1. CASE db # NoName
    <3>1. 35 + u \in Nat \ {0} /\ Len(Terminated(db)) = d
      BY <1>10 DEF d, td
    <3>2. ReadNulString(p, 35 + u) = [val |-> db, at |-> 35 + u + Len(Terminated(db)), found |-> TRUE]
      BY <1>2, <1>17, <2>1, <3>1, TerminatedReadBack DEF td
    <3> QED BY <1>4, <2>1, <3>1, <3>2
  <2>2. CASE db = NoName
    <3>1. td = <<>>
      BY <1>2, <2>2, NamesAreBytes DEF td
    <3>2. d = 0
      BY <3>1 DEF d
    <3>3. 35 + u + d = 35 + u
      BY <1>10, <3>2
    <3> QED BY <1>4, <2>2, <3>3
  <2> QED BY <2>1, <2>2
<1>22. plr.val = pl /\ plr.found = TRUE
  <2>1. CASE pl # NoName
    <3>1. 35 + u + d \in Nat \ {0}
      BY <1>10
    <3>2. ReadNulString(p, 35 + u + d)
            = [val |-> pl, at |-> 35 + u + d + Len(Terminated(pl)), found |-> TRUE]
      BY <1>2, <1>17, <2>1, <3>1, TerminatedReadBack DEF tp
    <3> QED BY <1>4, <2>1, <3>2
  <2>2. CASE pl = NoName
    BY <1>4, <2>2
  <2> QED BY <2>1, <2>2
<1> DEFINE F == ReadU32(p, 1).val
           U == ReadNulString(p, 33)
           B == IF HasFlag(F, SecureConnection) THEN U.at + 1 + 2 * p[U.at] ELSE U.at + 21
           D == IF HasFlag(F, ConnectWithDB) THEN ReadNulString(p, B)
                ELSE [val |-> NoName, at |-> B, found |-> TRUE]
           G == IF HasFlag(F, PluginAuth) THEN ReadNulString(p, D.at)
                ELSE [val |-> NoName, found |-> TRUE]
           Names(x, y, w) == [user |-> x, database |-> y, pluginName |-> w]
<1>23. AuthUnPack(p) =
         CASE ~HasFlag(F, Protocol41) -> Names(NoName, NoName, NoName)
           [] ~U.found -> Names(NoName, NoName, NoName)
           [] ~D.found -> Names(U.val, NoName, NoName)
           [] ~G.found -> Names(U.val, D.val, NoName)
           [] OTHER -> Names(U.val, D.val, G.val)
  BY Zenon DEF AuthUnPack
<1>24. F = flags
  BY <1>18
<1>25. U.val = user /\ U.at = 34 + u /\ U.found = TRUE
  <2> HIDE DEF F, B, D, G, Names, dbr, plr
  <2> QED BY <1>19
<1> HIDE DEF F, U
<1>26. B = 35 + u
  <2>1. B = (34 + u) + 1 + 2 * 0
    BY <1>4, <1>20, <1>24, <1>25, Zenon
  <2>2. (34 + u) + 1 + 2 * 0 = 35 + u
    BY <1>10
  <2> QED BY <2>1, <2>2, Zenon
<1> HIDE DEF B
<1>27. D = dbr
  BY <1>24, <1>26, Zenon
<1>28. D.val = db /\ D.at = 35 + u + d /\ D.found = TRUE
  <2> HIDE DEF D, G, Names, dbr, plr
  <2> QED BY <1>21, <1>27
<1> HIDE DEF D, dbr
<1>29. G = plr
  BY <1>24, <1>28, Zenon
<1> HIDE DEF plr
<1>30. G.val = pl /\ G.found = TRUE
  BY <1>22, <1>29, Zenon
<1> HIDE DEF G
<1>31. AuthUnPack(p) = Names(user, db, pl)
  <2> HIDE DEF Names
  <2> QED BY <1>4, <1>23, <1>24, <1>25, <1>28, <1>30, Zenon
\* The header before it is passed over.
<1>32. SubSeq(LoginPacket(l), 5, Len(LoginPacket(l))) = p
  <2> DEFINE m == Len(p)
             h == <<m, 0, 0, 1>>
             q == h \o p
  <2>1. m \in Nat /\ p \in Seq(Nat)
    BY <1>17, LenProperties, BytesAreNats
  <2>2. LoginPacket(l) = q
    BY <1>1
  <2> HIDE DEF m
  <2>3. h \in Seq(Nat) /\ Len(h) = 4
    BY <2>1
  <2> HIDE DEF h
  <2>4. /\ Len(q) = 4 + m
        /\ \A j \in 1..(4 + m) : q[j] = IF j <= 4 THEN h[j] ELSE p[j - 4]
    <3>1. /\ Len(q) = Len(h) + Len(p)
          /\ \A j \in 1..(Len(h) + Len(p)) : q[j] = IF j <= Len(h) THEN h[j] ELSE p[j - Len(h)]
      <4> HIDE DEF Names
      <4> QED BY <2>1, <2>3, ConcatProperties
    <3>2. Len(p) = m
      BY DEF m
    <3> HIDE DEF q
    <3> QED BY <2>3, <3>1, <3>2
  <2> HIDE DEF q
  <2>5. Stands(q, 5, p)
    <3> SUFFICES ASSUME NEW i \in 1..m PROVE 5 + i - 1 \in 1..Len(q) /\ q[5 + i - 1] = p[i]
      BY DEF Stands, m
    <3>1. 5 + i - 1 \in 1..(4 + m) /\ ~(5 + i - 1 <= 4) /\ (5 + i - 1) - 4 = i
      BY <2>1
    <3> QED BY <2>4, <3>1
  <2>6. SubSeq(q, 5, 5 + m - 1) = p
    BY <1>17, <2>5, StandsCut DEF m
  <2>7. 5 + m - 1 = Len(q)
    BY <2>1, <2>4
  <2> QED BY <2>2, <2>6, <2>7
<1> QED BY <1>31, <1>32, Zenon DEF user, db, pl

\* The server knows the client by the names it has sent, whatever they are, if it
\* sends no password (AuthPacket::UnPack in auth.cc).
THEOREM NamesAreRead == Spec => []LoginNamesRead
<1>1. SessionInv => LoginNamesRead
  <2> SUFFICES ASSUME SessionInv, current > 0, trouble = {}, plan.login.response = <<>>
               PROVE  names = [user |-> plan.login.user, database |-> plan.login.database,
                               pluginName |-> plan.login.pluginName]
    BY DEF LoginNamesRead
  <2> DEFINE l == plan.login
  <2>1. plan \in Plans /\ current \in 0..Len(plan.commands) /\ Lockstep /\ l \in Logins
    BY PlanShape DEF SessionInv
  <2>2. names = LoginNames[l]
    <3>1. ~AtNew /\ ~AtGreeting /\ ~AtLogin
      <4>1. current # 0
        BY <2>1, PlanShape
      <4> QED BY <4>1 DEF AtNew, AtGreeting, AtLogin
    <3> QED BY <2>1, <3>1 DEF Lockstep, AtIdle, AtQuery, AtResult, Login
  <2>3. l \in {p.login : p \in Plans}
    BY <2>1
  <2> HIDE DEF l
  <2>4. LoginPackets[l] = LoginPacket(l) /\ l \in DOMAIN LoginPackets
    BY <2>3 DEF LoginPackets
  <2>5. LoginNames[l] = AuthUnPack(SubSeq(LoginPacket(l), 5, Len(LoginPacket(l))))
    BY <2>4, Zenon DEF LoginNames
  <2>6. l.response = <<>>
    BY DEF l
  <2>7. names = [user |-> l.user, database |-> l.database, pluginName |-> l.pluginName]
    BY <2>1, <2>2, <2>5, <2>6, LoginReadBack
  <2> QED BY <2>7 DEF l
<1> QED BY <1>1, SessionInvHolds, PTL

-----------------------------------------------------------------------------
(* What the repository's own UnPack functions make of the packets *)

\* The first byte of what stands at a place.
LEMMA FirstStands ==
  ASSUME NEW p, NEW at \in Nat, NEW s \in Seq(Byte), Len(s) >= 1, Stands(p, at, s)
  PROVE  p[at] = s[1]
<1>1. 1 \in 1..Len(s) /\ at + 1 - 1 = at
  BY LenProperties
<1> QED BY <1>1, Zenon DEF Stands

\* The parts of what is read.
LEMMA ReadParts ==
  ASSUME NEW v, NEW at
  PROVE  Read(v, at).val = v /\ Read(v, at).at = at
BY DEF Read

\* The branches of ReadLenEncode for one byte and for two.
LEMMA ShortLengthRead ==
  ASSUME NEW p, NEW at, NEW v, NEW b, ReadU8(p, at) = Read(v, b),
         v # 251, v # 252, v # 253, v # 254
  PROVE  ReadLenEncode(p, at) = Read(v, b)
<1>1. ReadU8(p, at).val = v
  BY ReadParts
<1> QED BY <1>1, Zenon DEF ReadLenEncode

LEMMA LongLengthRead ==
  ASSUME NEW p, NEW at, NEW b, ReadU8(p, at) = Read(252, b)
  PROVE  ReadLenEncode(p, at) = ReadU16(p, b)
<1>1. ReadU8(p, at).val = 252 /\ ReadU8(p, at).at = b
  BY ReadParts
<1>2. 252 # 251 /\ 252 # 253 /\ 252 # 254
  OBVIOUS
<1>3. /\ (ReadU8(p, at).val = 251) = FALSE /\ (ReadU8(p, at).val = 252) = TRUE
      /\ (ReadU8(p, at).val = 253) = FALSE /\ (ReadU8(p, at).val = 254) = FALSE
  BY <1>1, <1>2
<1> QED BY <1>1, <1>3 DEF ReadLenEncode

\* A length is read by the repository's reader as it was written, up to 2^16: of
\* three bytes ReadU24 would drop the third.
LEMMA LengthReadBack ==
  ASSUME NEW p \in Seq(Byte), NEW at \in Nat \ {0}, NEW v \in Nat, v < 2^16,
         Stands(p, at, WriteLenEncode(v))
  PROVE  ReadLenEncode(p, at) = Read(v, at + Len(WriteLenEncode(v)))
<1>0. v < 2^24
  BY SMT
<1>1. CASE v < 251
  <2>1. WriteLenEncode(v) = LittleEndian(v, 1) /\ Len(WriteLenEncode(v)) = 1
    BY <1>0, <1>1, LenEncodeBytes
  <2>2. LittleEndian(v, 1)[1] = Lo(v)
    BY LittleEndianBytes
  <2>3. Lo(v) = v
    BY <1>1, SMT DEF Lo
  <2>4. LittleEndian(v, 1) \in Seq(Byte) /\ Len(LittleEndian(v, 1)) = 1 /\ 1 >= 1 /\ at \in Nat
    BY LittleEndianBytes
  <2>5. p[at] = v
    <3>1. Stands(p, at, LittleEndian(v, 1)) /\ Len(LittleEndian(v, 1)) >= 1
      BY <2>1, <2>4, Zenon
    <3>2. p[at] = LittleEndian(v, 1)[1]
      BY <2>4, <3>1, FirstStands, Zenon
    <3> QED BY <2>2, <2>3, <3>2, Zenon
  <2>6. v # 251 /\ v # 252 /\ v # 253 /\ v # 254
    BY <1>1
  <2>7. ReadU8(p, at) = Read(v, at + 1)
    BY <2>5 DEF ReadU8
  <2>8. ReadLenEncode(p, at) = Read(v, at + 1)
    BY ONLY <2>6, <2>7, ShortLengthRead
  <2> QED BY <2>1, <2>8
<1>2. CASE v >= 251
  <2>1. WriteLenEncode(v) = <<252>> \o LittleEndian(v, 2) /\ Len(WriteLenEncode(v)) = 3
    BY <1>0, <1>2, LenEncodeBytes
  <2>2. 252 \in Byte /\ LittleEndian(v, 2) \in Seq(Byte)
    BY LittleEndianBytes DEF Byte
  <2>3. p[at] = 252 /\ Stands(p, at + 1, LittleEndian(v, 2))
    BY <2>1, <2>2, MarkedStands
  <2>4. at + 1 \in Nat /\ (at + 1) + 2 = at + 3
    OBVIOUS
  <2>5. FromBytes(p, at + 1, 2) = v
    BY <2>3, <2>4, TwoBytesReadBack
  <2>6. ReadU8(p, at) = Read(252, at + 1)
    BY <2>3 DEF ReadU8
  <2>7. ReadU16(p, at + 1) = Read(v, at + 3)
    BY <2>4, <2>5 DEF ReadU16
  <2>9. ReadLenEncode(p, at) = Read(v, at + 3)
    BY <2>6, <2>7, LongLengthRead, Zenon
  <2> QED BY <2>1, <2>9
<1> QED BY <1>1, <1>2

\* A string is read behind its length.
LEMMA TextReadBack ==
  ASSUME NEW p \in Seq(Byte), NEW at \in Nat \ {0}, NEW s \in Seq(Byte), Len(s) < 2^16,
         Stands(p, at, WriteLenEncodeString(s))
  PROVE  ReadLenEncodeString(p, at) = Read(s, at + Len(WriteLenEncodeString(s)))
<1>1. Len(s) \in Nat
  BY LenProperties
<1> DEFINE w == WriteLenEncode(Len(s))
           b == at + Len(w)
<1>2. w \in Seq(Byte) /\ Len(w) \in Nat
  BY <1>1, LenEncodeIsBytes, LenProperties
<1>3. WriteLenEncodeString(s) = w \o s
  BY DEF WriteLenEncodeString
<1>4. Stands(p, at, w) /\ Stands(p, b, s)
  BY <1>2, <1>3, StandsConcat
<1>5. ReadLenEncode(p, at) = Read(Len(s), b)
  BY <1>1, <1>4, LengthReadBack
<1>6. Len(WriteLenEncodeString(s)) = Len(w) + Len(s)
  BY StringBytes
<1> HIDE DEF w
<1>7. b \in Nat \ {0} /\ b + Len(s) = at + Len(WriteLenEncodeString(s))
  BY <1>1, <1>2, <1>6
<1> HIDE DEF b
<1>8. SubSeq(p, b, b + Len(s) - 1) = s
  BY <1>4, <1>7, StandsCut
<1>9. ReadLenEncodeString(p, at) = ReadString(p, b, Len(s))
  <2>1. ReadLenEncode(p, at).val = Len(s) /\ ReadLenEncode(p, at).at = b
    BY <1>5, ReadParts
  <2> QED BY <2>1, Zenon DEF ReadLenEncodeString
<1> QED BY <1>7, <1>8, <1>9 DEF ReadString

\* A row is unpacked as it was packed.
LEMMA RowUnPacked ==
  ASSUME NEW p \in Seq(Byte), NEW S \in Seq(Seq(Byte)), NEW place, StringPlaces(p, S, place)
  PROVE  RowUnPack(p, Len(S)) = S
<1> DEFINE n == Len(S)
           step(b) == ReadLenEncodeString(p, b.at)
           eqn(f) == f = [i \in 0..n |-> IF i = 0 THEN Read(<<>>, 1) ELSE step(f[i - 1])]
           d == CHOOSE f : eqn(f)
           g == [i \in 0..n |-> Read(IF i = 0 THEN <<>> ELSE S[i], place[i])]
<1>0. /\ place \in [0..n -> Nat \ {0}] /\ place[0] = 1
      /\ \A i \in 1..n : /\ Len(S[i]) < 2^16
                         /\ place[i] = place[i - 1] + Len(WriteLenEncodeString(S[i]))
                         /\ Stands(p, place[i - 1], WriteLenEncodeString(S[i]))
  BY DEF StringPlaces
<1>1. n \in Nat /\ \A i \in 1..n : S[i] \in Seq(Byte)
  BY LenProperties, ElementOfSeq
<1>2. g[0] = Read(<<>>, 1)
  BY <1>0, <1>1
<1>3. \A i \in 1..n : g[i] = Read(S[i], place[i])
  BY <1>1
<1>4. g = [i \in 0..n |-> g[i]]
  OBVIOUS
<1>5. \A i \in 0..n : g[i].at = place[i]
  BY <1>1, ReadParts
<1>6. RowUnPack(p, n) = [i \in 1..n |-> d[i].val]
  BY DEF RowUnPack
<1> HIDE DEF g
<1>7. ASSUME NEW i \in 1..n PROVE step(g[i - 1]) = g[i]
  <2>1. i - 1 \in 0..n /\ i \in 0..n
    BY <1>1
  <2>2. place[i - 1] \in Nat \ {0} /\ S[i] \in Seq(Byte)
    BY <1>0, <1>1, <2>1
  <2>3. step(g[i - 1]) = ReadLenEncodeString(p, place[i - 1])
    BY <1>5, <2>1
  <2> DEFINE a == place[i - 1]
             t == S[i]
  <2>4. a \in Nat \ {0} /\ t \in Seq(Byte) /\ Len(t) < 2^16 /\ Stands(p, a, WriteLenEncodeString(t))
    BY <1>0, <2>2
  <2>5. place[i] = a + Len(WriteLenEncodeString(t))
    BY <1>0
  <2> HIDE DEF a, t
  <2>6. ReadLenEncodeString(p, a) = Read(t, a + Len(WriteLenEncodeString(t)))
    BY <2>4, TextReadBack
  <2> QED BY <1>3, <2>3, <2>5, <2>6 DEF a, t
<1> HIDE DEF step
<1>8. eqn(g)
  <2>1. \A i \in 0..n : g[i] = IF i = 0 THEN Read(<<>>, 1) ELSE step(g[i - 1])
    <3> TAKE i \in 0..n
    <3>1. i = 0 \/ (i # 0 /\ i \in 1..n)
      BY <1>1
    <3> QED BY <1>2, <1>7, <3>1, Zenon
  <2> QED BY <1>4, <2>1, Zenon
<1>9. eqn(d)
  BY <1>8, Zenon
<1> HIDE DEF d
<1>10. d[0] = g[0]
  <2>1. 0 \in 0..n
    BY <1>1
  <2> QED BY <1>2, <1>9, <2>1, Zenon
<1>11. \A i \in 1..n : d[i] = step(d[i - 1])
  <2> TAKE i \in 1..n
  <2>1. i \in 0..n /\ i # 0
    BY <1>1
  <2> QED BY <1>9, <2>1, Zenon
<1> DEFINE P == {i \in Nat : i <= n => d[i] = g[i]}
<1>12. 0 \in P
  BY <1>10
<1>13. ASSUME NEW i \in P PROVE i + 1 \in P
  <2>1. CASE i + 1 <= n
    <3>1. i + 1 \in 1..n /\ (i + 1) - 1 = i /\ d[i] = g[i]
      BY <1>1, <2>1
    <3>2. d[i + 1] = step(d[i]) /\ g[i + 1] = step(g[i])
      BY <1>7, <1>11, <3>1
    <3> QED BY <3>1, <3>2
  <2> QED BY <2>1
<1>14. P = Nat
  BY <1>12, <1>13, InductionOnSets
<1>15. \A i \in 1..n : d[i].val = S[i]
  <2> TAKE i \in 1..n
  <2>1. i \in Nat /\ i <= n
    BY <1>1
  <2>2. i \in P
    BY <1>14, <2>1, Zenon
  <2>3. d[i] = g[i]
    BY <2>1, <2>2, Zenon
  <2> QED BY <1>3, <2>3, ReadParts
<1>16. S = [i \in 1..n |-> S[i]]
  BY LenProperties
<1> QED BY <1>6, <1>15, <1>16

\* An end mark is unpacked as it was packed.
LEMMA EofUnPacked ==
  EofUnPack(EofPack(0, 2)) = [header |-> 254, warnings |-> 0, statusFlags |-> 2]
<1> DEFINE x == LittleEndian(0, 2)
           y == LittleEndian(2, 2)
           a == <<254>>
           q == Cat(a, x)
           p == Cat(q, y)
<1>1. x \in Seq(Byte) /\ Len(x) = 2 /\ y \in Seq(Byte) /\ Len(y) = 2
  BY LittleEndianBytes
<1>2. EofPack(0, 2) = p
  BY DEF EofPack, EOF_PACKET, Cat
<1>3. a \in Seq(Byte) /\ Len(a) = 1 /\ a[1] = 254
  BY DEF Byte
<1> HIDE DEF x, y, a
<1>4. q \in Seq(Byte) /\ Len(q) = 3 /\ Stands(q, 2, x) /\ Stands(q, 1, a)
  <2>1. Stands(a, 1, a) /\ 1 + 2 = 3 /\ 1 + 1 = 2 /\ 1 \in Nat
    BY <1>3, StandsWhole
  <2>2. /\ q \in Seq(Byte) /\ Len(q) = Len(a) + Len(x) /\ Stands(q, Len(a) + 1, x)
        /\ \A at \in Nat, s \in Seq(Byte) : Stands(a, at, s) => Stands(q, at, s)
    <3>1. a \in Seq(Byte) /\ x \in Seq(Byte)
      BY <1>1, <1>3
    <3>2. /\ Cat(a, x) \in Seq(Byte) /\ Len(Cat(a, x)) = Len(a) + Len(x)
          /\ Stands(Cat(a, x), Len(a) + 1, x)
          /\ \A at \in Nat, s \in Seq(Byte) : Stands(a, at, s) => Stands(Cat(a, x), at, s)
      BY ONLY <3>1, CatStands
    <3> QED BY <3>2
  <2> QED BY <1>1, <1>3, <2>1, <2>2
<1> HIDE DEF q
<1>5. Stands(p, 4, y) /\ Stands(p, 2, x) /\ Stands(p, 1, a)
  <2>1. 3 + 1 = 4 /\ 1 \in Nat /\ 2 \in Nat
    OBVIOUS
  <2>2. /\ Stands(p, Len(q) + 1, y)
        /\ \A at \in Nat, s \in Seq(Byte) : Stands(q, at, s) => Stands(p, at, s)
    BY <1>1, <1>4, CatStands, Zenon
  <2> QED BY <1>1, <1>3, <1>4, <2>1, <2>2
<1> HIDE DEF p
<1>6. p[1] = 254
  <2>1. Len(a) >= 1 /\ 1 \in Nat
    BY <1>3
  <2> QED BY <1>3, <1>5, <2>1, FirstStands
<1>7. 0 < 2^16 /\ 2 < 2^16
  BY SMT
<1>8. FromBytes(p, 2, 2) = 0 /\ FromBytes(p, 4, 2) = 2
  BY <1>5, <1>7, TwoBytesReadBack DEF x, y
<1> QED BY <1>2, <1>6, <1>8 DEF EofUnPack

\* The place behind c in a packet that starts with it.
End(c) == 1 + Len(c)

LEMMA PartAt ==
  ASSUME NEW p \in Seq(Byte), NEW c \in Seq(Byte), NEW b \in Seq(Byte), Stands(p, 1, Cat(c, b))
  PROVE  /\ Stands(p, 1, c) /\ Stands(p, End(c), b) /\ End(c) \in Nat \ {0}
         /\ End(c) + Len(b) = End(Cat(c, b)) /\ Cat(c, b) \in Seq(Byte)
<1>1. Cat(c, b) \in Seq(Byte) /\ Len(Cat(c, b)) = Len(c) + Len(b)
  BY CatStands
<1>2. Len(c) \in Nat /\ Len(b) \in Nat
  BY LenProperties
<1>3. 1 \in Nat /\ Stands(p, 1, c \o b)
  BY DEF Cat
<1>4. Stands(p, 1, c) /\ Stands(p, 1 + Len(c), b)
  BY <1>3, StandsConcat, Zenon
<1> QED BY <1>1, <1>2, <1>4 DEF End

\* A string behind c.
LEMMA TextPart ==
  ASSUME NEW p \in Seq(Byte), NEW c \in Seq(Byte), NEW s \in Seq(Byte), Len(s) < 2^16,
         Stands(p, 1, Cat(c, WriteLenEncodeString(s)))
  PROVE  /\ Stands(p, 1, c) /\ Cat(c, WriteLenEncodeString(s)) \in Seq(Byte)
         /\ ReadLenEncodeString(p, End(c)) = Read(s, End(Cat(c, WriteLenEncodeString(s))))
<1> DEFINE b == WriteLenEncodeString(s)
<1>1. b \in Seq(Byte)
  BY StringBytes
<1> HIDE DEF b
<1>2. /\ Stands(p, 1, c) /\ Stands(p, End(c), b) /\ End(c) \in Nat \ {0}
      /\ End(c) + Len(b) = End(Cat(c, b)) /\ Cat(c, b) \in Seq(Byte)
  BY <1>1, PartAt DEF b
<1>3. ReadLenEncodeString(p, End(c)) = Read(s, End(c) + Len(b))
  BY <1>2, TextReadBack, Zenon DEF b
<1> QED BY <1>2, <1>3, Zenon DEF b

\* One, two and four bytes behind c.
LEMMA U8Part ==
  ASSUME NEW p \in Seq(Byte), NEW c \in Seq(Byte), NEW v \in Byte, Stands(p, 1, Cat(c, WriteU8(v)))
  PROVE  /\ Stands(p, 1, c) /\ Cat(c, WriteU8(v)) \in Seq(Byte)
         /\ ReadU8(p, End(c)) = Read(v, End(Cat(c, WriteU8(v))))
<1> DEFINE b == WriteU8(v)
<1>1. v \in Nat /\ v < 256
  BY DEF Byte
<1>2. b \in Seq(Byte) /\ Len(b) = 1 /\ b[1] = Lo(v)
  BY <1>1, LittleEndianBytes DEF WriteU8
<1>3. Lo(v) = v
  BY <1>1, SMT DEF Lo
<1> HIDE DEF b
<1>4. /\ Stands(p, 1, c) /\ Stands(p, End(c), b) /\ End(c) \in Nat \ {0}
      /\ End(c) + Len(b) = End(Cat(c, b)) /\ Cat(c, b) \in Seq(Byte)
  BY <1>2, PartAt DEF b
<1>5. End(c) \in Nat /\ Len(b) >= 1
  BY <1>2, <1>4
<1>6. p[End(c)] = v
  BY <1>2, <1>3, <1>4, <1>5, FirstStands
<1>7. ReadU8(p, End(c)) = Read(v, End(c) + 1)
  BY <1>6 DEF ReadU8
<1>8. End(c) + 1 = End(Cat(c, b))
  BY <1>2, <1>4
<1> QED BY <1>4, <1>7, <1>8 DEF b

LEMMA U16Part ==
  ASSUME NEW p \in Seq(Byte), NEW c \in Seq(Byte), NEW v \in Nat, v < 2^16,
         Stands(p, 1, Cat(c, WriteU16(v)))
  PROVE  /\ Stands(p, 1, c) /\ Cat(c, WriteU16(v)) \in Seq(Byte)
         /\ ReadU16(p, End(c)) = Read(v, End(Cat(c, WriteU16(v))))
<1> DEFINE b == WriteU16(v)
<1>1. b = LittleEndian(v, 2) /\ b \in Seq(Byte) /\ Len(b) = 2
  BY LittleEndianBytes DEF WriteU16
<1> HIDE DEF b
<1>2. /\ Stands(p, 1, c) /\ Stands(p, End(c), b) /\ End(c) \in Nat \ {0}
      /\ End(c) + Len(b) = End(Cat(c, b)) /\ Cat(c, b) \in Seq(Byte)
  BY <1>1, PartAt DEF b
<1>3. End(c) \in Nat /\ End(c) + 2 = End(Cat(c, b))
  BY ONLY <1>1, <1>2
<1>4. FromBytes(p, End(c), 2) = v
  BY <1>1, <1>2, <1>3, TwoBytesReadBack, Zenon
<1> QED BY <1>2, <1>3, <1>4, Zenon DEF b, ReadU16

LEMMA U32Part ==
  ASSUME NEW p \in Seq(Byte), NEW c \in Seq(Byte), NEW v \in Nat, v < 2^24,
         Stands(p, 1, Cat(c, WriteU32(v)))
  PROVE  /\ Stands(p, 1, c) /\ Cat(c, WriteU32(v)) \in Seq(Byte)
         /\ ReadU32(p, End(c)) = Read(v, End(Cat(c, WriteU32(v))))
<1> DEFINE b == WriteU32(v)
<1>1. b = LittleEndian(v, 4) /\ b \in Seq(Byte) /\ Len(b) = 4
  BY LittleEndianBytes DEF WriteU32
<1> HIDE DEF b
<1>2. /\ Stands(p, 1, c) /\ Stands(p, End(c), b) /\ End(c) \in Nat \ {0}
      /\ End(c) + Len(b) = End(Cat(c, b)) /\ Cat(c, b) \in Seq(Byte)
  BY <1>1, PartAt DEF b
<1>3. End(c) \in Nat /\ End(c) + 4 = End(Cat(c, b))
  BY ONLY <1>1, <1>2
<1>4. FromBytes(p, End(c), 4) = v
  BY <1>1, <1>2, <1>3, FourBytesReadBack, Zenon
<1> QED BY <1>2, <1>3, <1>4, Zenon DEF b, ReadU32

\* A length behind c.
LEMMA LengthPart ==
  ASSUME NEW p \in Seq(Byte), NEW c \in Seq(Byte), NEW v \in Nat, v < 2^16,
         Stands(p, 1, Cat(c, WriteLenEncode(v)))
  PROVE  /\ Stands(p, 1, c) /\ Cat(c, WriteLenEncode(v)) \in Seq(Byte)
         /\ ReadLenEncode(p, End(c)) = Read(v, End(Cat(c, WriteLenEncode(v))))
<1> DEFINE b == WriteLenEncode(v)
<1>1. b \in Seq(Byte)
  BY LenEncodeIsBytes
<1> HIDE DEF b
<1>2. /\ Stands(p, 1, c) /\ Stands(p, End(c), b) /\ End(c) \in Nat \ {0}
      /\ End(c) + Len(b) = End(Cat(c, b)) /\ Cat(c, b) \in Seq(Byte)
  BY <1>1, PartAt DEF b
<1>3. ReadLenEncode(p, End(c)) = Read(v, End(c) + Len(b))
  BY <1>2, LengthReadBack, Zenon DEF b
<1> QED BY <1>2, <1>3, Zenon DEF b

\* The parts of a column definition: strings and numbers.
FieldParts(def, db, tb, ot, nm, on, cs, cl, ty, fl, dc) ==
  /\ def \in Seq(Byte) /\ db \in Seq(Byte) /\ tb \in Seq(Byte) /\ ot \in Seq(Byte)
  /\ nm \in Seq(Byte) /\ on \in Seq(Byte)
  /\ Len(def) < 2^16 /\ Len(db) < 2^16 /\ Len(tb) < 2^16 /\ Len(ot) < 2^16
  /\ Len(nm) < 2^16 /\ Len(on) < 2^16
  /\ cs \in Nat /\ cs < 2^16 /\ cl \in Nat /\ cl < 2^24 /\ ty \in Byte
  /\ fl \in Nat /\ fl < 2^16 /\ dc \in Byte

\* Its bytes.
FieldBytes(def, db, tb, ot, nm, on, cs, cl, ty, fl, dc) ==
  Cat(Cat(Cat(Cat(Cat(Cat(Cat(Cat(Cat(Cat(Cat(Cat(
    WriteLenEncodeString(def), WriteLenEncodeString(db)), WriteLenEncodeString(tb)),
    WriteLenEncodeString(ot)), WriteLenEncodeString(nm)), WriteLenEncodeString(on)),
    WriteLenEncode(12)), WriteU16(cs)), WriteU32(cl)), WriteU8(ty)), WriteU16(fl)),
    WriteU8(dc)), WriteU16(0))

LEMMA NumbersAreBytes ==
  ASSUME NEW v \in Nat
  PROVE  WriteU8(v) \in Seq(Byte) /\ WriteU16(v) \in Seq(Byte) /\ WriteU32(v) \in Seq(Byte)
BY LittleEndianBytes DEF WriteU8, WriteU16, WriteU32

\* A column definition is read, part after part.
LEMMA FieldPartsRead ==
  ASSUME NEW def, NEW db, NEW tb, NEW ot, NEW nm, NEW on, NEW cs, NEW cl, NEW ty, NEW fl, NEW dc,
         FieldParts(def, db, tb, ot, nm, on, cs, cl, ty, fl, dc),
         NEW p, p = FieldBytes(def, db, tb, ot, nm, on, cs, cl, ty, fl, dc)
  PROVE  FieldUnPack(p) =
           [name |-> nm, type |-> MySQLToType(ty, fl), table |-> tb, orgTable |-> ot,
            dataBase |-> db, orgName |-> on, columnLength |-> cl, charset |-> cs, decimals |-> dc]
<1> DEFINE c1 == WriteLenEncodeString(def)
           c2 == Cat(c1, WriteLenEncodeString(db))
           c3 == Cat(c2, WriteLenEncodeString(tb))
           c4 == Cat(c3, WriteLenEncodeString(ot))
           c5 == Cat(c4, WriteLenEncodeString(nm))
           c6 == Cat(c5, WriteLenEncodeString(on))
           c7 == Cat(c6, WriteLenEncode(12))
           c8 == Cat(c7, WriteU16(cs))
           c9 == Cat(c8, WriteU32(cl))
           c10 == Cat(c9, WriteU8(ty))
           c11 == Cat(c10, WriteU16(fl))
           c12 == Cat(c11, WriteU8(dc))
           c13 == Cat(c12, WriteU16(0))
<1>1. p = c13
  BY Zenon DEF FieldBytes
<1> HIDE DEF c1, c2, c3, c4, c5, c6, c7, c8, c9, c10, c11, c12, c13
<1>2. 12 \in Nat /\ 12 < 2^16 /\ 0 \in Nat /\ 0 < 2^16 /\ 1 \in Nat \ {0} /\ 1 \in Nat
  BY SMT
<1>3. def \in Seq(Byte) /\ Len(def) < 2^16
  BY Zenon DEF FieldParts
<1>4. WriteLenEncodeString(def) \in Seq(Byte)
  BY ONLY <1>3, StringBytes
<1>5. db \in Seq(Byte) /\ Len(db) < 2^16
  BY Zenon DEF FieldParts
<1>6. WriteLenEncodeString(db) \in Seq(Byte)
  BY ONLY <1>5, StringBytes
<1>7. tb \in Seq(Byte) /\ Len(tb) < 2^16
  BY Zenon DEF FieldParts
<1>8. WriteLenEncodeString(tb) \in Seq(Byte)
  BY ONLY <1>7, StringBytes
<1>9. ot \in Seq(Byte) /\ Len(ot) < 2^16
  BY Zenon DEF FieldParts
<1>10. WriteLenEncodeString(ot) \in Seq(Byte)
  BY ONLY <1>9, StringBytes
<1>11. nm \in Seq(Byte) /\ Len(nm) < 2^16
  BY Zenon DEF FieldParts
<1>12. WriteLenEncodeString(nm) \in Seq(Byte)
  BY ONLY <1>11, StringBytes
<1>13. on \in Seq(Byte) /\ Len(on) < 2^16
  BY Zenon DEF FieldParts
<1>14. WriteLenEncodeString(on) \in Seq(Byte)
  BY ONLY <1>13, StringBytes
<1>15. WriteLenEncode(12) \in Seq(Byte)
  BY ONLY <1>2, LenEncodeIsBytes
<1>16. cs \in Nat /\ cs < 2^16
  BY Zenon DEF FieldParts
<1>17. WriteU16(cs) \in Seq(Byte)
  BY ONLY <1>16, NumbersAreBytes
<1>18. cl \in Nat /\ cl < 2^24
  BY Zenon DEF FieldParts
<1>19. WriteU32(cl) \in Seq(Byte)
  BY ONLY <1>18, NumbersAreBytes
<1>20. ty \in Byte
  BY Zenon DEF FieldParts
<1>21. ty \in Nat
  BY ONLY <1>20 DEF Byte
<1>22. WriteU8(ty) \in Seq(Byte)
  BY ONLY <1>21, NumbersAreBytes
<1>23. fl \in Nat /\ fl < 2^16
  BY Zenon DEF FieldParts
<1>24. WriteU16(fl) \in Seq(Byte)
  BY ONLY <1>23, NumbersAreBytes
<1>25. dc \in Byte
  BY Zenon DEF FieldParts
<1>26. dc \in Nat
  BY ONLY <1>25 DEF Byte
<1>27. WriteU8(dc) \in Seq(Byte)
  BY ONLY <1>26, NumbersAreBytes
<1>28. WriteU16(0) \in Seq(Byte)
  BY ONLY <1>2, NumbersAreBytes
<1>29. c1 \in Seq(Byte)
  BY <1>4 DEF c1
<1>30. c2 \in Seq(Byte)
  BY ONLY <1>6, <1>29, CatStands DEF c2
<1>31. c3 \in Seq(Byte)
  BY ONLY <1>8, <1>30, CatStands DEF c3
<1>32. c4 \in Seq(Byte)
  BY ONLY <1>10, <1>31, CatStands DEF c4
<1>33. c5 \in Seq(Byte)
  BY ONLY <1>12, <1>32, CatStands DEF c5
<1>34. c6 \in Seq(Byte)
  BY ONLY <1>14, <1>33, CatStands DEF c6
<1>35. c7 \in Seq(Byte)
  BY ONLY <1>15, <1>34, CatStands DEF c7
<1>36. c8 \in Seq(Byte)
  BY ONLY <1>17, <1>35, CatStands DEF c8
<1>37. c9 \in Seq(Byte)
  BY ONLY <1>19, <1>36, CatStands DEF c9
<1>38. c10 \in Seq(Byte)
  BY ONLY <1>22, <1>37, CatStands DEF c10
<1>39. c11 \in Seq(Byte)
  BY ONLY <1>24, <1>38, CatStands DEF c11
<1>40. c12 \in Seq(Byte)
  BY ONLY <1>27, <1>39, CatStands DEF c12
<1>41. c13 \in Seq(Byte)
  BY ONLY <1>28, <1>40, CatStands DEF c13
<1>42. p \in Seq(Byte) /\ Stands(p, 1, c13)
  BY ONLY <1>1, <1>41, StandsWhole
<1>43. Stands(p, 1, c12) /\ ReadU16(p, End(c12)) = Read(0, End(c13))
  BY ONLY <1>2, <1>42, <1>40, U16Part DEF c13
<1>44. Stands(p, 1, c11) /\ ReadU8(p, End(c11)) = Read(dc, End(c12))
  BY ONLY <1>42, <1>25, <1>43, <1>39, U8Part DEF c12
<1>45. Stands(p, 1, c10) /\ ReadU16(p, End(c10)) = Read(fl, End(c11))
  BY ONLY <1>42, <1>23, <1>44, <1>38, U16Part DEF c11
<1>46. Stands(p, 1, c9) /\ ReadU8(p, End(c9)) = Read(ty, End(c10))
  BY ONLY <1>42, <1>20, <1>45, <1>37, U8Part DEF c10
<1>47. Stands(p, 1, c8) /\ ReadU32(p, End(c8)) = Read(cl, End(c9))
  BY ONLY <1>42, <1>18, <1>46, <1>36, U32Part DEF c9
<1>48. Stands(p, 1, c7) /\ ReadU16(p, End(c7)) = Read(cs, End(c8))
  BY ONLY <1>42, <1>16, <1>47, <1>35, U16Part DEF c8
<1>49. Stands(p, 1, c6) /\ ReadLenEncode(p, End(c6)) = Read(12, End(c7))
  BY ONLY <1>42, <1>2, <1>48, <1>34, LengthPart DEF c7
<1>50. Stands(p, 1, c5) /\ ReadLenEncodeString(p, End(c5)) = Read(on, End(c6))
  BY ONLY <1>42, <1>13, <1>49, <1>33, TextPart DEF c6
<1>51. Stands(p, 1, c4) /\ ReadLenEncodeString(p, End(c4)) = Read(nm, End(c5))
  BY ONLY <1>42, <1>11, <1>50, <1>32, TextPart DEF c5
<1>52. Stands(p, 1, c3) /\ ReadLenEncodeString(p, End(c3)) = Read(ot, End(c4))
  BY ONLY <1>42, <1>9, <1>51, <1>31, TextPart DEF c4
<1>53. Stands(p, 1, c2) /\ ReadLenEncodeString(p, End(c2)) = Read(tb, End(c3))
  BY ONLY <1>42, <1>7, <1>52, <1>30, TextPart DEF c3
<1>54. Stands(p, 1, c1) /\ ReadLenEncodeString(p, End(c1)) = Read(db, End(c2))
  BY ONLY <1>42, <1>5, <1>53, <1>29, TextPart DEF c2
<1>55. ReadLenEncodeString(p, 1) = Read(def, End(c1))
  BY ONLY <1>2, <1>3, <1>42, <1>54, TextReadBack DEF c1, End
<1> DEFINE catalog == ReadLenEncodeString(p, 1)
           dataBase == ReadLenEncodeString(p, catalog.at)
           table == ReadLenEncodeString(p, dataBase.at)
           orgTable == ReadLenEncodeString(p, table.at)
           name == ReadLenEncodeString(p, orgTable.at)
           orgName == ReadLenEncodeString(p, name.at)
           fixed == ReadLenEncode(p, orgName.at)
           charset == ReadU16(p, fixed.at)
           columnLength == ReadU32(p, charset.at)
           t == ReadU8(p, columnLength.at)
           flags == ReadU16(p, t.at)
           decimals == ReadU8(p, flags.at)
<1>56. FieldUnPack(p) =
        [name |-> name.val, type |-> MySQLToType(t.val, flags.val), table |-> table.val,
         orgTable |-> orgTable.val, dataBase |-> dataBase.val, orgName |-> orgName.val,
         columnLength |-> columnLength.val, charset |-> charset.val, decimals |-> decimals.val]
  BY Zenon DEF FieldUnPack
<1> HIDE DEF catalog, dataBase, table, orgTable, name, orgName, fixed, charset, columnLength, t,
             flags, decimals
<1>57. catalog.val = def /\ catalog.at = End(c1)
  BY ONLY <1>55, ReadParts DEF catalog
<1>58. dataBase.val = db /\ dataBase.at = End(c2)
  BY ONLY <1>57, <1>54, ReadParts DEF dataBase
<1>59. table.val = tb /\ table.at = End(c3)
  BY ONLY <1>58, <1>53, ReadParts DEF table
<1>60. orgTable.val = ot /\ orgTable.at = End(c4)
  BY ONLY <1>59, <1>52, ReadParts DEF orgTable
<1>61. name.val = nm /\ name.at = End(c5)
  BY ONLY <1>60, <1>51, ReadParts DEF name
<1>62. orgName.val = on /\ orgName.at = End(c6)
  BY ONLY <1>61, <1>50, ReadParts DEF orgName
<1>63. fixed.val = 12 /\ fixed.at = End(c7)
  BY ONLY <1>62, <1>49, ReadParts DEF fixed
<1>64. charset.val = cs /\ charset.at = End(c8)
  BY ONLY <1>63, <1>48, ReadParts DEF charset
<1>65. columnLength.val = cl /\ columnLength.at = End(c9)
  BY ONLY <1>64, <1>47, ReadParts DEF columnLength
<1>66. t.val = ty /\ t.at = End(c10)
  BY ONLY <1>65, <1>46, ReadParts DEF t
<1>67. flags.val = fl /\ flags.at = End(c11)
  BY ONLY <1>66, <1>45, ReadParts DEF flags
<1>68. decimals.val = dc /\ decimals.at = End(c12)
  BY ONLY <1>67, <1>44, ReadParts DEF decimals
<1> QED
  BY ONLY <1>56, <1>57, <1>58, <1>59, <1>60, <1>61, <1>62, <1>63, <1>64, <1>65, <1>66, <1>67, <1>68

\* The bits of the flags of a type.
LEMMA FlagBits ==
  /\ ~HasFlag(0, 5) /\ ~HasFlag(0, 7) /\ ~HasFlag(0, 8) /\ ~HasFlag(0, 11)
  /\ HasFlag(32, 5) /\ ~HasFlag(32, 7)
  /\ ~HasFlag(128, 5) /\ HasFlag(128, 7)
  /\ ~HasFlag(256, 5) /\ ~HasFlag(256, 7) /\ HasFlag(256, 8)
  /\ ~HasFlag(2048, 5) /\ ~HasFlag(2048, 7) /\ ~HasFlag(2048, 8) /\ HasFlag(2048, 11)
<1>1. 2^5 = 32 /\ 2^7 = 128 /\ 2^8 = 256 /\ 2^11 = 2048
  BY SMT
<1>2. /\ (0 \div 32) % 2 = 0 /\ (0 \div 128) % 2 = 0 /\ (0 \div 256) % 2 = 0 /\ (0 \div 2048) % 2 = 0
      /\ (32 \div 32) % 2 = 1 /\ (32 \div 128) % 2 = 0
      /\ (128 \div 32) % 2 = 0 /\ (128 \div 128) % 2 = 1
      /\ (256 \div 32) % 2 = 0 /\ (256 \div 128) % 2 = 0 /\ (256 \div 256) % 2 = 1
      /\ (2048 \div 32) % 2 = 0 /\ (2048 \div 128) % 2 = 0 /\ (2048 \div 256) % 2 = 0
      /\ (2048 \div 2048) % 2 = 1
  BY SMT
<1> QED BY <1>1, <1>2 DEF HasFlag

\* The type a code stands for, before its flags are looked at.
LEMMA CodeTypes ==
  /\ MYSQL_TO_TYPE_MAP(1) = "INT8" /\ MYSQL_TO_TYPE_MAP(2) = "INT16"
  /\ MYSQL_TO_TYPE_MAP(3) = "INT32" /\ MYSQL_TO_TYPE_MAP(4) = "FLOAT32"
  /\ MYSQL_TO_TYPE_MAP(5) = "FLOAT64" /\ MYSQL_TO_TYPE_MAP(6) = "NULL_TYPE"
  /\ MYSQL_TO_TYPE_MAP(7) = "TIMESTAMP" /\ MYSQL_TO_TYPE_MAP(8) = "INT64"
  /\ MYSQL_TO_TYPE_MAP(9) = "INT24" /\ MYSQL_TO_TYPE_MAP(10) = "DATE"
  /\ MYSQL_TO_TYPE_MAP(11) = "TIME" /\ MYSQL_TO_TYPE_MAP(12) = "DATETIME"
  /\ MYSQL_TO_TYPE_MAP(13) = "YEAR" /\ MYSQL_TO_TYPE_MAP(16) = "BIT"
  /\ MYSQL_TO_TYPE_MAP(245) = "JSON" /\ MYSQL_TO_TYPE_MAP(246) = "DECIMAL"
  /\ MYSQL_TO_TYPE_MAP(252) = "TEXT" /\ MYSQL_TO_TYPE_MAP(253) = "VARCHAR"
  /\ MYSQL_TO_TYPE_MAP(254) = "CHAR" /\ MYSQL_TO_TYPE_MAP(255) = "GEOMETRY"
BY DEF MYSQL_TO_TYPE_MAP

\* The three ways a code and its flags give a type.
LEMMA PlainType ==
  ASSUME NEW code, NEW flags, NEW typ, MYSQL_TO_TYPE_MAP(code) = typ,
         typ \in DOMAIN UnsignedOf => ~HasFlag(flags, 5),
         typ \in DOMAIN BinaryOf => ~HasFlag(flags, 7),
         typ = "CHAR" => ~HasFlag(flags, 8) /\ ~HasFlag(flags, 11)
  PROVE  MySQLToType(code, flags) = typ
BY Zenon DEF MySQLToType

LEMMA UnsignedType ==
  ASSUME NEW code, NEW flags, NEW typ, MYSQL_TO_TYPE_MAP(code) = typ,
         typ \in DOMAIN UnsignedOf, typ \notin DOMAIN BinaryOf, typ # "CHAR", HasFlag(flags, 5)
  PROVE  MySQLToType(code, flags) = UnsignedOf[typ]
BY Zenon DEF MySQLToType

LEMMA BinaryType ==
  ASSUME NEW code, NEW flags, NEW typ, MYSQL_TO_TYPE_MAP(code) = typ,
         typ \in DOMAIN BinaryOf, typ \notin DOMAIN UnsignedOf, HasFlag(flags, 7)
  PROVE  MySQLToType(code, flags) = BinaryOf[typ]
BY Zenon DEF MySQLToType

LEMMA CharTypes ==
  ASSUME NEW code, NEW flags, MYSQL_TO_TYPE_MAP(code) = "CHAR", ~HasFlag(flags, 7)
  PROVE  /\ HasFlag(flags, 8) => MySQLToType(code, flags) = "ENUM"
         /\ ~HasFlag(flags, 8) /\ HasFlag(flags, 11) => MySQLToType(code, flags) = "SET"
<1>1. "CHAR" \notin DOMAIN UnsignedOf
  BY DEF UnsignedOf
<1>2. ASSUME HasFlag(flags, 8) PROVE MySQLToType(code, flags) = "ENUM"
  BY <1>1, <1>2, Zenon DEF MySQLToType
<1>3. ASSUME ~HasFlag(flags, 8), HasFlag(flags, 11) PROVE MySQLToType(code, flags) = "SET"
  BY <1>1, <1>3, Zenon DEF MySQLToType
<1> QED BY <1>2, <1>3

\* The types, their codes and flags.
TypeNames ==
  {"INT8", "UINT8", "INT16", "UINT16", "INT32", "UINT32", "FLOAT32", "FLOAT64",
   "NULL_TYPE", "TIMESTAMP", "INT64", "UINT64", "INT24", "UINT24", "DATE", "TIME",
   "DATETIME", "YEAR", "BIT", "JSON", "DECIMAL", "TEXT", "BLOB", "VARCHAR",
   "VARBINARY", "CHAR", "BINARY", "ENUM", "SET", "GEOMETRY"}

\* t has code typ and flags, and is read back from them.
TypeCoded(t, typ, flags) ==
  /\ TYPE_TO_MYSQL[t].typ = typ /\ TYPE_TO_MYSQL[t].flags = flags
  /\ MySQLToType(typ, flags) = t

LEMMA TypesCoded ==
  /\ TypeCoded("INT8", 1, 0) /\ TypeCoded("UINT8", 1, 32)
  /\ TypeCoded("INT16", 2, 0) /\ TypeCoded("UINT16", 2, 32)
  /\ TypeCoded("INT32", 3, 0) /\ TypeCoded("UINT32", 3, 32)
  /\ TypeCoded("FLOAT32", 4, 0) /\ TypeCoded("FLOAT64", 5, 0)
  /\ TypeCoded("NULL_TYPE", 6, 128) /\ TypeCoded("TIMESTAMP", 7, 0)
  /\ TypeCoded("INT64", 8, 0) /\ TypeCoded("UINT64", 8, 32)
  /\ TypeCoded("INT24", 9, 0) /\ TypeCoded("UINT24", 9, 32)
  /\ TypeCoded("DATE", 10, 128) /\ TypeCoded("TIME", 11, 128)
  /\ TypeCoded("DATETIME", 12, 128) /\ TypeCoded("YEAR", 13, 32)
  /\ TypeCoded("BIT", 16, 32) /\ TypeCoded("JSON", 245, 0)
  /\ TypeCoded("DECIMAL", 246, 0) /\ TypeCoded("TEXT", 252, 0)
  /\ TypeCoded("BLOB", 252, 128) /\ TypeCoded("VARCHAR", 253, 0)
  /\ TypeCoded("VARBINARY", 253, 128) /\ TypeCoded("CHAR", 254, 0)
  /\ TypeCoded("BINARY", 254, 128) /\ TypeCoded("ENUM", 254, 256)
  /\ TypeCoded("SET", 254, 2048) /\ TypeCoded("GEOMETRY", 255, 0)
<1>1. DOMAIN UnsignedOf = {"INT8", "INT16", "INT32", "INT64", "INT24"}
  BY DEF UnsignedOf
<1>2. DOMAIN BinaryOf = {"TEXT", "VARCHAR", "CHAR"}
  BY DEF BinaryOf
<1>3. /\ UnsignedOf["INT8"] = "UINT8" /\ UnsignedOf["INT16"] = "UINT16" /\ UnsignedOf["INT32"] = "UINT32"
      /\ UnsignedOf["INT64"] = "UINT64" /\ UnsignedOf["INT24"] = "UINT24"
  BY DEF UnsignedOf
<1>4. BinaryOf["TEXT"] = "BLOB" /\ BinaryOf["VARCHAR"] = "VARBINARY" /\ BinaryOf["CHAR"] = "BINARY"
  BY DEF BinaryOf
<1>5. MySQLToType(1, 0) = "INT8"
  BY ONLY <1>1, <1>2, CodeTypes, FlagBits, PlainType
<1>6. MySQLToType(1, 32) = "UINT8"
  BY ONLY <1>1, <1>2, <1>3, CodeTypes, FlagBits, UnsignedType
<1>7. MySQLToType(2, 0) = "INT16"
  BY ONLY <1>1, <1>2, CodeTypes, FlagBits, PlainType
<1>8. MySQLToType(2, 32) = "UINT16"
  BY ONLY <1>1, <1>2, <1>3, CodeTypes, FlagBits, UnsignedType
<1>9. MySQLToType(3, 0) = "INT32"
  BY ONLY <1>1, <1>2, CodeTypes, FlagBits, PlainType
<1>10. MySQLToType(3, 32) = "UINT32"
  BY ONLY <1>1, <1>2, <1>3, CodeTypes, FlagBits, UnsignedType
<1>11. MySQLToType(4, 0) = "FLOAT32"
  BY ONLY <1>1, <1>2, CodeTypes, FlagBits, PlainType
<1>12. MySQLToType(5, 0) = "FLOAT64"
  BY ONLY <1>1, <1>2, CodeTypes, FlagBits, PlainType
<1>13. MySQLToType(6, 128) = "NULL_TYPE"
  BY ONLY <1>1, <1>2, CodeTypes, FlagBits, PlainType
<1>14. MySQLToType(7, 0) = "TIMESTAMP"
  BY ONLY <1>1, <1>2, CodeTypes, FlagBits, PlainType
<1>15. MySQLToType(8, 0) = "INT64"
  BY ONLY <1>1, <1>2, CodeTypes, FlagBits, PlainType
<1>16. MySQLToType(8, 32) = "UINT64"
  BY ONLY <1>1, <1>2, <1>3, CodeTypes, FlagBits, UnsignedType
<1>17. MySQLToType(9, 0) = "INT24"
  BY ONLY <1>1, <1>2, CodeTypes, FlagBits, PlainType
<1>18. MySQLToType(9, 32) = "UINT24"
  BY ONLY <1>1, <1>2, <1>3, CodeTypes, FlagBits, UnsignedType
<1>19. MySQLToType(10, 128) = "DATE"
  BY ONLY <1>1, <1>2, CodeTypes, FlagBits, PlainType
<1>20. MySQLToType(11, 128) = "TIME"
  BY ONLY <1>1, <1>2, CodeTypes, FlagBits, PlainType
<1>21. MySQLToType(12, 128) = "DATETIME"
  BY ONLY <1>1, <1>2, CodeTypes, FlagBits, PlainType
<1>22. MySQLToType(13, 32) = "YEAR"
  BY ONLY <1>1, <1>2, CodeTypes, FlagBits, PlainType
<1>23. MySQLToType(16, 32) = "BIT"
  BY ONLY <1>1, <1>2, CodeTypes, FlagBits, PlainType
<1>24. MySQLToType(245, 0) = "JSON"
  BY ONLY <1>1, <1>2, CodeTypes, FlagBits, PlainType
<1>25. MySQLToType(246, 0) = "DECIMAL"
  BY ONLY <1>1, <1>2, CodeTypes, FlagBits, PlainType
<1>26. MySQLToType(252, 0) = "TEXT"
  BY ONLY <1>1, <1>2, CodeTypes, FlagBits, PlainType
<1>27. MySQLToType(252, 128) = "BLOB"
  BY ONLY <1>1, <1>2, <1>4, CodeTypes, FlagBits, BinaryType
<1>28. MySQLToType(253, 0) = "VARCHAR"
  BY ONLY <1>1, <1>2, CodeTypes, FlagBits, PlainType
<1>29. MySQLToType(253, 128) = "VARBINARY"
  BY ONLY <1>1, <1>2, <1>4, CodeTypes, FlagBits, BinaryType
<1>30. MySQLToType(254, 0) = "CHAR"
  BY ONLY <1>1, <1>2, CodeTypes, FlagBits, PlainType
<1>31. MySQLToType(254, 128) = "BINARY"
  BY ONLY <1>1, <1>2, <1>4, CodeTypes, FlagBits, BinaryType
<1>32. MySQLToType(254, 256) = "ENUM"
  BY ONLY CodeTypes, FlagBits, CharTypes
<1>33. MySQLToType(254, 2048) = "SET"
  BY ONLY CodeTypes, FlagBits, CharTypes
<1>34. MySQLToType(255, 0) = "GEOMETRY"
  BY ONLY <1>1, <1>2, CodeTypes, FlagBits, PlainType
<1>35. TYPE_TO_MYSQL["INT8"].typ = 1 /\ TYPE_TO_MYSQL["INT8"].flags = 0
  BY DEF TYPE_TO_MYSQL, MySQLCode, MYSQL_UNSIGNED, MYSQL_BINARY, MYSQL_ENUM, MYSQL_SET
<1>36. TYPE_TO_MYSQL["UINT8"].typ = 1 /\ TYPE_TO_MYSQL["UINT8"].flags = 32
  BY DEF TYPE_TO_MYSQL, MySQLCode, MYSQL_UNSIGNED, MYSQL_BINARY, MYSQL_ENUM, MYSQL_SET
<1>37. TYPE_TO_MYSQL["INT16"].typ = 2 /\ TYPE_TO_MYSQL["INT16"].flags = 0
  BY DEF TYPE_TO_MYSQL, MySQLCode, MYSQL_UNSIGNED, MYSQL_BINARY, MYSQL_ENUM, MYSQL_SET
<1>38. TYPE_TO_MYSQL["UINT16"].typ = 2 /\ TYPE_TO_MYSQL["UINT16"].flags = 32
  BY DEF TYPE_TO_MYSQL, MySQLCode, MYSQL_UNSIGNED, MYSQL_BINARY, MYSQL_ENUM, MYSQL_SET
<1>39. TYPE_TO_MYSQL["INT32"].typ = 3 /\ TYPE_TO_MYSQL["INT32"].flags = 0
  BY DEF TYPE_TO_MYSQL, MySQLCode, MYSQL_UNSIGNED, MYSQL_BINARY, MYSQL_ENUM, MYSQL_SET
<1>40. TYPE_TO_MYSQL["UINT32"].typ = 3 /\ TYPE_TO_MYSQL["UINT32"].flags = 32
  BY DEF TYPE_TO_MYSQL, MySQLCode, MYSQL_UNSIGNED, MYSQL_BINARY, MYSQL_ENUM, MYSQL_SET
<1>41. TYPE_TO_MYSQL["FLOAT32"].typ = 4 /\ TYPE_TO_MYSQL["FLOAT32"].flags = 0
  BY DEF TYPE_TO_MYSQL, MySQLCode, MYSQL_UNSIGNED, MYSQL_BINARY, MYSQL_ENUM, MYSQL_SET
<1>42. TYPE_TO_MYSQL["FLOAT64"].typ = 5 /\ TYPE_TO_MYSQL["FLOAT64"].flags = 0
  BY DEF TYPE_TO_MYSQL, MySQLCode, MYSQL_UNSIGNED, MYSQL_BINARY, MYSQL_ENUM, MYSQL_SET
<1>43. TYPE_TO_MYSQL["NULL_TYPE"].typ = 6 /\ TYPE_TO_MYSQL["NULL_TYPE"].flags = 128
  BY DEF TYPE_TO_MYSQL, MySQLCode, MYSQL_UNSIGNED, MYSQL_BINARY, MYSQL_ENUM, MYSQL_SET
<1>44. TYPE_TO_MYSQL["TIMESTAMP"].typ = 7 /\ TYPE_TO_MYSQL["TIMESTAMP"].flags = 0
  BY DEF TYPE_TO_MYSQL, MySQLCode, MYSQL_UNSIGNED, MYSQL_BINARY, MYSQL_ENUM, MYSQL_SET
<1>45. TYPE_TO_MYSQL["INT64"].typ = 8 /\ TYPE_TO_MYSQL["INT64"].flags = 0
  BY DEF TYPE_TO_MYSQL, MySQLCode, MYSQL_UNSIGNED, MYSQL_BINARY, MYSQL_ENUM, MYSQL_SET
<1>46. TYPE_TO_MYSQL["UINT64"].typ = 8 /\ TYPE_TO_MYSQL["UINT64"].flags = 32
  BY DEF TYPE_TO_MYSQL, MySQLCode, MYSQL_UNSIGNED, MYSQL_BINARY, MYSQL_ENUM, MYSQL_SET
<1>47. TYPE_TO_MYSQL["INT24"].typ = 9 /\ TYPE_TO_MYSQL["INT24"].flags = 0
  BY DEF TYPE_TO_MYSQL, MySQLCode, MYSQL_UNSIGNED, MYSQL_BINARY, MYSQL_ENUM, MYSQL_SET
<1>48. TYPE_TO_MYSQL["UINT24"].typ = 9 /\ TYPE_TO_MYSQL["UINT24"].flags = 32
  BY DEF TYPE_TO_MYSQL, MySQLCode, MYSQL_UNSIGNED, MYSQL_BINARY, MYSQL_ENUM, MYSQL_SET
<1>49. TYPE_TO_MYSQL["DATE"].typ = 10 /\ TYPE_TO_MYSQL["DATE"].flags = 128
  BY DEF TYPE_TO_MYSQL, MySQLCode, MYSQL_UNSIGNED, MYSQL_BINARY, MYSQL_ENUM, MYSQL_SET
<1>50. TYPE_TO_MYSQL["TIME"].typ = 11 /\ TYPE_TO_MYSQL["TIME"].flags = 128
  BY DEF TYPE_TO_MYSQL, MySQLCode, MYSQL_UNSIGNED, MYSQL_BINARY, MYSQL_ENUM, MYSQL_SET
<1>51. TYPE_TO_MYSQL["DATETIME"].typ = 12 /\ TYPE_TO_MYSQL["DATETIME"].flags = 128
  BY DEF TYPE_TO_MYSQL, MySQLCode, MYSQL_UNSIGNED, MYSQL_BINARY, MYSQL_ENUM, MYSQL_SET
<1>52. TYPE_TO_MYSQL["YEAR"].typ = 13 /\ TYPE_TO_MYSQL["YEAR"].flags = 32
  BY DEF TYPE_TO_MYSQL, MySQLCode, MYSQL_UNSIGNED, MYSQL_BINARY, MYSQL_ENUM, MYSQL_SET
<1>53. TYPE_TO_MYSQL["BIT"].typ = 16 /\ TYPE_TO_MYSQL["BIT"].flags = 32
  BY DEF TYPE_TO_MYSQL, MySQLCode, MYSQL_UNSIGNED, MYSQL_BINARY, MYSQL_ENUM, MYSQL_SET
<1>54. TYPE_TO_MYSQL["JSON"].typ = 245 /\ TYPE_TO_MYSQL["JSON"].flags = 0
  BY DEF TYPE_TO_MYSQL, MySQLCode, MYSQL_UNSIGNED, MYSQL_BINARY, MYSQL_ENUM, MYSQL_SET
<1>55. TYPE_TO_MYSQL["DECIMAL"].typ = 246 /\ TYPE_TO_MYSQL["DECIMAL"].flags = 0
  BY DEF TYPE_TO_MYSQL, MySQLCode, MYSQL_UNSIGNED, MYSQL_BINARY, MYSQL_ENUM, MYSQL_SET
<1>56. TYPE_TO_MYSQL["TEXT"].typ = 252 /\ TYPE_TO_MYSQL["TEXT"].flags = 0
  BY DEF TYPE_TO_MYSQL, MySQLCode, MYSQL_UNSIGNED, MYSQL_BINARY, MYSQL_ENUM, MYSQL_SET
<1>57. TYPE_TO_MYSQL["BLOB"].typ = 252 /\ TYPE_TO_MYSQL["BLOB"].flags = 128
  BY DEF TYPE_TO_MYSQL, MySQLCode, MYSQL_UNSIGNED, MYSQL_BINARY, MYSQL_ENUM, MYSQL_SET
<1>58. TYPE_TO_MYSQL["VARCHAR"].typ = 253 /\ TYPE_TO_MYSQL["VARCHAR"].flags = 0
  BY DEF TYPE_TO_MYSQL, MySQLCode, MYSQL_UNSIGNED, MYSQL_BINARY, MYSQL_ENUM, MYSQL_SET
<1>59. TYPE_TO_MYSQL["VARBINARY"].typ = 253 /\ TYPE_TO_MYSQL["VARBINARY"].flags = 128
  BY DEF TYPE_TO_MYSQL, MySQLCode, MYSQL_UNSIGNED, MYSQL_BINARY, MYSQL_ENUM, MYSQL_SET
<1>60. TYPE_TO_MYSQL["CHAR"].typ = 254 /\ TYPE_TO_MYSQL["CHAR"].flags = 0
  BY DEF TYPE_TO_MYSQL, MySQLCode, MYSQL_UNSIGNED, MYSQL_BINARY, MYSQL_ENUM, MYSQL_SET
<1>61. TYPE_TO_MYSQL["BINARY"].typ = 254 /\ TYPE_TO_MYSQL["BINARY"].flags = 128
  BY DEF TYPE_TO_MYSQL, MySQLCode, MYSQL_UNSIGNED, MYSQL_BINARY, MYSQL_ENUM, MYSQL_SET
<1>62. TYPE_TO_MYSQL["ENUM"].typ = 254 /\ TYPE_TO_MYSQL["ENUM"].flags = 256
  BY DEF TYPE_TO_MYSQL, MySQLCode, MYSQL_UNSIGNED, MYSQL_BINARY, MYSQL_ENUM, MYSQL_SET
<1>63. TYPE_TO_MYSQL["SET"].typ = 254 /\ TYPE_TO_MYSQL["SET"].flags = 2048
  BY DEF TYPE_TO_MYSQL, MySQLCode, MYSQL_UNSIGNED, MYSQL_BINARY, MYSQL_ENUM, MYSQL_SET
<1>64. TYPE_TO_MYSQL["GEOMETRY"].typ = 255 /\ TYPE_TO_MYSQL["GEOMETRY"].flags = 0
  BY DEF TYPE_TO_MYSQL, MySQLCode, MYSQL_UNSIGNED, MYSQL_BINARY, MYSQL_ENUM, MYSQL_SET
<1>65. TypeCoded("INT8", 1, 0)
  BY <1>5, <1>35 DEF TypeCoded
<1>66. TypeCoded("UINT8", 1, 32)
  BY <1>6, <1>36 DEF TypeCoded
<1>67. TypeCoded("INT16", 2, 0)
  BY <1>7, <1>37 DEF TypeCoded
<1>68. TypeCoded("UINT16", 2, 32)
  BY <1>8, <1>38 DEF TypeCoded
<1>69. TypeCoded("INT32", 3, 0)
  BY <1>9, <1>39 DEF TypeCoded
<1>70. TypeCoded("UINT32", 3, 32)
  BY <1>10, <1>40 DEF TypeCoded
<1>71. TypeCoded("FLOAT32", 4, 0)
  BY <1>11, <1>41 DEF TypeCoded
<1>72. TypeCoded("FLOAT64", 5, 0)
  BY <1>12, <1>42 DEF TypeCoded
<1>73. TypeCoded("NULL_TYPE", 6, 128)
  BY <1>13, <1>43 DEF TypeCoded
<1>74. TypeCoded("TIMESTAMP", 7, 0)
  BY <1>14, <1>44 DEF TypeCoded
<1>75. TypeCoded("INT64", 8, 0)
  BY <1>15, <1>45 DEF TypeCoded
<1>76. TypeCoded("UINT64", 8, 32)
  BY <1>16, <1>46 DEF TypeCoded
<1>77. TypeCoded("INT24", 9, 0)
  BY <1>17, <1>47 DEF TypeCoded
<1>78. TypeCoded("UINT24", 9, 32)
  BY <1>18, <1>48 DEF TypeCoded
<1>79. TypeCoded("DATE", 10, 128)
  BY <1>19, <1>49 DEF TypeCoded
<1>80. TypeCoded("TIME", 11, 128)
  BY <1>20, <1>50 DEF TypeCoded
<1>81. TypeCoded("DATETIME", 12, 128)
  BY <1>21, <1>51 DEF TypeCoded
<1>82. TypeCoded("YEAR", 13, 32)
  BY <1>22, <1>52 DEF TypeCoded
<1>83. TypeCoded("BIT", 16, 32)
  BY <1>23, <1>53 DEF TypeCoded
<1>84. TypeCoded("JSON", 245, 0)
  BY <1>24, <1>54 DEF TypeCoded
<1>85. TypeCoded("DECIMAL", 246, 0)
  BY <1>25, <1>55 DEF TypeCoded
<1>86. TypeCoded("TEXT", 252, 0)
  BY <1>26, <1>56 DEF TypeCoded
<1>87. TypeCoded("BLOB", 252, 128)
  BY <1>27, <1>57 DEF TypeCoded
<1>88. TypeCoded("VARCHAR", 253, 0)
  BY <1>28, <1>58 DEF TypeCoded
<1>89. TypeCoded("VARBINARY", 253, 128)
  BY <1>29, <1>59 DEF TypeCoded
<1>90. TypeCoded("CHAR", 254, 0)
  BY <1>30, <1>60 DEF TypeCoded
<1>91. TypeCoded("BINARY", 254, 128)
  BY <1>31, <1>61 DEF TypeCoded
<1>92. TypeCoded("ENUM", 254, 256)
  BY <1>32, <1>62 DEF TypeCoded
<1>93. TypeCoded("SET", 254, 2048)
  BY <1>33, <1>63 DEF TypeCoded
<1>94. TypeCoded("GEOMETRY", 255, 0)
  BY <1>34, <1>64 DEF TypeCoded
<1> QED
  BY ONLY <1>65, <1>66, <1>67, <1>68, <1>69, <1>70, <1>71, <1>72, <1>73, <1>74, <1>75, <1>76,
          <1>77, <1>78, <1>79, <1>80, <1>81, <1>82, <1>83, <1>84, <1>85, <1>86, <1>87, <1>88,
          <1>89, <1>90, <1>91, <1>92, <1>93, <1>94

\* Every type fits a byte of code and two of flags and is read back from them.
LEMMA TypeReadBack ==
  ASSUME NEW t \in DOMAIN TYPE_TO_MYSQL
  PROVE  /\ TYPE_TO_MYSQL[t].typ \in Byte /\ TYPE_TO_MYSQL[t].flags \in Nat
         /\ TYPE_TO_MYSQL[t].flags < 2^16
         /\ MySQLToType(TYPE_TO_MYSQL[t].typ, TYPE_TO_MYSQL[t].flags) = t
<1>1. t \in TypeNames
  BY DEF TYPE_TO_MYSQL, TypeNames
<1>3. PICK typ \in 0..255, flags \in {0, 32, 128, 256, 2048} : TypeCoded(t, typ, flags)
  <2>1. /\ 0 \in {0, 32, 128, 256, 2048} /\ 32 \in {0, 32, 128, 256, 2048}
        /\ 128 \in {0, 32, 128, 256, 2048} /\ 256 \in {0, 32, 128, 256, 2048}
        /\ 2048 \in {0, 32, 128, 256, 2048}
    OBVIOUS
  <2>2. {1, 2, 3, 4, 5, 6, 7, 8, 9, 10, 11, 12, 13, 16, 245, 246, 252, 253, 254, 255} \subseteq 0..255
    OBVIOUS
  <2> QED BY <1>1, <2>1, <2>2, TypesCoded DEF TypeNames
<1>4. TYPE_TO_MYSQL[t].typ = typ /\ TYPE_TO_MYSQL[t].flags = flags /\ MySQLToType(typ, flags) = t
  BY <1>3 DEF TypeCoded
<1>5. flags \in Nat /\ flags < 2^16 /\ typ \in Byte
  BY SMT DEF Byte
<1>6. MySQLToType(TYPE_TO_MYSQL[t].typ, TYPE_TO_MYSQL[t].flags) = t
  BY ONLY <1>4
<1>7. TYPE_TO_MYSQL[t].typ \in Byte
  BY ONLY <1>4, <1>5
<1>8. TYPE_TO_MYSQL[t].flags \in Nat /\ TYPE_TO_MYSQL[t].flags < 2^16
  BY ONLY <1>4, <1>5
<1> QED BY <1>6, <1>7, <1>8

\* A column of any type is unpacked as it was packed.
LEMMA FieldUnPacked ==
  ASSUME NEW db \in Seq(Byte), NEW tb \in Seq(Byte), NEW col \in Seq(Byte),
         Len(db) < 2^16, Len(tb) < 2^16, Len(col) < 2^16, NEW t \in DOMAIN TYPE_TO_MYSQL
  PROVE  FieldUnPack(FieldPack([TextField(db, tb, col) EXCEPT !.type = t]))
           = [TextField(db, tb, col) EXCEPT !.type = t]
<1> DEFINE def == <<100, 101, 102>>
           f == [TextField(db, tb, col) EXCEPT !.type = t]
           typ == TYPE_TO_MYSQL[t].typ
           flags == TYPE_TO_MYSQL[t].flags
           p == FieldPack(f)
<1>1. f = [name |-> col, type |-> t, table |-> tb, orgTable |-> tb, dataBase |-> db,
           orgName |-> col, columnLength |-> 80, charset |-> 33, decimals |-> 0]
  BY ONLY SMT DEF TextField
<1> HIDE DEF f
<1>2. f.type = t /\ f.dataBase = db /\ f.table = tb /\ f.orgTable = tb
      /\ f.name = col /\ f.orgName = col /\ f.charset = 33
      /\ f.columnLength = 80 /\ f.decimals = 0
  BY <1>1
<1>3. p = FieldBytes(def, db, tb, tb, col, col, 33, 80, typ, flags, 0)
  BY ONLY <1>2, Zenon DEF FieldPack, FieldBytes, Cat
<1>4. typ \in Byte /\ flags \in Nat /\ flags < 2^16 /\ MySQLToType(typ, flags) = t
  BY TypeReadBack
<1>5. def \in Seq(Byte) /\ Len(def) = 3
  BY DEF Byte
<1>6. 3 < 2^16 /\ 33 \in Nat /\ 33 < 2^16 /\ 80 \in Nat /\ 80 < 2^24 /\ 0 \in Byte
  BY SMT DEF Byte
<1> HIDE DEF def, typ, flags, p
<1>7. Len(def) < 2^16
  BY <1>5, <1>6, Zenon
<1>8. FieldParts(def, db, tb, tb, col, col, 33, 80, typ, flags, 0)
  BY <1>4, <1>5, <1>6, <1>7, Zenon DEF FieldParts
<1>9. FieldUnPack(p) = [name |-> col, type |-> MySQLToType(typ, flags), table |-> tb, orgTable |-> tb,
                        dataBase |-> db, orgName |-> col, columnLength |-> 80, charset |-> 33,
                        decimals |-> 0]
  BY ONLY <1>3, <1>8, FieldPartsRead
<1> QED BY ONLY <1>1, <1>4, <1>9 DEF p, f

\* The columns of a result set are unpacked, of the type sent and of any other.
LEMMA ColumnUnPacked ==
  ASSUME NEW reply \in RowReplies, reply \notin Unfit, NEW i \in 1..Len(reply.columns)
  PROVE  /\ FieldUnPack(ResultSet(reply)[i + 1]) = FieldOf(reply, i)
         /\ TypesReadBack(FieldOf(reply, i))
<1> DEFINE db == reply.database
           tb == reply.table
           col == reply.columns[i]
           f == FieldOf(reply, i)
<1>1. db \in Seq(Byte) /\ tb \in Seq(Byte) /\ col \in Seq(Byte)
      /\ Len(reply.columns) \in Nat /\ Len(reply.rows) \in Nat
  BY RowRepliesAreTables, TableShape
<1>2. Len(db) < 2^16 /\ Len(tb) < 2^16 /\ Len(col) < 2^16
  BY ColumnPacket, Zenon
<1>3. ResultSet(reply)[i + 1] = FieldPack(f)
  BY <1>1, ResultSetPackets
<1>4. f = TextField(db, tb, col)
  BY DEF FieldOf, TextField
<1>5. "VARCHAR" \in DOMAIN TYPE_TO_MYSQL
  BY DEF TYPE_TO_MYSQL
<1> HIDE DEF db, tb, col, f
<1>6. [TextField(db, tb, col) EXCEPT !.type = "VARCHAR"] = TextField(db, tb, col)
  BY DEF TextField
<1>7. \A t \in DOMAIN TYPE_TO_MYSQL : FieldUnPack(FieldPack([f EXCEPT !.type = t])) = [f EXCEPT !.type = t]
  BY ONLY <1>1, <1>2, <1>4, FieldUnPacked
<1>8. FieldUnPack(FieldPack(f)) = f
  BY <1>4, <1>5, <1>6, <1>7, Zenon
<1> QED BY <1>3, <1>7, <1>8, Zenon DEF f, TypesReadBack

\* So are its rows.
LEMMA RowOfResultUnPacked ==
  ASSUME NEW reply \in RowReplies, reply \notin Unfit, NEW i \in 1..Len(reply.rows)
  PROVE  RowUnPack(ResultSet(reply)[Len(reply.columns) + 2 + i], Len(reply.columns)) = reply.rows[i]
<1> DEFINE p == ResultSet(reply)[Len(reply.columns) + 2 + i]
           row == reply.rows[i]
<1>1. row \in Seq(Seq(Byte)) /\ Len(row) = Len(reply.columns)
  BY RowRepliesAreTables, TableShape, FitShape
<1>2. p \in Seq(Byte) /\ \E place : StringPlaces(p, row, place)
  BY RowPacket, Zenon
<1> HIDE DEF p, row
<1>3. RowUnPack(p, Len(row)) = row
  BY <1>1, <1>2, RowUnPacked
<1> QED BY <1>1, <1>3 DEF p, row

\* The two halves of the capability flags make up the whole.
LEMMA CapabilityHalves ==
  /\ Capability % 2^16 \in Nat /\ Capability % 2^16 < 2^16
  /\ Capability \div 2^16 \in Nat /\ Capability \div 2^16 < 2^16
  /\ (Capability \div 2^16) * 2^16 + (Capability % 2^16) = Capability
<1>1. Capability = 17408525
  BY SMT DEF Capability
<1>2. 2^16 = 65536
  BY SMT
<1>3. 17408525 % 65536 = 41485 /\ 17408525 \div 65536 = 265
  BY SMT
<1>4. 265 * 65536 + 41485 = 17408525 /\ 41485 \in Nat /\ 265 \in Nat /\ 41485 < 65536 /\ 265 < 65536
  BY SMT
<1> QED BY <1>1, <1>2, <1>3, <1>4, SMT

\* A name of the greeting is read up to its zero byte.
LEMMA GreetingName ==
  ASSUME NEW p \in Seq(Byte), NEW at \in Nat \ {0}, NEW name \in Seq(1..255), NEW n, Len(name) = n,
         Stands(p, at, name), Stands(p, at + n, << 0 >>)
  PROVE  SubSeq(p, at, FindZero(p, at) - 1) = name /\ FindZero(p, at) + 1 = at + n + 1
<1>1. name \in Seq(Byte)
  BY NamesAreBytes
<1>2. ReadNulString(p, at) = [val |-> name, at |-> at + Len(name) + 1, found |-> TRUE]
  BY <1>1, NameReadBack
<1> QED BY <1>2 DEF ReadNulString

\* The greeting is unpacked as it was packed.
LEMMA GreetingUnPacked ==
  ASSUME NEW st \in [1..20 -> Nat], NEW g,
         g = Greeting(1, [j \in 1..12 |-> 85], [j \in 1..21 |-> 109], st)
  PROVE  GreetingUnPack(GreetingPack(g)) = g
<1> DEFINE p == GreetingPack(g)
           version == [j \in 1..12 |-> 85]
           plugin == [j \in 1..21 |-> 109]
           salt1 == g.saltPart1
           salt2 == g.saltPart2
           lo == Capability % 2^16
           hi == Capability \div 2^16
<1>1. /\ g.protocolVersion = 10 /\ g.serverVersion = version /\ g.connectionID = 1
      /\ g.capability = Capability /\ g.charset = 33 /\ g.status = 2 /\ g.authPluginName = plugin
  BY DEF Greeting
<1>2. g = [protocolVersion |-> 10, serverVersion |-> version, connectionID |-> 1,
           capability |-> Capability, charset |-> 33, status |-> 2, saltPart1 |-> salt1,
           saltPart2 |-> salt2, authPluginName |-> plugin]
  BY DEF Greeting
<1>3. /\ IsPart(p, 80) /\ IsPart(salt1, 8) /\ IsPart(salt2, 12)
      /\ Stands(p, 1, <<10>>) /\ Stands(p, 2, version)
      /\ Stands(p, 14, << 0 >>) /\ Stands(p, 15, WriteU32(1))
      /\ Stands(p, 19, salt1) /\ Stands(p, 28, WriteU16(lo))
      /\ Stands(p, 30, <<33>>) /\ Stands(p, 31, WriteU16(2))
      /\ Stands(p, 33, WriteU16(hi)) /\ Stands(p, 46, salt2)
      /\ Stands(p, 59, plugin) /\ Stands(p, 80, << 0 >>)
  <2>1. /\ IsPart(p, 80) /\ IsPart(g.saltPart1, 8) /\ IsPart(g.saltPart2, 12)
        /\ Stands(p, 1, <<g.protocolVersion>>) /\ Stands(p, 2, g.serverVersion)
        /\ Stands(p, 14, << 0 >>) /\ Stands(p, 15, WriteU32(g.connectionID))
        /\ Stands(p, 19, g.saltPart1) /\ Stands(p, 28, WriteU16(g.capability % 2^16))
        /\ Stands(p, 30, <<g.charset>>) /\ Stands(p, 31, WriteU16(g.status))
        /\ Stands(p, 33, WriteU16(g.capability \div 2^16)) /\ Stands(p, 46, g.saltPart2)
        /\ Stands(p, 59, g.authPluginName) /\ Stands(p, 80, << 0 >>)
    BY GreetingPlaces, Zenon
  <2> QED BY ONLY <1>1, <2>1
<1>4. /\ version \in Seq(1..255) /\ Len(version) = 12 /\ plugin \in Seq(1..255) /\ Len(plugin) = 21
  OBVIOUS
<1> HIDE DEF p, version, plugin, salt1, salt2
<1>5. p \in Seq(Byte) /\ salt1 \in Seq(Byte) /\ Len(salt1) = 8 /\ salt2 \in Seq(Byte) /\ Len(salt2) = 12
  BY <1>3 DEF IsPart
<1>6. SubSeq(p, 2, FindZero(p, 2) - 1) = version /\ FindZero(p, 2) + 1 = 15
  <2>1. 2 \in Nat \ {0} /\ 2 + 12 = 14 /\ 2 + 12 + 1 = 15
    OBVIOUS
  <2>2. Stands(p, 2, version) /\ Stands(p, 2 + 12, << 0 >>)
    BY ONLY <1>3, <2>1
  <2>3. SubSeq(p, 2, FindZero(p, 2) - 1) = version /\ FindZero(p, 2) + 1 = 2 + 12 + 1
    BY ONLY <1>4, <1>5, <2>1, <2>2, GreetingName, Zenon
  <2> QED BY ONLY <2>1, <2>3
<1>7. SubSeq(p, 59, FindZero(p, 59) - 1) = plugin
  <2> DEFINE at == 59
             n == 21
  <2>1. at \in Nat \ {0} /\ at + n = 80
    OBVIOUS
  <2>2. Stands(p, at, plugin) /\ Stands(p, at + n, << 0 >>) /\ Len(plugin) = n
    BY ONLY <1>3, <1>4, <2>1
  <2> HIDE DEF at, n
  <2>3. SubSeq(p, at, FindZero(p, at) - 1) = plugin
    BY ONLY <1>4, <1>5, <2>1, <2>2, GreetingName, Zenon
  <2> QED BY <2>3 DEF at
<1>8. p[1] = 10 /\ p[30] = 33
  <2>1. <<10>> \in Seq(Byte) /\ <<33>> \in Seq(Byte)
    BY DEF Byte
  <2>2. Len(<<10>>) >= 1 /\ Len(<<33>>) >= 1 /\ <<10>>[1] = 10 /\ <<33>>[1] = 33 /\ 1 \in Nat /\ 30 \in Nat
    OBVIOUS
  <2> QED BY ONLY <1>3, <2>1, <2>2, FirstStands, Zenon
<1>9. /\ FromBytes(p, 15, 4) = 1 /\ FromBytes(p, 31, 2) = 2 /\ FromBytes(p, 28, 2) = lo
      /\ FromBytes(p, 33, 2) = hi
  <2>1. 1 < 2^24 /\ 2 < 2^16 /\ 1 \in Nat /\ 2 \in Nat /\ 15 \in Nat /\ 31 \in Nat /\ 28 \in Nat /\ 33 \in Nat
    BY SMT
  <2>2. lo \in Nat /\ lo < 2^16 /\ hi \in Nat /\ hi < 2^16
    BY CapabilityHalves
  <2> HIDE DEF lo, hi
  <2> QED BY ONLY <1>3, <2>1, <2>2, TwoBytesReadBack, FourBytesReadBack, Zenon DEF WriteU16, WriteU32
<1>10. hi * 2^16 + lo = Capability
  BY ONLY CapabilityHalves, Zenon DEF lo, hi
<1> HIDE DEF lo, hi
<1>11. /\ ReadU32(p, 15).val = 1 /\ ReadU16(p, 31).val = 2 /\ ReadU16(p, 28).val = lo
       /\ ReadU16(p, 33).val = hi
  BY ONLY <1>9, ReadParts DEF ReadU16, ReadU32
<1>12. SubSeq(p, 19, 26) = salt1 /\ SubSeq(p, 46, 57) = salt2
  <2>1. 19 \in Nat \ {0} /\ 46 \in Nat \ {0} /\ 19 + 8 - 1 = 26 /\ 46 + 12 - 1 = 57
    OBVIOUS
  <2>2. Stands(p, 19, salt1) /\ Stands(p, 46, salt2) /\ salt1 \in Seq(Byte) /\ salt2 \in Seq(Byte)
    BY ONLY <1>3, <1>5
  <2>3. SubSeq(p, 19, 19 + Len(salt1) - 1) = salt1 /\ SubSeq(p, 46, 46 + Len(salt2) - 1) = salt2
    <3> DEFINE a == 19
               b == 46
    <3>1. /\ a \in Nat \ {0} /\ b \in Nat \ {0} /\ Stands(p, a, salt1) /\ Stands(p, b, salt2)
          /\ salt1 \in Seq(Byte) /\ salt2 \in Seq(Byte)
      BY ONLY <2>1, <2>2
    <3> HIDE DEF a, b
    <3>2. SubSeq(p, a, a + Len(salt1) - 1) = salt1 /\ SubSeq(p, b, b + Len(salt2) - 1) = salt2
      BY ONLY <3>1, StandsCut, Zenon
    <3> QED BY <3>2 DEF a, b
  <2> QED BY ONLY <1>5, <2>1, <2>3
<1>13. /\ 15 + 4 = 19 /\ 15 + 11 = 26 /\ 15 + 18 = 33 /\ 15 + 13 = 28 /\ 15 + 15 = 30 /\ 15 + 16 = 31
       /\ 15 + 31 = 46 /\ 15 + 42 = 57 /\ 15 + 44 = 59
  OBVIOUS
<1>14. GreetingUnPack(p) =
         [protocolVersion |-> p[1], serverVersion |-> SubSeq(p, 2, FindZero(p, 2) - 1),
          connectionID |-> ReadU32(p, 15).val, saltPart1 |-> SubSeq(p, 19, 26),
          capability |-> ReadU16(p, 33).val * 2^16 + ReadU16(p, 28).val, charset |-> p[30],
          status |-> ReadU16(p, 31).val, saltPart2 |-> SubSeq(p, 46, 57),
          authPluginName |-> SubSeq(p, 59, FindZero(p, 59) - 1)]
  BY ONLY <1>6, <1>13, Zenon DEF GreetingUnPack
<1>15. GreetingUnPack(p) =
         [protocolVersion |-> 10, serverVersion |-> version, connectionID |-> 1,
          capability |-> Capability, charset |-> 33, status |-> 2, saltPart1 |-> salt1,
          saltPart2 |-> salt2, authPluginName |-> plugin]
  BY ONLY <1>6, <1>7, <1>8, <1>10, <1>11, <1>12, <1>14
<1> QED BY ONLY <1>2, <1>15 DEF p

\* What is in the client's hands is the packet with the number k + 1.
LEMMA PayloadInHand ==
  ASSUME NEW out, NEW k \in Nat, NEW seq, NEW p, Underway(out, k, up, recvBuf, inbuf, down),
         FrameReady, IsFrame(out[k + 1], seq, p)
  PROVE  Payload = p
<1>1. Ready(inbuf)
  BY ReadyIsFrameReady
<1>2. inbuf = out[k + 1]
  BY <1>1, TransitTakes DEF Underway
<1>3. SubSeq(inbuf, 5, 4 + FromBytes(inbuf, 1, 3)) = p
  BY <1>2, FrameRead DEF Holds
<1> QED BY <1>3 DEF Payload, FrameSize

\* The rows the client has read.
LEMMA RowsSoFar ==
  ASSUME NEW c, NEW r \in 0..Len(Reply.rows), Reply \in TableReplies
  PROVE  Len(Partial(c, r).rows) = r
<1> DEFINE rs == Reply.rows
<1>1. rs \in Seq(Seq(Seq(Byte))) /\ Len(rs) \in Nat
  BY TableShape
<1>2. Partial(c, r).rows = SubSeq(rs, 1, r)
  BY DEF Partial
<1> HIDE DEF rs
<1>3. Len(SubSeq(rs, 1, r)) = r
  BY <1>1 DEF rs
<1> QED BY <1>2, <1>3

LEMMA EofIsEof ==
  IsEof(EofPack(0, 2))
BY EofReadBack

\* The greeting in the client's hands.
LEMMA GreetingInHand ==
  ASSUME SessionInv, FrameReady, AtGreeting
  PROVE  phase = "greeting" /\ GreetingUnPack(Payload) = ServerGreeting
<1>1. salt \in Salts /\ salt \in [1..20 -> Nat]
  BY SaltsAssumption DEF SessionInv
<1>2. IsFrame(GreetingOut[0 + 1], 0, GreetingPack(ServerGreeting))
  BY <1>1, GreetingFramed
<1>3. Payload = GreetingPack(ServerGreeting)
  BY <1>2, PayloadInHand DEF AtGreeting
<1>4. GreetingUnPack(GreetingPack(ServerGreeting)) = ServerGreeting
  BY <1>1, GreetingUnPacked DEF ServerGreeting
<1> QED BY <1>3, <1>4 DEF AtGreeting

\* What is in the client's hands of a result set.
ColumnInHand ==
  LET field == FieldOf(Reply, Len(Reply.columns) - left + 1)
  IN  FieldUnPack(Payload) = field /\ TypesReadBack(field)
EndInHand == EofUnPack(Payload) = [header |-> 254, warnings |-> 0, statusFlags |-> 2]
RowInHand == RowUnPack(Payload, Len(Reply.columns)) = Reply.rows[Len(answer.rows) + 1]

LEMMA ResultInHand ==
  ASSUME SessionInv, FrameReady, AtResult
  PROVE  \/ phase = "fields" /\ ColumnInHand
         \/ phase = "eof" /\ EndInHand
         \/ phase = "rows" /\ IsEof(Payload) /\ EndInHand
         \/ phase = "rows" /\ ~IsEof(Payload) /\ RowInHand
<1> DEFINE out == ResultSets[Reply]
           n == Len(Reply.columns)
           m == Len(Reply.rows)
           set == ResultSet(Reply)
<1>0. plan \in Plans /\ current \in 0..Len(plan.commands)
  BY DEF SessionInv
<1>1. Served /\ Reply.kind = "rows"
  BY DEF AtResult
<1>2. PICK k \in 1..(n + m + 2) :
        Underway(out, k, up, recvBuf, inbuf, down) /\ Progress(n, m, k)
  BY DEF AtResult
<1>3. Reply \in RowReplies /\ Reply \notin Unfit
  BY <1>0, <1>1, ReplyOut DEF Served
<1>4. n \in Nat /\ m \in Nat /\ n >= 1 /\ Reply \in TableReplies
  BY <1>3, RowRepliesAreTables, TableShape, FitShape
<1>5. \A j \in 1..(n + m + 3) : IsFrame(out[j], j % 256, set[j])
  BY <1>3, ResultFramed
<1>6. set[n + 2] = EofPack(0, 2) /\ set[n + m + 3] = EofPack(0, 2)
  BY <1>3, EndPackets
<1>7. n = Len(Reply.columns) /\ m = Len(Reply.rows)
  OBVIOUS
<1> HIDE DEF out, n, m, set
<1>8. k \in Nat /\ k + 1 \in 1..(n + m + 3)
  BY <1>4
<1>9. Payload = set[k + 1]
  BY <1>2, <1>5, <1>8, PayloadInHand
<1>10. CASE k \in 1..n /\ phase = "fields" /\ left = n - k + 1
  <2>1. n - left + 1 = k
    BY <1>4, <1>8, <1>10
  <2>2. FieldUnPack(set[k + 1]) = FieldOf(Reply, k) /\ TypesReadBack(FieldOf(Reply, k))
    BY <1>3, <1>7, <1>10, ColumnUnPacked DEF set
  <2> QED BY <1>7, <1>9, <1>10, <2>1, <2>2 DEF ColumnInHand
<1>11. CASE k = n + 1 /\ phase = "eof"
  <2>1. k + 1 = n + 2
    BY <1>4, <1>11
  <2> QED BY <1>6, <1>9, <1>11, <2>1, EofUnPacked DEF EndInHand
<1>12. CASE k \in (n + 2)..(n + 2 + m) /\ phase = "rows" /\ answer = Partial(n, k - n - 2)
  <2>1. CASE k = n + 2 + m
    <3>1. k + 1 = n + m + 3
      BY <1>4, <2>1
    <3> QED BY <1>6, <1>9, <1>12, <3>1, EofUnPacked, EofIsEof DEF EndInHand
  <2>2. CASE k # n + 2 + m
    <3> DEFINE i == k - n - 1
    <3>1. i \in 1..m /\ i - 1 = k - n - 2 /\ n + 2 + i = k + 1 /\ i - 1 \in 0..m /\ (i - 1) + 1 = i
      BY <1>4, <1>8, <1>12, <2>2
    <3> HIDE DEF i
    <3>2. ~IsEof(set[n + 2 + i])
      BY <1>3, <1>7, <3>1, RowPacket DEF set
    <3>3. RowUnPack(set[n + 2 + i], n) = Reply.rows[i]
      BY <1>3, <1>7, <3>1, RowOfResultUnPacked DEF set
    <3>4. Len(answer.rows) = i - 1
      BY <1>4, <1>7, <1>12, <3>1, RowsSoFar
    <3> QED BY <1>7, <1>9, <1>12, <3>1, <3>2, <3>3, <3>4 DEF RowInHand
  <2> QED BY <2>1, <2>2
<1> QED BY <1>2, <1>10, <1>11, <1>12 DEF Progress

\* In the other phases nothing is unpacked.
LEMMA NothingInHand ==
  ASSUME SessionInv, trouble = {}, FrameReady, phase # "idle"
  PROVE  AtGreeting \/ AtResult \/ phase \in {"login", "query"}
<1>1. Lockstep
  BY DEF SessionInv
<1>2. ~AtNew
  BY ReadyIsFrameReady, NothingReady DEF AtNew
<1>3. ~AtIdle
  BY DEF AtIdle
<1> QED BY <1>1, <1>2, <1>3 DEF Lockstep, AtLogin, AtQuery

LEMMA UnPackFromInv ==
  ASSUME SessionInv
  PROVE  UnPackInvertsPack
<1> SUFFICES ASSUME trouble = {}, FrameReady, phase # "idle"
             PROVE  UnPackInvertsPack
  BY Zenon DEF UnPackInvertsPack
<1>1. CASE AtGreeting
  <2>1. phase = "greeting" /\ GreetingUnPack(Payload) = ServerGreeting
    BY <1>1, GreetingInHand
  <2> QED BY <2>1 DEF UnPackInvertsPack
<1>2. CASE AtResult
  <2>1. CASE phase = "fields" /\ ColumnInHand
    BY <2>1 DEF UnPackInvertsPack, ColumnInHand, Reply
  <2>2. CASE phase = "eof" /\ EndInHand
    BY <2>2 DEF UnPackInvertsPack, EndInHand
  <2>3. CASE phase = "rows" /\ IsEof(Payload) /\ EndInHand
    BY <2>3 DEF UnPackInvertsPack, EndInHand
  <2>4. CASE phase = "rows" /\ ~IsEof(Payload) /\ RowInHand
    BY <2>4 DEF UnPackInvertsPack, RowInHand, Reply
  <2> QED BY <1>2, <2>1, <2>2, <2>3, <2>4, ResultInHand
<1>3. CASE phase \in {"login", "query"}
  BY <1>3 DEF UnPackInvertsPack
<1> QED BY <1>1, <1>2, <1>3, NothingInHand

\* The repository's UnPack functions make of a packet what its Pack functions have put
\* into it: the greeting with every salt, a column of each of the thirty types with any
\* names, the end marks, and the rows with cells of any bytes, as long as the server
\* meets no trouble, which leaves out packets of 256 bytes or more.
THEOREM PacketsAreUnPacked == Spec => []UnPackInvertsPack
<1>1. SessionInv => UnPackInvertsPack
  BY UnPackFromInv
<1> QED BY <1>1, SessionInvHolds, PTL
=============================================================================
