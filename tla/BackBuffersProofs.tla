------------------------- MODULE BackBuffersProofs -------------------------
(***************************************************************************)
(* Proofs about BackBuffers: the memory of the two back buffers keeps the  *)
(* bytes and grows no further than what they hold calls for, whatever the  *)
(* sizes of the packets, the ring and the smallest buffer.                 *)
(***************************************************************************)
EXTENDS BackBuffers, AsyncBufferProofs

Counters == Nat

(* Recursion for sizes. *)
LEMMA SizeRecursion ==
  ASSUME NEW a \in Counters, NEW h \in [Nat -> [Counters -> Counters]], NEW n \in Nat
  PROVE  \E f \in [0..n -> Counters] : f[0] = a /\ \A i \in 1..n : f[i] = h[i][f[i - 1]]
BY Recursion

(* A larger size is larger. *)
LEMMA LargerIsLarger ==
  ASSUME NEW size \in Nat
  PROVE  Larger(size) \in Nat /\ Larger(size) > size
BY SmallestSizeAssumption DEF Larger

(* g goes through the sizes from "size" on. *)
Sizing(g, size, n) ==
  /\ g \in [0..n -> Nat] /\ g[0] = size
  /\ \A i \in 1..n : g[i] = Larger(g[i - 1])

(* There is such a function ... *)
LEMMA SizingExists ==
  ASSUME NEW size \in Nat, NEW n \in Nat
  PROVE  \E g : Sizing(g, size, n)
<1> DEFINE h == [i \in Nat |-> [x \in Counters |-> Larger(x)]]
<1>1. h \in [Nat -> [Counters -> Counters]] /\ size \in Counters
  BY LargerIsLarger DEF Counters
<1>2. \A i \in 1..n : \A x \in Counters : h[i][x] = Larger(x)
  OBVIOUS
<1> HIDE DEF h
<1>3. PICK g \in [0..n -> Counters] : g[0] = size /\ \A i \in 1..n : g[i] = h[i][g[i - 1]]
  BY <1>1, SizeRecursion
<1>4. ASSUME NEW i \in 1..n PROVE g[i] = Larger(g[i - 1])
  <2>1. g[i - 1] \in Counters
    OBVIOUS
  <2> QED
    BY <1>2, <1>3, <2>1
<1> QED
  BY <1>3, <1>4 DEF Sizing, Counters

(* ... and SizeAfter is its last value. *)
LEMMA SizeIs ==
  ASSUME NEW size \in Nat, NEW n \in Nat, NEW g, Sizing(g, size, n)
  PROVE  SizeAfter(size, n) = g[n]
<1> DEFINE eqn(f) == f = [i \in 0..n |-> IF i = 0 THEN size ELSE Larger(f[i - 1])]
           d == CHOOSE f : eqn(f)
<1>1. eqn(g)
  <2>1. g = [i \in 0..n |-> g[i]]
    BY DEF Sizing
  <2>2. \A i \in 0..n : g[i] = IF i = 0 THEN size ELSE Larger(g[i - 1])
    BY DEF Sizing
  <2> QED
    BY <2>1, <2>2
<1>2. SizeAfter(size, n) = d[n]
  BY DEF SizeAfter
<1>3. eqn(d)
  BY <1>1
<1> HIDE DEF d
<1> DEFINE P == {i \in Nat : i <= n => d[i] = g[i]}
<1>4. 0 \in P
  <2>1. 0 \in 0..n
    OBVIOUS
  <2>2. d[0] = size
    BY <1>3, <2>1, Zenon
  <2> QED
    BY <2>2 DEF Sizing
<1>5. ASSUME NEW i \in P PROVE i + 1 \in P
  <2>1. CASE i + 1 <= n
    <3>1. i + 1 \in 0..n /\ i + 1 \in 1..n /\ i + 1 # 0 /\ (i + 1) - 1 = i /\ d[i] = g[i]
      BY <2>1
    <3>2. d[i + 1] = Larger(d[(i + 1) - 1])
      BY <1>3, <3>1, Zenon
    <3>3. g[i + 1] = Larger(g[(i + 1) - 1])
      BY <3>1 DEF Sizing
    <3>4. d[i + 1] = g[i + 1]
      BY <3>1, <3>2, <3>3
    <3> QED
      BY <3>4
  <2> QED
    BY <2>1
<1>6. P = Nat
  BY <1>4, <1>5, InductionOnSets
<1> QED
  BY <1>2, <1>6

(* The sizes one after the other. *)
LEMMA SizeSteps ==
  ASSUME NEW size \in Nat
  PROVE  /\ SizeAfter(size, 0) = size
         /\ \A n \in Nat : /\ SizeAfter(size, n) \in Nat
                           /\ SizeAfter(size, n + 1) = Larger(SizeAfter(size, n))
<1>1. SizeAfter(size, 0) = size
  <2>1. PICK g : Sizing(g, size, 0)
    BY SizingExists
  <2> QED
    BY <2>1, SizeIs DEF Sizing
<1>2. ASSUME NEW n \in Nat
      PROVE  /\ SizeAfter(size, n) \in Nat
             /\ SizeAfter(size, n + 1) = Larger(SizeAfter(size, n))
  <2>1. n + 1 \in Nat
    OBVIOUS
  <2>2. PICK g : Sizing(g, size, n + 1)
    BY <2>1, SizingExists
  <2> DEFINE f == [i \in 0..n |-> g[i]]
  <2>3. Sizing(f, size, n)
    <3>1. f \in [0..n -> Nat] /\ f[0] = size
      BY <2>2 DEF Sizing
    <3>2. ASSUME NEW i \in 1..n PROVE f[i] = Larger(f[i - 1])
      <4>1. i \in 1..(n + 1) /\ f[i] = g[i] /\ f[i - 1] = g[i - 1]
        OBVIOUS
      <4> QED
        BY <2>2, <4>1 DEF Sizing
    <3> QED
      BY <3>1, <3>2 DEF Sizing
  <2>4. SizeAfter(size, n) = g[n] /\ SizeAfter(size, n + 1) = g[n + 1]
    BY <2>1, <2>2, <2>3, SizeIs
  <2>5. g[n] \in Nat /\ g[n + 1] = Larger(g[n])
    <3>1. n \in 0..(n + 1) /\ n + 1 \in 1..(n + 1) /\ (n + 1) - 1 = n
      OBVIOUS
    <3> QED
      BY <2>2, <3>1 DEF Sizing
  <2> QED
    BY <2>4, <2>5
<1> QED
  BY <1>1, <1>2

(* Every step adds at least one. *)
LEMMA SizeGrows ==
  ASSUME NEW size \in Nat, NEW m \in Nat, NEW n \in Nat
  PROVE  SizeAfter(size, m + n) >= SizeAfter(size, m) + n
<1> DEFINE P == {i \in Nat : SizeAfter(size, m + i) >= SizeAfter(size, m) + i}
<1>1. SizeAfter(size, m) \in Nat
  BY SizeSteps
<1>2. 0 \in P
  BY <1>1
<1>3. ASSUME NEW i \in P PROVE i + 1 \in P
  <2>1. m + i \in Nat /\ m + (i + 1) = (m + i) + 1
    OBVIOUS
  <2>2. /\ SizeAfter(size, m + i) \in Nat
        /\ SizeAfter(size, m + (i + 1)) = Larger(SizeAfter(size, m + i))
    BY <2>1, SizeSteps
  <2>3. /\ SizeAfter(size, m + (i + 1)) \in Nat
        /\ SizeAfter(size, m + (i + 1)) > SizeAfter(size, m + i)
    BY <2>2, LargerIsLarger
  <2> QED
    BY <1>1, <2>2, <2>3
<1>4. P = Nat
  BY <1>2, <1>3, InductionOnSets
<1> QED
  BY <1>4

(* Growing on from a size that was grown to. *)
LEMMA SizeCompose ==
  ASSUME NEW size \in Nat, NEW m \in Nat, NEW n \in Nat
  PROVE  SizeAfter(SizeAfter(size, m), n) = SizeAfter(size, m + n)
<1> DEFINE b == SizeAfter(size, m)
           P == {i \in Nat : SizeAfter(b, i) = SizeAfter(size, m + i)}
<1>1. b \in Nat
  BY SizeSteps
<1>2. 0 \in P
  BY <1>1, SizeSteps
<1> HIDE DEF b
<1>3. ASSUME NEW i \in P PROVE i + 1 \in P
  <2>1. m + i \in Nat /\ m + (i + 1) = (m + i) + 1
    OBVIOUS
  <2>2. SizeAfter(b, i + 1) = Larger(SizeAfter(b, i))
    BY <1>1, SizeSteps
  <2>3. SizeAfter(size, (m + i) + 1) = Larger(SizeAfter(size, m + i))
    BY <2>1, SizeSteps
  <2> QED
    BY <2>1, <2>2, <2>3
<1>4. P = Nat
  BY <1>2, <1>3, InductionOnSets
<1> QED
  BY <1>4 DEF b

-----------------------------------------------------------------------------
(* One buffer: its memory, and how its positions lie in it. *)
Cell == Byte \cup {Blank}
Memory == [bytes : Seq(Cell), readPos : Nat, writePos : Nat]
Fits(m) == m.readPos <= m.writePos /\ m.writePos <= Len(m.bytes)

(* What can be read, byte by byte. *)
LEMMA ReadableIs ==
  ASSUME NEW m \in Memory, Fits(m)
  PROVE  /\ Len(m.bytes) \in Nat /\ ReadableSize(m) \in Nat
         /\ Readable(m) = [i \in 1..ReadableSize(m) |-> m.bytes[m.readPos + i]]
         /\ Readable(m) \in Seq(Cell) /\ Len(Readable(m)) = ReadableSize(m)
<1> DEFINE b == m.bytes
           r == m.readPos
           w == m.writePos
<1>1. b \in Seq(Cell) /\ r \in Nat /\ w \in Nat /\ Len(b) \in Nat
  BY LenProperties DEF Memory
<1>2. r <= w /\ w <= Len(b)
  BY DEF Fits
<1>3. \A i \in 1..Len(b) : b[i] \in Cell
  BY <1>1, ElementOfSeq
<1>4. ReadableSize(m) = w - r /\ Readable(m) = SubSeq(b, r + 1, w)
  BY DEF ReadableSize, Readable
<1> HIDE DEF b, r, w
<1>5. SubSeq(b, r + 1, w) = [i \in 1..(w - r) |-> b[r + i]]
  <2>1. SubSeq(b, r + 1, w) = [i \in 1..((w - (r + 1)) + 1) |-> b[((r + 1) + i) - 1]]
    BY <1>1
  <2>2. (w - (r + 1)) + 1 = w - r /\ \A i \in 1..(w - r) : ((r + 1) + i) - 1 = r + i
    BY <1>1
  <2> QED
    BY <2>1, <2>2
<1>6. \A i \in 1..(w - r) : b[r + i] \in Cell
  BY <1>1, <1>2, <1>3
<1>7. w - r \in Nat
  BY <1>1, <1>2
<1> DEFINE q == [i \in 1..(w - r) |-> b[r + i]]
<1>8. q \in Seq(Cell) /\ Len(q) = w - r
  BY <1>6, <1>7
<1> HIDE DEF q
<1> QED
  BY <1>1, <1>4, <1>5, <1>7, <1>8 DEF b, r, q

(* The loop of _AssureSpace ends as soon as there is room, and no later. *)
LEMMA GrowthIs ==
  ASSUME NEW m \in Memory, Fits(m), NEW need \in Nat
  PROVE  LET g == Growth(m, need)
             size(n) == SizeAfter(Len(m.bytes), n)
         IN  /\ g \in Nat
             /\ size(g) \in Nat /\ size(g) >= Len(m.bytes) + g
             /\ size(g) >= need + ReadableSize(m)
             /\ g > 0 => size(g - 1) < need + ReadableSize(m)
<1> DEFINE l == Len(m.bytes)
           T == {n \in 0..need : need <= SizeAfter(l, n) - m.writePos + m.readPos}
           g == Growth(m, need)
<1>1. /\ l \in Nat /\ m.writePos \in Nat /\ m.readPos \in Nat /\ m.readPos <= m.writePos
      /\ m.writePos <= l /\ ReadableSize(m) = m.writePos - m.readPos
  BY LenProperties DEF Memory, Fits, ReadableSize
<1> HIDE DEF l
<1>2. \A n \in Nat : SizeAfter(l, n) \in Nat /\ SizeAfter(l, n) >= l + n
  <2> TAKE n \in Nat
  <2>1. SizeAfter(l, 0) = l /\ SizeAfter(l, n) \in Nat
    BY <1>1, SizeSteps
  <2>2. SizeAfter(l, 0 + n) >= SizeAfter(l, 0) + n
    BY <1>1, SizeGrows
  <2> QED
    BY <2>1, <2>2
<1>3. need \in T
  BY <1>1, <1>2
<1>4. g \in T /\ \A n \in T : g <= n
  <2>1. T \in SUBSET Nat /\ T # {}
    BY <1>3
  <2>2. g = CHOOSE x \in T : \A y \in T : x <= y
    BY DEF Growth, Min, l
  <2> HIDE DEF T, g
  <2>3. \E x \in T : \A y \in T : x <= y
    BY <2>1, LeastNat
  <2> QED
    BY <2>2, <2>3
<1>5. g \in Nat /\ SizeAfter(l, g) \in Nat /\ SizeAfter(l, g) >= l + g
      /\ SizeAfter(l, g) >= need + ReadableSize(m)
  BY <1>1, <1>2, <1>4
<1>6. ASSUME g > 0 PROVE SizeAfter(l, g - 1) < need + ReadableSize(m)
  <2>1. g \in 0..need /\ g - 1 \in 0..need /\ ~(g <= g - 1)
    BY <1>4, <1>6
  <2>2. g - 1 \notin T
    BY <1>4, <2>1
  <2>3. ~(need <= SizeAfter(l, g - 1) - m.writePos + m.readPos)
    BY <2>1, <2>2
  <2>4. SizeAfter(l, g - 1) \in Nat
    BY <1>2, <2>1
  <2> HIDE DEF g, T
  <2> QED
    BY <1>1, <2>3, <2>4
<1> HIDE DEF g, T
<1> QED
  BY <1>5, <1>6 DEF l, g

(* From size "old" to size "new" for p bytes: as often as needed, no more. *)
GrowsFor(old, new, p) ==
  \E g \in Nat : new = SizeAfter(old, g) /\ (g > 0 => SizeAfter(old, g - 1) < p)

(* Moving to the front keeps what can be read. *)
LEMMA ToFrontIs ==
  ASSUME NEW m \in Memory, Fits(m)
  PROVE  LET f == ToFront(m)
         IN  /\ f \in Memory /\ Fits(f) /\ Len(f.bytes) = Len(m.bytes)
             /\ f.readPos = 0 /\ f.writePos = ReadableSize(m)
             /\ \A i \in 1..ReadableSize(m) : f.bytes[i] = m.bytes[m.readPos + i]
<1> DEFINE b == m.bytes
           r == m.readPos
           l == Len(m.bytes)
           k == ReadableSize(m)
           c == [i \in 1..l |-> IF i <= k THEN b[r + i] ELSE b[i]]
<1>1. /\ b \in Seq(Cell) /\ r \in Nat /\ l \in Nat /\ k \in Nat /\ r + k <= l
      /\ \A i \in 1..l : b[i] \in Cell
  <2>1. m.bytes \in Seq(Cell) /\ m.readPos \in Nat /\ m.writePos \in Nat
    BY DEF Memory
  <2>2. Len(m.bytes) \in Nat /\ \A i \in 1..Len(m.bytes) : m.bytes[i] \in Cell
    BY <2>1, LenProperties, ElementOfSeq
  <2> QED
    BY <2>1, <2>2 DEF Fits, ReadableSize
<1>2. ToFront(m) = [bytes |-> c, readPos |-> 0, writePos |-> k]
  BY DEF ToFront
<1> HIDE DEF b, r, l, k
<1>3. \A i \in 1..l : c[i] \in Cell
  BY <1>1
<1>4. c \in Seq(Cell) /\ Len(c) = l
  BY <1>1, <1>3
<1>5. \A i \in 1..k : c[i] = b[r + i]
  BY <1>1
<1>6. k <= l
  BY <1>1
<1> HIDE DEF c
<1> DEFINE f == ToFront(m)
<1>7. f.bytes = c /\ f.readPos = 0 /\ f.writePos = k /\ f \in Memory
  BY <1>1, <1>2, <1>4 DEF Memory
<1> HIDE DEF f
<1>8. Fits(f)
  BY <1>1, <1>4, <1>6, <1>7 DEF Fits
<1> QED
  BY <1>4, <1>5, <1>7, <1>8 DEF f, b, r, l, k

(* _AssureSpace makes room and keeps what can be read. *)
LEMMA AssureSpaceIs ==
  ASSUME NEW m \in Memory, Fits(m), NEW need \in Nat
  PROVE  LET a == AssureSpace(m, need)
         IN  /\ a \in Memory /\ Fits(a) /\ ReadableSize(a) = ReadableSize(m)
             /\ need <= Room(a)
             /\ \A i \in 1..ReadableSize(m) : a.bytes[a.readPos + i] = m.bytes[m.readPos + i]
             /\ GrowsFor(Len(m.bytes), Len(a.bytes), need + ReadableSize(m))
<1> DEFINE b == m.bytes
           r == m.readPos
           w == m.writePos
           l == Len(m.bytes)
           k == ReadableSize(m)
           g == Growth(m, need)
           size == SizeAfter(l, g)
           c == b \o [i \in 1..(size - l) |-> Blank]
           grown == [m EXCEPT !.bytes = c]
           a == AssureSpace(m, need)
<1>1. /\ b \in Seq(Cell) /\ r \in Nat /\ w \in Nat /\ l \in Nat /\ k \in Nat
      /\ k = w - r /\ r <= w /\ w <= l
  BY LenProperties DEF Memory, Fits, ReadableSize
<1>2. CASE need <= Room(m)
  <2>1. a = m
    BY <1>2 DEF AssureSpace
  <2>2. l = SizeAfter(l, 0)
    BY <1>1, SizeSteps
  <2> HIDE DEF l, k
  <2>3. GrowsFor(l, l, need + k)
    <3>1. 0 \in Nat /\ ~(0 > 0)
      OBVIOUS
    <3> QED
      BY <2>2, <3>1 DEF GrowsFor
  <2> QED
    BY <1>2, <2>1, <2>3 DEF l, k
<1>3. CASE ~(need <= Room(m))
  <2>1. a = ToFront(grown)
    BY <1>3 DEF AssureSpace
  <2>2. /\ g \in Nat /\ size \in Nat /\ size >= l /\ size >= need + k
        /\ (g > 0 => SizeAfter(l, g - 1) < need + k)
    <3>1. /\ g \in Nat /\ size \in Nat /\ size >= l + g /\ size >= need + k
          /\ (g > 0 => SizeAfter(l, g - 1) < need + k)
      BY GrowthIs
    <3> HIDE DEF l, k, g, size
    <3> QED
      BY <1>1, <3>1
  <2>3. GrowsFor(l, size, need + k)
    <3> HIDE DEF g, l, k
    <3> QED
      BY <2>2 DEF GrowsFor
  <2> HIDE DEF g, size
  <2>4. /\ c \in Seq(Cell) /\ Len(c) = size
        /\ \A i \in 1..l : c[i] = b[i]
    <3> DEFINE d == [i \in 1..(size - l) |-> Blank]
    <3>1. size - l \in Nat
      BY <1>1, <2>2
    <3>2. d \in Seq(Cell) /\ Len(d) = size - l
      BY <3>1 DEF Cell
    <3> HIDE DEF d
    <3>3. /\ b \o d \in Seq(Cell) /\ Len(b \o d) = l + (size - l)
          /\ \A i \in 1..(l + Len(d)) : (b \o d)[i] = IF i <= l THEN b[i] ELSE d[i - l]
      BY <1>1, <3>2, ConcatProperties
    <3>4. \A i \in 1..l : (b \o d)[i] = b[i]
      <4> TAKE i \in 1..l
      <4>1. i \in 1..(l + Len(d)) /\ i <= l
        BY <1>1, <3>1, <3>2
      <4> QED
        BY <3>3, <4>1
    <3>5. l + (size - l) = size
      BY <1>1, <2>2
    <3> QED
      BY <3>3, <3>4, <3>5 DEF d
  <2> HIDE DEF c
  <2>5. grown.bytes = c /\ grown.readPos = r /\ grown.writePos = w /\ grown \in Memory
    BY <1>1, <2>4 DEF Memory
  <2> HIDE DEF grown
  <2>6. Fits(grown) /\ ReadableSize(grown) = k
    BY <1>1, <2>2, <2>4, <2>5 DEF Fits, ReadableSize
  <2> HIDE DEF a, b, r, w, l, k
  <2>7. /\ a \in Memory /\ Fits(a) /\ Len(a.bytes) = size /\ a.readPos = 0 /\ a.writePos = k
        /\ \A i \in 1..k : a.bytes[i] = c[r + i]
    BY <2>1, <2>4, <2>5, <2>6, ToFrontIs
  <2>8. ReadableSize(a) = k /\ need <= Room(a)
    BY <1>1, <2>2, <2>7 DEF ReadableSize, Room
  <2>9. \A i \in 1..k : a.bytes[a.readPos + i] = b[r + i]
    <3> TAKE i \in 1..k
    <3>1. r + i \in 1..l /\ a.readPos + i = i
      BY <1>1, <2>7
    <3> QED
      BY <2>4, <2>7, <3>1
  <2> QED
    BY <2>3, <2>7, <2>8, <2>9 DEF a, b, r, l, k
<1> QED
  BY <1>2, <1>3

(* PushData adds the data at the end of what can be read. *)
LEMMA PushDataIs ==
  ASSUME NEW m \in Memory, Fits(m), NEW data \in Seq(Byte)
  PROVE  LET n == PushData(m, data)
         IN  /\ n \in Memory /\ Fits(n)
             /\ ReadableSize(n) = ReadableSize(m) + Len(data)
             /\ Readable(n) = Readable(m) \o data
             /\ GrowsFor(Len(m.bytes), Len(n.bytes), ReadableSize(m) + Len(data))
<1> DEFINE d == Len(data)
           a == AssureSpace(m, d)
           b == a.bytes
           w == a.writePos
           r == a.readPos
           l == Len(a.bytes)
           k == ReadableSize(m)
           c == [i \in 1..l |-> IF i - w \in 1..d THEN data[i - w] ELSE b[i]]
           n == PushData(m, data)
<1>1. d \in Nat /\ \A i \in 1..d : data[i] \in Byte
  BY LenProperties, ElementOfSeq
<1>2. /\ Readable(m) = [i \in 1..k |-> m.bytes[m.readPos + i]] /\ k \in Nat
      /\ Readable(m) \in Seq(Cell) /\ Len(Readable(m)) = k
  BY ReadableIs
<1>3. n = [a EXCEPT !.bytes = c, !.writePos = @ + d]
  BY DEF PushData
<1> HIDE DEF d, k
<1>4. /\ a \in Memory /\ Fits(a) /\ ReadableSize(a) = k /\ d <= Room(a)
      /\ \A i \in 1..k : a.bytes[a.readPos + i] = m.bytes[m.readPos + i]
      /\ GrowsFor(Len(m.bytes), Len(a.bytes), d + k)
  BY <1>1, AssureSpaceIs DEF k
<1> HIDE DEF a
<1>5. /\ b \in Seq(Cell) /\ r \in Nat /\ w \in Nat /\ l \in Nat
      /\ r <= w /\ k = w - r /\ w + d <= l
      /\ \A i \in 1..l : b[i] \in Cell
  <2>1. a.bytes \in Seq(Cell) /\ a.readPos \in Nat /\ a.writePos \in Nat
    BY <1>4 DEF Memory
  <2>2. Len(a.bytes) \in Nat /\ \A i \in 1..Len(a.bytes) : a.bytes[i] \in Cell
    BY <2>1, LenProperties, ElementOfSeq
  <2> QED
    BY <1>1, <1>4, <2>1, <2>2 DEF Fits, ReadableSize, Room
<1>6. c \in Seq(Cell) /\ Len(c) = l
  <2>1. \A i \in 1..l : c[i] \in Cell
    BY <1>1, <1>5 DEF Cell
  <2>2. c = [i \in 1..l |-> c[i]] /\ l \in Nat
    BY <1>5
  <2> HIDE DEF c, l
  <2> QED
    BY <2>1, <2>2
<1>7. \A i \in 1..k : c[r + i] = b[r + i]
  <2> TAKE i \in 1..k
  <2>0. i \in Nat /\ 1 <= i /\ i <= k
    BY <1>2
  <2>1. r + i \in 1..l /\ ~((r + i) - w \in 1..d)
    <3> HIDE DEF r, w, l
    <3>1. r + i <= w /\ w <= l
      BY <1>1, <1>5, <2>0
    <3> QED
      BY <1>1, <1>5, <2>0, <3>1
  <2> QED
    BY <2>1
<1>8. \A i \in 1..d : c[w + i] = data[i]
  <2> TAKE i \in 1..d
  <2>1. w + i \in 1..l /\ (w + i) - w = i
    BY <1>1, <1>5
  <2> QED
    BY <2>1
<1> HIDE DEF c
<1>9. n.bytes = c /\ n.readPos = r /\ n.writePos = w + d /\ n \in Memory
  <2>1. a = [bytes |-> b, readPos |-> r, writePos |-> w]
    BY <1>4 DEF Memory
  <2>2. n = [bytes |-> c, readPos |-> r, writePos |-> w + d]
    BY <1>3, <2>1
  <2> QED
    BY <1>1, <1>5, <1>6, <2>2 DEF Memory
<1> HIDE DEF n
<1>10. Fits(n) /\ ReadableSize(n) = k + d
  BY <1>1, <1>5, <1>6, <1>9 DEF Fits, ReadableSize
<1>11. Readable(n) = Readable(m) \o data
  <2> DEFINE x == Readable(m)
             y == Readable(n)
  <2>1. y = [i \in 1..(k + d) |-> c[r + i]] /\ y \in Seq(Cell) /\ Len(y) = k + d
    BY <1>9, <1>10, ReadableIs
  <2>2. data \in Seq(Cell)
    BY <1>1 DEF Cell, d
  <2>3. x \in Seq(Cell) /\ Len(x) = k /\ \A i \in 1..k : x[i] = b[r + i]
    BY <1>2, <1>4
  <2> HIDE DEF x, y
  <2>4. /\ x \o data \in Seq(Cell) /\ Len(x \o data) = k + d
        /\ \A i \in 1..(k + d) : (x \o data)[i] = IF i <= k THEN x[i] ELSE data[i - k]
    BY <2>2, <2>3, ConcatProperties DEF d
  <2>5. ASSUME NEW i \in 1..(k + d) PROVE y[i] = (x \o data)[i]
    <3>1. CASE i <= k
      <4>1. i \in 1..k
        BY <1>2, <3>1
      <4> QED
        BY <1>7, <2>1, <2>3, <2>4, <3>1, <4>1
    <3>2. CASE ~(i <= k)
      <4>1. i - k \in 1..d /\ w + (i - k) = r + i
        <5> HIDE DEF w, r, l
        <5> QED
          BY <1>1, <1>2, <1>5, <3>2
      <4> QED
        BY <1>8, <2>1, <2>4, <3>2, <4>1
    <3> QED
      BY <3>1, <3>2
  <2>6. y = x \o data
    <3> DEFINE z == x \o data
    <3>1. z \in Seq(Cell) /\ Len(z) = Len(y) /\ \A i \in 1..Len(y) : y[i] = z[i]
      BY <2>1, <2>4, <2>5
    <3> HIDE DEF z
    <3>2. y = z
      BY <2>1, <3>1, SeqEqual
    <3> QED
      BY <3>2 DEF z
  <2> QED
    BY <2>6 DEF x, y
<1>12. GrowsFor(Len(m.bytes), Len(n.bytes), k + d)
  BY <1>1, <1>2, <1>4, <1>6, <1>9 DEF GrowsFor
<1> QED
  BY <1>9, <1>10, <1>11, <1>12 DEF n, k, d

-----------------------------------------------------------------------------
(* m holds s, and has only grown for what p bytes need. *)
Holds(m, s, p) ==
  /\ m \in Memory /\ Fits(m)
  /\ Readable(m) = s /\ ReadableSize(m) <= p
  /\ \E n \in 0..p : Len(m.bytes) = SizeAfter(0, n) /\ (n > 0 => SizeAfter(0, n - 1) < p)

(* The inductive invariant of the memory, next to BoundsInv. *)
MemInv == peak \in Nat /\ Holds(tmpMem, tmpBuf, peak) /\ Holds(backMem, backBuf, peak)

(* The sizes from 0 on are naturals and increase. *)
LEMMA SizesFromZero ==
  /\ SizeAfter(0, 0) = 0
  /\ \A n \in Nat : SizeAfter(0, n) \in Nat /\ SizeAfter(0, n) >= n
  /\ \A m, n \in Nat : m <= n => SizeAfter(0, m) <= SizeAfter(0, n)
<1>1. SizeAfter(0, 0) = 0 /\ \A n \in Nat : SizeAfter(0, n) \in Nat
  BY SizeSteps
<1>2. ASSUME NEW n \in Nat PROVE SizeAfter(0, n) >= n
  <2>1. SizeAfter(0, 0 + n) >= SizeAfter(0, 0) + n
    BY SizeGrows
  <2> QED
    BY <1>1, <2>1
<1>3. ASSUME NEW m \in Nat, NEW n \in Nat, m <= n PROVE SizeAfter(0, m) <= SizeAfter(0, n)
  <2>1. n - m \in Nat /\ m + (n - m) = n
    BY <1>3
  <2>2. SizeAfter(0, m + (n - m)) >= SizeAfter(0, m) + (n - m)
    BY <2>1, SizeGrows
  <2> QED
    BY <1>1, <2>1, <2>2
<1> QED
  BY <1>1, <1>2, <1>3

(* What has grown for p bytes is not larger than the first size for p bytes. *)
LEMMA HoldsBound ==
  ASSUME NEW m, NEW s, NEW p \in Nat, Holds(m, s, p)
  PROVE  Len(m.bytes) <= Min({SizeAfter(0, n) : n \in {i \in 0..p : SizeAfter(0, i) >= p}})
<1> DEFINE T == {SizeAfter(0, n) : n \in {i \in 0..p : SizeAfter(0, i) >= p}}
<1>1. PICK n \in 0..p : Len(m.bytes) = SizeAfter(0, n) /\ (n > 0 => SizeAfter(0, n - 1) < p)
  BY DEF Holds
<1>2. T \in SUBSET Nat /\ T # {}
  <2>1. T \in SUBSET Nat
    BY SizesFromZero
  <2>2. p \in 0..p /\ SizeAfter(0, p) >= p
    BY SizesFromZero
  <2>3. SizeAfter(0, p) \in T
    BY <2>2
  <2> HIDE DEF T
  <2> QED
    BY <2>1, <2>3
<1>3. ASSUME NEW x \in T PROVE Len(m.bytes) <= x
  <2>1. PICK i \in 0..p : SizeAfter(0, i) >= p /\ x = SizeAfter(0, i)
    OBVIOUS
  <2>2. n <= i
    <3> SUFFICES ASSUME i < n PROVE FALSE
      BY <1>1, <2>1
    <3>1. n > 0 /\ n - 1 \in Nat /\ i \in Nat /\ i <= n - 1
      BY <1>1, <2>1
    <3>2. SizeAfter(0, i) <= SizeAfter(0, n - 1) /\ SizeAfter(0, n - 1) < p
      BY <1>1, <3>1, SizesFromZero
    <3>3. SizeAfter(0, i) \in Nat /\ SizeAfter(0, n - 1) \in Nat
      BY <3>1, SizesFromZero
    <3> QED
      BY <2>1, <3>2, <3>3
  <2> QED
    BY <1>1, <2>1, <2>2, SizesFromZero
<1> HIDE DEF T
<1>4. Min(T) \in T
  <2>1. \E x \in T : \A y \in T : x <= y
    BY <1>2, LeastNat
  <2> QED
    BY <2>1 DEF Min
<1>5. Len(m.bytes) <= Min(T)
  BY <1>3, <1>4
<1> QED
  BY <1>5 DEF T

(* Room for more does no harm. *)
LEMMA HoldsMore ==
  ASSUME NEW m, NEW s, NEW p \in Nat, NEW q \in Nat, p <= q, Holds(m, s, p)
  PROVE  Holds(m, s, q)
<1>1. PICK n \in 0..p : Len(m.bytes) = SizeAfter(0, n) /\ (n > 0 => SizeAfter(0, n - 1) < p)
  BY DEF Holds
<1>2. n \in 0..q /\ (n > 0 => SizeAfter(0, n - 1) < q)
  <2>1. n > 0 => SizeAfter(0, n - 1) \in Nat
    BY SizesFromZero
  <2> QED
    BY <1>1, <2>1
<1>3. m \in Memory /\ Fits(m) /\ Readable(m) = s /\ ReadableSize(m) <= p
  BY DEF Holds
<1>4. ReadableSize(m) <= q
  BY <1>3, ReadableIs
<1> QED
  BY <1>1, <1>2, <1>3, <1>4 DEF Holds

(* A buffer to which data is pushed. *)
LEMMA HoldsPush ==
  ASSUME NEW m, NEW s, NEW p \in Nat, Holds(m, s, p), NEW data \in Seq(Byte), NEW q \in Nat,
         p <= q, ReadableSize(PushData(m, data)) <= q
  PROVE  Holds(PushData(m, data), s \o data, q)
<1> DEFINE n == PushData(m, data)
           d == Len(data)
           k == ReadableSize(m)
           l == Len(m.bytes)
<1>1. m \in Memory /\ Fits(m) /\ Readable(m) = s
  BY DEF Holds
<1>2. /\ n \in Memory /\ Fits(n) /\ ReadableSize(n) = k + d /\ Readable(n) = s \o data
      /\ GrowsFor(l, Len(n.bytes), k + d)
  BY <1>1, PushDataIs
<1>3. k \in Nat /\ d \in Nat /\ l \in Nat
  BY <1>1, ReadableIs, LenProperties
<1>4. PICK i \in 0..p : l = SizeAfter(0, i) /\ (i > 0 => SizeAfter(0, i - 1) < p)
  BY DEF Holds
<1> HIDE DEF n, d, k, l
<1>5. PICK g \in Nat : Len(n.bytes) = SizeAfter(l, g) /\ (g > 0 => SizeAfter(l, g - 1) < k + d)
  BY <1>2 DEF GrowsFor
<1>6. k + d <= q
  BY <1>2 DEF n
<1>7. i + g \in Nat /\ Len(n.bytes) = SizeAfter(0, i + g)
  BY <1>4, <1>5, SizeCompose
<1>8. i + g > 0 => SizeAfter(0, (i + g) - 1) < q
  <2>1. CASE g = 0
    <3>1. i > 0 => SizeAfter(0, i - 1) \in Nat
      BY SizesFromZero
    <3> QED
      BY <1>4, <2>1, <3>1
  <2>2. CASE g > 0
    <3>1. g - 1 \in Nat /\ i + (g - 1) = (i + g) - 1 /\ i \in Nat /\ (i + g) - 1 \in Nat
      BY <2>2
    <3>2. SizeAfter(l, g - 1) = SizeAfter(0, i + (g - 1))
      BY <1>4, <3>1, SizeCompose
    <3>3. SizeAfter(0, (i + g) - 1) < k + d /\ SizeAfter(0, (i + g) - 1) \in Nat
      BY <1>5, <2>2, <3>1, <3>2, SizesFromZero
    <3> QED
      BY <1>3, <1>6, <3>3
  <2> QED
    BY <2>1, <2>2
<1>9. i + g \in 0..q
  <2>1. CASE i + g = 0
    BY <2>1
  <2>2. CASE i + g > 0
    <3>1. (i + g) - 1 \in Nat
      BY <2>2
    <3>2. SizeAfter(0, (i + g) - 1) \in Nat /\ SizeAfter(0, (i + g) - 1) >= (i + g) - 1
      BY <3>1, SizesFromZero
    <3>3. SizeAfter(0, (i + g) - 1) < q
      BY <1>8, <2>2
    <3> QED
      BY <1>7, <3>1, <3>2, <3>3
  <2> QED
    BY <1>7, <2>1, <2>2
<1>10. ReadableSize(n) <= q
  BY <1>2, <1>6
<1>11. Holds(n, s \o data, q)
  BY <1>2, <1>7, <1>8, <1>9, <1>10 DEF Holds
<1> QED
  BY <1>11 DEF n

(* A buffer from which k bytes are read. *)
LEMMA HoldsSkip ==
  ASSUME NEW m, NEW s, NEW p \in Nat, Holds(m, s, p), NEW k \in 0..ReadableSize(m)
  PROVE  Holds(AdjustReadPtr(m, k), Drop(s, k), p)
<1> DEFINE n == AdjustReadPtr(m, k)
           z == ReadableSize(m)
           b == m.bytes
           r == m.readPos
           w == m.writePos
<1>1. m \in Memory /\ Fits(m) /\ Readable(m) = s /\ z <= p
  BY DEF Holds
<1>2. z \in Nat /\ s = [i \in 1..z |-> b[r + i]] /\ s \in Seq(Cell) /\ Len(s) = z
  BY <1>1, ReadableIs
<1>3. /\ b \in Seq(Cell) /\ r \in Nat /\ w \in Nat /\ Len(b) \in Nat
      /\ z = w - r /\ w <= Len(b) /\ m = [bytes |-> b, readPos |-> r, writePos |-> w]
  BY <1>1, LenProperties DEF Memory, Fits, ReadableSize
<1>4. n = [bytes |-> b, readPos |-> r + k, writePos |-> w]
  BY <1>3 DEF AdjustReadPtr
<1>5. n \in Memory /\ n.bytes = b /\ n.readPos = r + k /\ n.writePos = w
  BY <1>3, <1>4 DEF Memory
<1> HIDE DEF n, z, b, r, w
<1>6. k \in 0..z
  BY DEF z
<1>7. Fits(n) /\ ReadableSize(n) = z - k
  BY <1>2, <1>3, <1>5, <1>6 DEF Fits, ReadableSize
<1>8. Readable(n) = [i \in 1..(z - k) |-> b[(r + k) + i]]
  BY <1>5, <1>7, ReadableIs
<1>9. Drop(s, k) = [i \in 1..(z - k) |-> b[(r + k) + i]]
  <2>1. SubSeq(s, k + 1, z) = [i \in 1..((z - (k + 1)) + 1) |-> s[((k + 1) + i) - 1]]
    BY <1>2, <1>6
  <2>2. (z - (k + 1)) + 1 = z - k
    BY <1>2, <1>6
  <2>3. ASSUME NEW i \in 1..(z - k) PROVE s[((k + 1) + i) - 1] = b[(r + k) + i]
    <3>1. ((k + 1) + i) - 1 = k + i /\ k + i \in 1..z /\ r + (k + i) = (r + k) + i
      BY <1>2, <1>3, <1>6
    <3> QED
      BY <1>2, <3>1
  <2>4. Drop(s, k) = [i \in 1..(z - k) |-> s[((k + 1) + i) - 1]]
    BY <1>2, <2>1, <2>2 DEF Drop
  <2> QED
    BY <2>3, <2>4
<1>10. ReadableSize(n) <= p
  BY <1>1, <1>2, <1>6, <1>7
<1>11. \E j \in 0..p : Len(n.bytes) = SizeAfter(0, j) /\ (j > 0 => SizeAfter(0, j - 1) < p)
  BY <1>5 DEF Holds, b
<1>12. Holds(n, Drop(s, k), p)
  BY <1>5, <1>7, <1>8, <1>9, <1>10, <1>11 DEF Holds
<1> QED
  BY <1>12 DEF n

-----------------------------------------------------------------------------
(* Which steps of AsyncBuffer touch the back buffers, and how Follow tells *)
(* them apart.                                                             *)
Swapped == spc = "swap" /\ spc' = "writev"
Pushed == wpc = "locked" /\ wpc' = "count"

(* The main thread pushes a packet, or leaves the back buffers alone. *)
LEMMA WriterTouches ==
  ASSUME BoundsInv, WriterStep \/ (\E len \in Sizes : SendPacket(len))
  PROVE  /\ tmpBuf' = tmpBuf /\ sent' = sent /\ ~Swapped
         /\ Pushed => backBuf' = backBuf \o Bytes(written, cur)
         /\ ~Pushed => backBuf' = backBuf
<1>1. tmpBuf' = tmpBuf /\ sent' = sent /\ spc' = spc
  BY DEF WriterStep, SendPacket, LockBack, PushBack, CountBack, UnlockBack, PushRing,
         bufVars, senderVars
<1>2. /\ Pushed => backBuf' = backBuf \o Bytes(written, cur)
      /\ ~Pushed => backBuf' = backBuf
  BY DEF Pushed, WriterStep, SendPacket, LockBack, PushBack, CountBack, UnlockBack, PushRing,
         bufVars
<1> QED
  BY <1>1, <1>2 DEF Swapped

(* The send thread swaps them, takes bytes from tmpBuf_, or leaves them alone. *)
LEMMA SenderTouches ==
  ASSUME BoundsInv, SenderStep \/ WriteError \/ WriteEventUnhandled
  PROVE  /\ ~Pushed
         /\ Swapped => tmpBuf' = backBuf /\ backBuf' = tmpBuf
         /\ ~Swapped => /\ backBuf' = backBuf
                        /\ \/ tmpBuf' = tmpBuf /\ (tmpBuf = <<>> \/ Len(sent') = Len(sent))
                           \/ \E k \in 0..Len(tmpBuf) :
                                tmpBuf' = Drop(tmpBuf, k) /\ Len(sent') = Len(sent) + k
<1>1. wpc' = wpc
  BY DEF SenderStep, ProcessBuffer, CheckBack, TryLockBack, ResetBack, SwapBack, Writev,
         WriteError, WriteEventUnhandled, writerVars
<1>2. ~Pushed
  BY <1>1 DEF Pushed
<1>3. CASE SwapBack
  BY <1>2, <1>3 DEF SwapBack, Swapped
<1>4. CASE Writev
  <2>1. PICK k \in 0..iovLen :
          /\ sent' = sent \o SubSeq(IF tmpBuf # <<>> THEN tmpBuf ELSE buffer, 1, k)
          /\ Skip(k)
    BY <1>4 DEF Writev
  <2>2. /\ sent \in Seq(Byte) /\ tmpBuf \in Seq(Byte) /\ iovLen \in Nat
        /\ iovLen \in 1..Len(IF tmpBuf # <<>> THEN tmpBuf ELSE buffer)
        /\ ~Swapped /\ backBuf' = backBuf
    BY <1>4 DEF BoundsInv, TypeOK, AssertsHold, Writev, Swapped
  <2>3. CASE tmpBuf # <<>>
    <3>1. k \in 0..Len(tmpBuf)
      BY <2>2, <2>3
    <3>2. SubSeq(tmpBuf, 1, k) \in Seq(Byte) /\ Len(SubSeq(tmpBuf, 1, k)) = k
      BY <2>2, <3>1, CutType
    <3>3. sent' = sent \o SubSeq(tmpBuf, 1, k) /\ tmpBuf' = Drop(tmpBuf, k)
      BY <2>1, <2>3 DEF Skip
    <3>4. Len(sent') = Len(sent) + k
      BY <2>2, <3>2, <3>3, ConcatProperties
    <3> QED
      BY <1>2, <2>2, <3>1, <3>3, <3>4
  <2>4. CASE tmpBuf = <<>>
    BY <1>2, <2>1, <2>2, <2>4 DEF Skip
  <2> QED
    BY <2>3, <2>4
<1>5. CASE ProcessBuffer \/ CheckBack \/ TryLockBack \/ ResetBack \/ WriteError
           \/ WriteEventUnhandled
  <2>1. tmpBuf' = tmpBuf /\ backBuf' = backBuf /\ sent' = sent
    BY <1>5 DEF ProcessBuffer, CheckBack, TryLockBack, ResetBack, WriteError,
                WriteEventUnhandled, bufVars
  <2>2. ~Swapped
    BY <1>5 DEF ProcessBuffer, CheckBack, TryLockBack, ResetBack, WriteError,
                WriteEventUnhandled, Swapped
  <2> QED
    BY <1>2, <2>1, <2>2
<1> QED
  BY <1>3, <1>4, <1>5 DEF SenderStep

(* The empty buffers hold nothing. *)
LEMMA MemInit == BackInit => MemInv
<1> SUFFICES ASSUME BackInit PROVE MemInv
  OBVIOUS
<1> DEFINE e == EmptyBuffer
<1>1. e \in Memory /\ e.bytes = <<>> /\ e.readPos = 0 /\ e.writePos = 0
  BY EmptySeq DEF EmptyBuffer, Memory
<1> HIDE DEF e
<1>2. Len(e.bytes) = 0
  BY <1>1, EmptySeq
<1>3. Fits(e) /\ ReadableSize(e) = 0
  BY <1>1, <1>2 DEF Fits, ReadableSize
<1>4. Readable(e) \in Seq(Cell) /\ Len(Readable(e)) = 0
  BY <1>1, <1>3, ReadableIs
<1>5. Readable(e) = <<>>
  BY <1>4, EmptySeq
<1>6. 0 \in 0..0 /\ SizeAfter(0, 0) = 0
  BY SizesFromZero
<1>7. Holds(e, <<>>, 0)
  BY <1>1, <1>2, <1>3, <1>5, <1>6 DEF Holds
<1> QED
  BY <1>7 DEF MemInv, BackInit, Init, e

(* The larger of two naturals. *)
LEMMA MaxOfTwo ==
  ASSUME NEW a \in Nat, NEW b \in Nat
  PROVE  Max({a, b}) \in Nat /\ Max({a, b}) >= a /\ Max({a, b}) >= b
<1>1. \E x \in {a, b} : \A y \in {a, b} : x >= y
  <2>1. CASE a >= b
    BY <2>1
  <2>2. CASE b >= a
    BY <2>2
  <2> QED
    BY <2>1, <2>2
<1>2. Max({a, b}) \in {a, b} /\ \A y \in {a, b} : Max({a, b}) >= y
  BY <1>1 DEF Max
<1> QED
  BY <1>2

(* What Follow does, in the words above. *)
LEMMA FollowIs ==
  ASSUME Follow
  PROVE  /\ tmpMem' = IF Swapped THEN backMem
                      ELSE IF Len(sent') - Len(sent) > 0 /\ ReadableSize(tmpMem) > 0
                      THEN AdjustReadPtr(tmpMem, Len(sent') - Len(sent))
                      ELSE tmpMem
         /\ backMem' = IF Swapped THEN tmpMem
                       ELSE IF Pushed THEN PushData(backMem, Bytes(written, cur))
                       ELSE backMem
         /\ peak' = Max({peak, ReadableSize(backMem')})
BY DEF Follow, Swapped, Pushed

(* The peak covers the back buffer after every step. *)
LEMMA PeakCovers ==
  ASSUME MemInv, Follow, BoundsInv
  PROVE  peak' \in Nat /\ peak' >= peak /\ ReadableSize(backMem') <= peak'
<1>1. /\ tmpMem \in Memory /\ Fits(tmpMem) /\ backMem \in Memory /\ Fits(backMem) /\ peak \in Nat
  BY DEF MemInv, Holds
<1>2. ReadableSize(tmpMem) \in Nat /\ ReadableSize(backMem) \in Nat
  BY <1>1, ReadableIs
<1>3. ReadableSize(PushData(backMem, Bytes(written, cur))) \in Nat
  <2> DEFINE d == Bytes(written, cur)
  <2>1. d \in Seq(Byte)
    BY BytesType DEF BoundsInv, TypeOK
  <2> HIDE DEF d
  <2>2. PushData(backMem, d) \in Memory /\ Fits(PushData(backMem, d))
    BY <1>1, <2>1, PushDataIs
  <2>3. ReadableSize(PushData(backMem, d)) \in Nat
    BY <2>2, ReadableIs
  <2> QED
    BY <2>3 DEF d
<1>4. ReadableSize(backMem') \in Nat
  BY <1>2, <1>3, FollowIs
<1>5. peak' = Max({peak, ReadableSize(backMem')})
  BY FollowIs
<1> QED
  BY <1>1, <1>4, <1>5, MaxOfTwo

(* The memory follows the steps of AsyncBuffer. *)
LEMMA MemStep ==
  ASSUME BoundsInv, MemInv, Next, Follow
  PROVE  MemInv'
<1>1. peak \in Nat /\ Holds(tmpMem, tmpBuf, peak) /\ Holds(backMem, backBuf, peak)
  BY DEF MemInv
<1>2. peak' \in Nat /\ peak' >= peak /\ ReadableSize(backMem') <= peak'
  BY PeakCovers
<1>3. peak <= peak'
  BY <1>1, <1>2
<1>4. Holds(tmpMem, tmpBuf, peak') /\ Holds(backMem, backBuf, peak')
  BY <1>1, <1>2, <1>3, HoldsMore
<1>5. CASE WriterStep \/ (\E len \in Sizes : SendPacket(len))
  <2>1. /\ tmpBuf' = tmpBuf /\ sent' = sent /\ ~Swapped
        /\ Pushed => backBuf' = backBuf \o Bytes(written, cur)
        /\ ~Pushed => backBuf' = backBuf
    BY <1>5, WriterTouches
  <2>2. tmpMem' = tmpMem
    <3>1. Len(sent') - Len(sent) = 0
      <4>1. Len(sent) \in Nat
        BY LenProperties DEF BoundsInv, TypeOK
      <4> QED
        BY <2>1, <4>1
    <3> QED
      BY <2>1, <3>1, FollowIs
  <2>3. CASE Pushed
    <3> DEFINE d == Bytes(written, cur)
    <3>1. d \in Seq(Byte)
      BY BytesType DEF BoundsInv, TypeOK
    <3>2. backMem' = PushData(backMem, d) /\ backBuf' = backBuf \o d
      BY <2>1, <2>3, FollowIs
    <3> HIDE DEF d
    <3>3. Holds(PushData(backMem, d), backBuf \o d, peak')
      BY <1>1, <1>2, <1>3, <3>1, <3>2, HoldsPush
    <3> QED
      BY <1>2, <1>4, <2>1, <2>2, <3>2, <3>3 DEF MemInv
  <2>4. CASE ~Pushed
    <3>1. backMem' = backMem
      BY <2>1, <2>4, FollowIs
    <3> QED
      BY <1>2, <1>4, <2>1, <2>2, <2>4, <3>1 DEF MemInv
  <2> QED
    BY <2>3, <2>4
<1>6. CASE SenderStep \/ WriteError \/ WriteEventUnhandled
  <2>1. ~Pushed
    BY <1>6, SenderTouches
  <2>2. CASE Swapped
    <3>1. tmpBuf' = backBuf /\ backBuf' = tmpBuf /\ tmpMem' = backMem /\ backMem' = tmpMem
      BY <1>6, <2>2, SenderTouches, FollowIs
    <3> QED
      BY <1>2, <1>4, <3>1 DEF MemInv
  <2>3. CASE ~Swapped
    <3>1. backBuf' = backBuf /\ backMem' = backMem
      BY <1>6, <2>1, <2>3, SenderTouches, FollowIs
    <3>2. /\ Len(sent) \in Nat /\ ReadableSize(tmpMem) \in Nat
          /\ Len(tmpBuf) = ReadableSize(tmpMem) /\ tmpBuf \in Seq(Byte)
      <4>1. tmpMem \in Memory /\ Fits(tmpMem) /\ Readable(tmpMem) = tmpBuf
        BY <1>1 DEF Holds
      <4> QED
        BY <4>1, ReadableIs, LenProperties DEF BoundsInv, TypeOK
    <3>3. CASE tmpBuf' = tmpBuf /\ (tmpBuf = <<>> \/ Len(sent') = Len(sent))
      <4>1. ~(Len(sent') - Len(sent) > 0 /\ ReadableSize(tmpMem) > 0)
        BY <3>2, <3>3, EmptyIffLen
      <4>2. tmpMem' = tmpMem
        BY <2>3, <4>1, FollowIs
      <4> QED
        BY <1>2, <1>4, <3>1, <3>3, <4>2 DEF MemInv
    <3>4. CASE \E k \in 0..Len(tmpBuf) : tmpBuf' = Drop(tmpBuf, k) /\ Len(sent') = Len(sent) + k
      <4>1. PICK k \in 0..Len(tmpBuf) : tmpBuf' = Drop(tmpBuf, k) /\ Len(sent') = Len(sent) + k
        BY <3>4
      <4>2. Len(sent') - Len(sent) = k /\ k \in 0..ReadableSize(tmpMem)
        BY <3>2, <4>1
      <4>3. CASE k = 0
        <5>1. Drop(tmpBuf, k) = tmpBuf
          BY <3>2, <4>3, SubSeqFull DEF Drop
        <5>2. tmpMem' = tmpMem
          BY <2>3, <4>2, <4>3, FollowIs
        <5> QED
          BY <1>2, <1>4, <3>1, <4>1, <5>1, <5>2 DEF MemInv
      <4>4. CASE k # 0
        <5>1. Len(sent') - Len(sent) > 0 /\ ReadableSize(tmpMem) > 0
          BY <3>2, <4>2, <4>4
        <5>2. tmpMem' = AdjustReadPtr(tmpMem, k)
          BY <2>3, <4>2, <5>1, FollowIs
        <5>3. Holds(AdjustReadPtr(tmpMem, k), Drop(tmpBuf, k), peak')
          BY <1>2, <1>4, <4>2, HoldsSkip
        <5> QED
          BY <1>2, <1>4, <3>1, <4>1, <5>2, <5>3 DEF MemInv
      <4> QED
        BY <4>3, <4>4
    <3> QED
      BY <1>6, <2>3, <3>3, <3>4, SenderTouches
  <2> QED
    BY <2>2, <2>3
<1> QED
  BY <1>5, <1>6 DEF Next

(* The memory does what it stands for. *)
LEMMA MemInvIsSound == MemInv => MemoryIsSound
<1> SUFFICES ASSUME MemInv PROVE MemoryIsSound
  OBVIOUS
<1>1. peak \in Nat /\ Holds(tmpMem, tmpBuf, peak) /\ Holds(backMem, backBuf, peak)
  BY DEF MemInv
<1>2. BytesAreKept
  BY <1>1 DEF BytesAreKept, Holds
<1>3. GrowthIsBounded
  BY <1>1, HoldsBound DEF GrowthIsBounded
<1> QED
  BY <1>2, <1>3 DEF MemoryIsSound

(* With the memory of the back buffers in view, AsyncBuffer is unchanged. *)
THEOREM MemoryOnlyFollows == BackSpec => Spec
<1>1. BackInit => Init
  BY DEF BackInit
<1>2. [Next /\ Follow]_<<vars, memVars>> => [Next]_vars
  OBVIOUS
<1> QED
  BY <1>1, <1>2, PTL DEF BackSpec, Spec

(* So the send side with its memory implements the two lanes as well. *)
THEOREM LanesWithMemory == BackSpec => ImplementsLanes
BY MemoryOnlyFollows, LanesAreImplemented, PTL

(* The bytes in tmpBuf_ and backBuf_ are those that were pushed and not yet *)
(* read, and the memory grows no further than the most that was in one of   *)
(* them calls for, through every growth, move, swap and partial read.       *)
THEOREM MemoryStaysSound == BackSpec => []MemoryIsSound
<1>1. BoundsInv /\ MemInv /\ [Next /\ Follow]_<<vars, memVars>> => MemInv'
  <2>1. MemInv /\ UNCHANGED <<vars, memVars>> => MemInv'
    BY DEF MemInv, vars, memVars, bufVars
  <2> QED
    BY <2>1, MemStep
<1> QED
  BY <1>1, MemInit, MemInvIsSound, MemoryOnlyFollows, Bounds, PTL DEF BackSpec
=============================================================================
