-------------------------- MODULE RingBufferProofs --------------------------
(***************************************************************************)
(* The lock-free receive buffer is safe, for every capacity and every      *)
(* number of bytes: RingInv is inductive, and it gives AssertsHold,        *)
(* ThreadsKeepApart and HandledInOrder.                                    *)
(***************************************************************************)
EXTENDS RingBuffer, SequenceTheorems, TLAPS

(* The modulus, out of arithmetic the provers find hard. *)
LEMMA CapacityType == Capacity \in Nat /\ Capacity > 1
  BY CapacityAssumption

(* Masking a position that has moved on is one step around the ring. *)
LEMMA MaskForward ==
  ASSUME NEW p \in Positions, NEW n \in 0..Capacity
  PROVE  (p + n) % Capacity = Ahead(p, n)
<1> USE CapacityType DEF Positions
<1>1. ASSUME NEW x \in Nat, x < Capacity PROVE x % Capacity = x
  BY <1>1, Z3
<1>2. ASSUME NEW x \in Nat, x >= Capacity, x < 2 * Capacity PROVE x % Capacity = x - Capacity
  BY <1>2, Z3
<1> QED BY <1>1, <1>2 DEF Ahead

(* Masking a difference of positions, which size_t may wrap around. *)
LEMMA MaskDifference ==
  ASSUME NEW w \in Positions, NEW r \in Positions
  PROVE  (w - r) % Capacity = IF w >= r THEN w - r ELSE w - r + Capacity
<1> USE CapacityType DEF Positions
<1>1. ASSUME NEW x \in Nat, x < Capacity PROVE x % Capacity = x
  BY <1>1, Z3
<1>2. ASSUME NEW x \in Int, x < 0, x >= -Capacity PROVE x % Capacity = x + Capacity
  BY <1>2, Z3
<1> QED BY <1>1, <1>2

(* From r to w it is as far as the masked difference says. *)
LEMMA DifferenceIsAhead ==
  ASSUME NEW w \in Positions, NEW r \in Positions
  PROVE  (w - r) % Capacity \in 0..(Capacity - 1) /\ w = Ahead(r, (w - r) % Capacity)
BY MaskDifference, CapacityType DEF Positions, Ahead

(* The sizes both threads compute, without the mask. *)
LEMMA Sizes ==
  ASSUME TypeOK
  PROVE  /\ ReadableSize = IF writePos >= readPos THEN writePos - readPos
                                                  ELSE writePos - readPos + Capacity
         /\ ReadableSize \in 0..(Capacity - 1)
         /\ WriteableSize = Capacity - 1 - ReadableSize
         /\ writePos = Ahead(readPos, ReadableSize)
<1>1. readPos \in Positions /\ writePos \in Positions
  BY DEF TypeOK
<1>2. ReadableSize = IF writePos >= readPos THEN writePos - readPos
                                            ELSE writePos - readPos + Capacity
  BY <1>1, MaskDifference DEF ReadableSize
<1>3. ReadableSize \in 0..(Capacity - 1) /\ writePos = Ahead(readPos, ReadableSize)
  BY <1>1, <1>2, CapacityType DEF Positions, Ahead
<1>4. WriteableSize = Capacity - 1 - ReadableSize
  BY <1>3, CapacityType DEF WriteableSize
<1> QED BY <1>2, <1>3, <1>4

(* The i-th byte of an area is i positions ahead of its start. *)
LEMMA SlotIsAhead ==
  ASSUME NEW bf \in IovecsType, NEW p \in Positions, NEW n \in 0..(Capacity - 1),
         Covers(bf, p, n), NEW i \in 0..(TotalBytes(bf) - 1)
  PROVE  Slot(bf, i) = Ahead(p, i) /\ Ahead(p, i) \in Positions
BY CapacityType DEF Covers, IovecsType, Positions, TotalBytes, Slot, Ahead

(* Less than a full turn ahead, positions differ. *)
LEMMA AheadInjective ==
  ASSUME NEW p \in Positions, NEW i \in 0..(Capacity - 1), NEW j \in 0..(Capacity - 1),
         Ahead(p, i) = Ahead(p, j)
  PROVE  i = j
BY CapacityType DEF Positions, Ahead

(* Going ahead twice. *)
LEMMA AheadAdds ==
  ASSUME NEW p \in Positions, NEW i \in Nat, NEW j \in Nat, i + j < Capacity
  PROVE  /\ Ahead(p, i) \in Positions
         /\ Ahead(Ahead(p, i), j) = Ahead(p, i + j)
BY CapacityType DEF Positions, Ahead

(* RingInv holds initially; then one lemma per action. *)
LEMMA InitHolds == Init => RingInv
<1> SUFFICES ASSUME Init PROVE RingInv
  OBVIOUS
<1>1. TypeOK
  BY CapacityType DEF Init, TypeOK, Positions, IovecsType, None, Iovecs
<1>2. ReadableSize = 0 /\ Released = 0
  BY <1>1, Sizes DEF Init, Released
<1> QED
  BY <1>1, <1>2 DEF Init, RingInv, ContentInv, SpaceInv, DatumInv, HandledInOrder

(* The test: the main thread can only make more room. *)
LEMMA CheckSpaceKeeps == RingInv /\ CheckSpace => RingInv'
<1> SUFFICES ASSUME RingInv, CheckSpace PROVE RingInv'
  OBVIOUS
<1>1. TypeOK'
  BY DEF RingInv, TypeOK, CheckSpace, mainVars
<1>2. /\ UNCHANGED <<readPos, writePos, ring, received, handled, mainAt, datum, maxSize>>
      /\ recvAt' = "checked" /\ HasSpace
  BY DEF CheckSpace, mainVars
<1>3. ReadableSize' = ReadableSize /\ WriteableSize' = WriteableSize /\ Released' = Released
  BY <1>2 DEF ReadableSize, WriteableSize, Released
<1>4. ContentInv'
  BY <1>2, <1>3 DEF RingInv, ContentInv, Ahead
<1>5. SpaceInv'
  BY <1>2, <1>3 DEF SpaceInv, HasSpace
<1>6. DatumInv' /\ HandledInOrder'
  BY <1>2, <1>3 DEF RingInv, DatumInv, HandledInOrder, Covers
<1> QED BY <1>1, <1>4, <1>5, <1>6 DEF RingInv

(* The area is computed from a later read of readPos_. *)
LEMMA GetSpaceKeeps == RingInv /\ GetSpace => RingInv'
<1> SUFFICES ASSUME RingInv, GetSpace PROVE RingInv'
  OBVIOUS
<1>1. /\ UNCHANGED <<readPos, writePos, ring, received, handled, mainAt, datum, maxSize, got>>
      /\ recvAt = "checked" /\ recvAt' = "space" /\ space' = FreeSpace
  BY DEF GetSpace, mainVars
<1>2. TypeOK
  BY DEF RingInv
<1>3. WriteableSize > 1
  BY <1>1 DEF RingInv, SpaceInv
<1>4. FreeSpace \in IovecsType /\ Covers(FreeSpace, writePos, WriteableSize)
  <2> DEFINE len1 == IF readPos > writePos THEN readPos - writePos - 1
                     ELSE IF readPos = 0 THEN Capacity - writePos - 1 ELSE Capacity - writePos
             len2 == IF readPos > writePos \/ readPos = 0 THEN 0 ELSE readPos - 1
  <2>1. FreeSpace = [at |-> writePos, len1 |-> len1, len2 |-> len2]
    BY DEF FreeSpace, Iovecs
  <2>2. readPos \in Positions /\ writePos \in Positions
    BY <1>2 DEF TypeOK
  <2>3. /\ readPos \in Int /\ 0 <= readPos /\ readPos < Capacity
        /\ writePos \in Int /\ 0 <= writePos /\ writePos < Capacity
    BY <2>2, CapacityType DEF Positions
  <2>4. WriteableSize = IF readPos > writePos THEN readPos - writePos - 1
                        ELSE Capacity - (writePos - readPos) - 1
    BY <1>2, Sizes, <2>3, CapacityType
  <2>5. /\ len1 \in Nat /\ len2 \in Nat /\ len1 <= Capacity - writePos
        /\ len2 > 0 => len1 = Capacity - writePos
        /\ len1 + len2 <= WriteableSize
    BY <2>3, <2>4, CapacityType
  <2> HIDE DEF len1, len2
  <2>6. FreeSpace \in IovecsType
    BY <2>1, <2>2, <2>5 DEF IovecsType
  <2>7. Covers(FreeSpace, writePos, WriteableSize)
    BY <2>1, <2>5 DEF Covers, TotalBytes
  <2> QED BY <2>6, <2>7
<1>5. TypeOK'
  BY <1>1, <1>2, <1>4 DEF TypeOK
<1>6. ReadableSize' = ReadableSize /\ WriteableSize' = WriteableSize /\ Released' = Released
  BY <1>1 DEF ReadableSize, WriteableSize, Released
<1>7. ContentInv'
  BY <1>1, <1>6 DEF RingInv, ContentInv, Ahead
<1>8. SpaceInv'
  BY <1>1, <1>4, <1>6 DEF SpaceInv, Covers
<1>9. DatumInv' /\ HandledInOrder'
  BY <1>1, <1>6 DEF RingInv, DatumInv, HandledInOrder, Covers
<1> QED BY <1>5, <1>7, <1>8, <1>9 DEF RingInv

(* readv writes only into free positions. *)
LEMMA ReadVKeeps == ASSUME NEW n \in 0..(Capacity - 1) PROVE RingInv /\ ReadV(n) => RingInv'
<1> SUFFICES ASSUME RingInv, ReadV(n) PROVE RingInv'
  OBVIOUS
<1>1. /\ UNCHANGED <<readPos, writePos, received, handled, mainAt, datum, maxSize, space>>
      /\ recvAt = "space" /\ recvAt' = (IF n > 0 THEN "filled" ELSE "idle")
      /\ n <= TotalBytes(space) /\ got' = n
  BY DEF ReadV, mainVars
<1>2. TypeOK /\ readPos \in Positions /\ writePos \in Positions /\ space \in IovecsType
      /\ received \in Nat /\ ring \in [Positions -> Nat] /\ n \in Nat
  BY CapacityType DEF RingInv, TypeOK
<1>3. Covers(space, writePos, WriteableSize)
  BY <1>1 DEF RingInv, SpaceInv
<1>4. /\ ReadableSize \in 0..(Capacity - 1) /\ WriteableSize = Capacity - 1 - ReadableSize
      /\ writePos = Ahead(readPos, ReadableSize) /\ WriteableSize \in 0..(Capacity - 1)
  BY <1>2, Sizes, CapacityType
<1>5. n <= WriteableSize /\ TotalBytes(space) \in Nat
  BY <1>1, <1>2, <1>3, <1>4, CapacityType DEF Covers, IovecsType, TotalBytes
<1>6. \A i \in 0..(n - 1) : Slot(space, i) = Ahead(writePos, i) /\ Ahead(writePos, i) \in Positions
  <2> TAKE i \in 0..(n - 1)
  <2>1. i \in 0..(TotalBytes(space) - 1)
    BY <1>1, <1>2, <1>5
  <2> QED BY <1>2, <1>3, <1>4, <2>1, SlotIsAhead
<1>7. \A i, j \in 0..(n - 1) : Slot(space, i) = Slot(space, j) => i = j
  <2> TAKE i, j \in 0..(n - 1)
  <2>1. i \in 0..(Capacity - 1) /\ j \in 0..(Capacity - 1)
    BY CapacityType
  <2> QED BY <1>2, <1>6, <2>1, AheadInjective
<1>8. ring' = [p \in Positions |->
                 IF \E i \in 0..(n - 1) : p = Slot(space, i)
                 THEN received + 1 + (CHOOSE i \in 0..(n - 1) : p = Slot(space, i))
                 ELSE ring[p]]
  BY <1>2 DEF ReadV
<1>9. ASSUME NEW i \in 0..(n - 1) PROVE ring'[Ahead(writePos, i)] = received + i + 1
  <2> DEFINE k == CHOOSE j \in 0..(n - 1) : Slot(space, i) = Slot(space, j)
  <2>1. k \in 0..(n - 1) /\ Slot(space, i) = Slot(space, k)
    OBVIOUS
  <2>2. k = i
    BY <1>7, <2>1
  <2>3. ring'[Slot(space, i)] = received + 1 + k
    BY <1>6, <1>8
  <2> HIDE DEF k
  <2> QED BY <1>2, <1>6, <2>2, <2>3, CapacityType
<1>10. ASSUME NEW q \in Positions, \A i \in 0..(n - 1) : q # Ahead(writePos, i)
       PROVE  ring'[q] = ring[q]
  BY <1>6, <1>8, <1>10
<1>11. TypeOK'
  <2>1. ASSUME NEW q \in Positions PROVE ring'[q] \in Nat
    <3>1. CASE \E i \in 0..(n - 1) : q = Ahead(writePos, i)
      <4>1. PICK i \in 0..(n - 1) : q = Ahead(writePos, i)
        BY <3>1
      <4> QED BY <1>2, <1>9, <4>1, CapacityType
    <3>2. CASE \A i \in 0..(n - 1) : q # Ahead(writePos, i)
      BY <1>2, <1>10, <3>2
    <3> QED BY <3>1, <3>2
  <2>2. ring' \in [Positions -> Nat]
    BY <1>8, <2>1
  <2> QED BY <1>1, <1>2, <2>2 DEF TypeOK
<1>12. ReadableSize' = ReadableSize /\ WriteableSize' = WriteableSize /\ Released' = Released
  BY <1>1 DEF ReadableSize, WriteableSize, Released
<1>13. ContentInv'
  <2>1. ASSUME NEW j \in 0..(ReadableSize - 1) PROVE ring'[Ahead(readPos, j)] = Released + j + 1
    <3>1. ASSUME NEW i \in 0..(n - 1) PROVE Ahead(readPos, j) # Ahead(writePos, i)
      <4>1. Ahead(writePos, i) = Ahead(readPos, ReadableSize + i)
        BY <1>2, <1>4, <1>5, AheadAdds, CapacityType
      <4>2. j \in 0..(Capacity - 1) /\ ReadableSize + i \in 0..(Capacity - 1) /\ j # ReadableSize + i
        BY <1>2, <1>4, <1>5, CapacityType
      <4> QED BY <1>2, <4>1, <4>2, AheadInjective
    <3>2. Ahead(readPos, j) \in Positions
      BY <1>2, <1>4, CapacityType DEF Ahead, Positions
    <3> QED BY <1>10, <3>1, <3>2 DEF RingInv, ContentInv
  <2> QED BY <1>1, <1>12, <2>1 DEF RingInv, ContentInv, Ahead
<1>14. SpaceInv'
  BY <1>1, <1>3, <1>9, <1>12 DEF SpaceInv, Covers, Ahead, TotalBytes
<1>15. DatumInv' /\ HandledInOrder'
  BY <1>1, <1>12 DEF RingInv, DatumInv, HandledInOrder, Covers
<1> QED BY <1>11, <1>13, <1>14, <1>15 DEF RingInv

(* Publishing makes the bytes readable that were written. *)
LEMMA AdjustWritePtrKeeps == RingInv /\ AdjustWritePtr => RingInv'
<1> SUFFICES ASSUME RingInv, AdjustWritePtr PROVE RingInv'
  OBVIOUS
<1>1. /\ UNCHANGED <<readPos, ring, handled, mainAt, datum, maxSize, space, got>>
      /\ recvAt = "filled" /\ recvAt' = "idle"
      /\ writePos' = (writePos + got) % Capacity /\ received' = received + got
  BY DEF AdjustWritePtr, mainVars
<1>2. TypeOK /\ readPos \in Positions /\ writePos \in Positions /\ got \in Nat /\ received \in Nat
      /\ space \in IovecsType
  BY DEF RingInv, TypeOK
<1>3. /\ ReadableSize \in 0..(Capacity - 1) /\ WriteableSize = Capacity - 1 - ReadableSize
      /\ writePos = Ahead(readPos, ReadableSize)
  BY <1>2, Sizes
<1>4. got + ReadableSize < Capacity
  <2>1. got <= TotalBytes(space) /\ TotalBytes(space) <= WriteableSize
    BY <1>1 DEF RingInv, SpaceInv, Covers
  <2> QED BY <1>2, <1>3, <2>1, CapacityType DEF IovecsType, TotalBytes
<1>5. writePos' = Ahead(writePos, got) /\ writePos' = Ahead(readPos, ReadableSize + got)
  BY <1>1, <1>2, <1>3, <1>4, MaskForward, AheadAdds, CapacityType
<1>6. writePos' \in Positions
  BY <1>2, <1>3, <1>4, <1>5, CapacityType DEF Ahead, Positions
<1>7. TypeOK'
  BY <1>1, <1>2, <1>6 DEF TypeOK
<1>8. ReadableSize' = ReadableSize + got
  <2>1. ReadableSize' \in 0..(Capacity - 1) /\ writePos' = Ahead(readPos, ReadableSize')
    BY <1>1, <1>2, <1>6, DifferenceIsAhead DEF ReadableSize
  <2> QED BY <1>2, <1>3, <1>4, <1>5, <2>1, AheadInjective, CapacityType
<1>9. Released' = Released
  BY <1>1 DEF Released
<1>10. ContentInv'
  <2>1. received = Released + ReadableSize
    BY DEF RingInv, ContentInv
  <2>2. Released \in Int
    BY <1>2 DEF Released, TypeOK, IovecsType, TotalBytes
  <2>3. received' = Released + ReadableSize'
    BY <1>1, <1>2, <1>3, <1>8, <2>1, <2>2
  <2>4. ASSUME NEW i \in 0..(ReadableSize' - 1) PROVE ring[Ahead(readPos, i)] = Released + i + 1
    <3>1. CASE i < ReadableSize
      BY <1>2, <1>3, <1>8, <3>1 DEF RingInv, ContentInv
    <3>2. CASE i >= ReadableSize
      <4>1. i - ReadableSize \in 0..(got - 1)
        BY <1>2, <1>3, <1>8, <3>2
      <4>2. ring[Ahead(writePos, i - ReadableSize)] = received + (i - ReadableSize) + 1
        BY <1>1, <4>1 DEF RingInv, SpaceInv
      <4>3. Ahead(writePos, i - ReadableSize) = Ahead(readPos, i)
        BY <1>2, <1>3, <1>4, <1>8, <4>1, AheadAdds, CapacityType
      <4> QED BY <1>2, <1>3, <2>1, <2>2, <4>1, <4>2, <4>3
    <3> QED BY <1>2, <1>3, <1>8, <3>1, <3>2
  <2> QED BY <1>1, <1>9, <2>3, <2>4 DEF ContentInv, Ahead
<1>11. SpaceInv'
  BY <1>1 DEF SpaceInv
<1>12. DatumInv'
  BY <1>1, <1>2, <1>3, <1>8 DEF RingInv, DatumInv, Covers, TypeOK, IovecsType, TotalBytes
<1>13. HandledInOrder'
  BY <1>1 DEF RingInv, HandledInOrder
<1> QED BY <1>7, <1>10, <1>11, <1>12, <1>13 DEF RingInv

(* The receive thread can only make more readable. *)
LEMMA LookKeeps == RingInv /\ Look => RingInv'
<1> SUFFICES ASSUME RingInv, Look PROVE RingInv'
  OBVIOUS
<1>1. /\ UNCHANGED <<readPos, writePos, ring, received, handled, datum, recvAt, space, got>>
      /\ mainAt = "idle" /\ mainAt' = "looked" /\ maxSize' = ReadableSize /\ writePos # readPos
  BY DEF Look, recvVars, IsEmpty
<1>2. TypeOK /\ readPos \in Positions /\ writePos \in Positions
  BY DEF RingInv, TypeOK
<1>3. ReadableSize \in 0..(Capacity - 1) /\ ReadableSize > 0
  BY <1>1, <1>2, Sizes, CapacityType DEF Positions
<1>4. TypeOK'
  BY <1>1, <1>2, <1>3, CapacityType DEF TypeOK
<1>5. ReadableSize' = ReadableSize /\ WriteableSize' = WriteableSize /\ Released' = Released
  BY <1>1 DEF ReadableSize, WriteableSize, Released
<1>6. ContentInv'
  BY <1>1, <1>5 DEF RingInv, ContentInv, Ahead
<1>7. SpaceInv'
  BY <1>1, <1>5 DEF RingInv, SpaceInv, Covers, Ahead, TotalBytes
<1>8. DatumInv' /\ HandledInOrder'
  BY <1>1, <1>3, <1>5, CapacityType DEF RingInv, DatumInv, HandledInOrder
<1> QED BY <1>4, <1>6, <1>7, <1>8 DEF RingInv

(* The area to read from, with a later read of writePos_. *)
LEMMA GetDatumKeeps == RingInv /\ GetDatum => RingInv'
<1> SUFFICES ASSUME RingInv, GetDatum PROVE RingInv'
  OBVIOUS
<1>1. /\ UNCHANGED <<readPos, writePos, ring, received, handled, maxSize, recvAt, space, got>>
      /\ mainAt = "looked" /\ mainAt' = "datum" /\ datum' = Datum
  BY DEF GetDatum, recvVars
<1>2. TypeOK /\ readPos \in Positions /\ writePos \in Positions /\ maxSize \in Nat
  BY DEF RingInv, TypeOK
<1>3. maxSize > 0 /\ maxSize <= ReadableSize
  BY <1>1 DEF RingInv, DatumInv
<1>4. Datum \in IovecsType /\ Covers(Datum, readPos, ReadableSize)
  <2> USE CapacityType, <1>2, <1>3, Sizes
      DEF Positions, Datum, Iovecs, IovecsType, Covers, TotalBytes, AtMost
  <2>1. CASE readPos < writePos
    BY <2>1
  <2>2. CASE readPos >= writePos
    BY <2>2
  <2> QED BY <2>1, <2>2
<1>5. TypeOK'
  BY <1>1, <1>2, <1>4 DEF TypeOK
<1>6. ReadableSize' = ReadableSize /\ WriteableSize' = WriteableSize /\ Released' = Released
  BY <1>1 DEF ReadableSize, WriteableSize, Released
<1>7. ContentInv'
  BY <1>1, <1>6 DEF RingInv, ContentInv, Ahead
<1>8. SpaceInv'
  BY <1>1, <1>6 DEF RingInv, SpaceInv, Covers, Ahead, TotalBytes
<1>9. DatumInv' /\ HandledInOrder'
  BY <1>1, <1>4, <1>6 DEF RingInv, DatumInv, HandledInOrder, Covers
<1> QED BY <1>5, <1>7, <1>8, <1>9 DEF RingInv

(* What is handled is what comes next in the stream. *)
LEMMA HandlePacketKeeps == RingInv /\ HandlePacket => RingInv'
<1> SUFFICES ASSUME RingInv, HandlePacket PROVE RingInv'
  OBVIOUS
<1> DEFINE n == TotalBytes(datum)
<1> DEFINE bytes == [i \in 1..n |-> ring[Slot(datum, i - 1)]]
<1>1. /\ UNCHANGED <<readPos, writePos, ring, received, maxSize, datum, recvAt, space, got>>
      /\ mainAt = "datum" /\ mainAt' = "handled" /\ handled' = handled \o bytes
  BY DEF HandlePacket, recvVars
<1>2. TypeOK /\ readPos \in Positions /\ datum \in IovecsType /\ handled \in Seq(Nat)
      /\ ring \in [Positions -> Nat]
  BY DEF RingInv, TypeOK
<1>3. Covers(datum, readPos, ReadableSize) /\ ReadableSize \in 0..(Capacity - 1)
  BY <1>1, <1>2, Sizes DEF RingInv, DatumInv
<1>4. n \in Nat /\ n <= ReadableSize
  BY <1>2, <1>3, CapacityType DEF Covers, IovecsType, TotalBytes
<1>5. Released = Len(handled)
  BY <1>1, <1>2 DEF Released
<1>6. ASSUME NEW i \in 1..n PROVE bytes[i] = Len(handled) + i
  <2> HIDE DEF n
  <2>1. i - 1 \in 0..(n - 1) /\ i - 1 \in 0..(ReadableSize - 1)
    BY <1>3, <1>4, CapacityType
  <2>2. Slot(datum, i - 1) = Ahead(readPos, i - 1)
    BY <1>2, <1>3, <2>1, SlotIsAhead DEF n
  <2>3. ring[Ahead(readPos, i - 1)] = Released + (i - 1) + 1
    BY <2>1 DEF RingInv, ContentInv
  <2> QED BY <1>2, <1>4, <1>5, <2>2, <2>3
<1>7. bytes \in Seq(Nat) /\ Len(bytes) = n
  <2>1. \A i \in 1..n : bytes[i] \in Nat
    BY <1>2, <1>4, <1>6
  <2> HIDE DEF n
  <2>2. bytes \in [1..n -> Nat]
    BY <2>1
  <2> HIDE DEF bytes
  <2> QED BY <1>4, <2>2
<1> HIDE DEF n, bytes
<1>8. /\ handled' \in Seq(Nat) /\ Len(handled') = Len(handled) + n
      /\ \A i \in 1..Len(handled') : handled'[i] = IF i <= Len(handled) THEN handled[i]
                                                                        ELSE bytes[i - Len(handled)]
  <2>1. /\ handled \o bytes \in Seq(Nat)
        /\ Len(handled \o bytes) = Len(handled) + Len(bytes)
        /\ \A i \in 1..(Len(handled) + Len(bytes)) :
             (handled \o bytes)[i] = IF i <= Len(handled) THEN handled[i] ELSE bytes[i - Len(handled)]
    BY <1>2, <1>7, ConcatProperties
  <2> QED BY <1>1, <1>7, <2>1
<1>9. TypeOK'
  BY <1>1, <1>2, <1>8 DEF TypeOK
<1>10. ReadableSize' = ReadableSize /\ WriteableSize' = WriteableSize
  BY <1>1 DEF ReadableSize, WriteableSize
<1>11. Released' = Released
  BY <1>1, <1>2, <1>4, <1>5, <1>8 DEF Released, n
<1>12. ContentInv'
  BY <1>1, <1>10, <1>11 DEF RingInv, ContentInv, Ahead
<1>13. SpaceInv'
  BY <1>1, <1>10 DEF RingInv, SpaceInv, Covers, Ahead, TotalBytes
<1>14. DatumInv'
  BY <1>1, <1>3, <1>10 DEF DatumInv, Covers
<1>15. HandledInOrder'
  <2> SUFFICES ASSUME NEW i \in 1..Len(handled') PROVE handled'[i] = i
    BY DEF HandledInOrder
  <2>1. CASE i <= Len(handled)
    BY <1>2, <1>8, <2>1 DEF RingInv, HandledInOrder
  <2>2. CASE i > Len(handled)
    <3>1. i - Len(handled) \in 1..n
      BY <1>2, <1>4, <1>8, <2>2
    <3>2. handled'[i] = bytes[i - Len(handled)] /\ bytes[i - Len(handled)] = Len(handled) + (i - Len(handled))
      BY <1>2, <1>6, <1>8, <2>2, <3>1
    <3>3. Len(handled) \in Nat /\ i \in Int
      BY <1>2, <1>8
    <3> QED BY <3>2, <3>3
  <2> QED BY <1>2, <1>8, <2>1, <2>2
<1> QED BY <1>9, <1>12, <1>13, <1>14, <1>15 DEF RingInv

(* Releasing the positions that were handled. *)
LEMMA AdjustReadPtrKeeps == RingInv /\ AdjustReadPtr => RingInv'
<1> SUFFICES ASSUME RingInv, AdjustReadPtr PROVE RingInv'
  OBVIOUS
<1> DEFINE n == TotalBytes(datum)
<1>1. /\ UNCHANGED <<writePos, ring, received, handled, maxSize, datum, recvAt, space, got>>
      /\ mainAt = "handled" /\ mainAt' = "idle" /\ readPos' = (readPos + n) % Capacity
  BY DEF AdjustReadPtr, recvVars
<1>2. /\ TypeOK /\ readPos \in Positions /\ writePos \in Positions /\ datum \in IovecsType
      /\ handled \in Seq(Nat) /\ received \in Nat /\ space \in IovecsType
  BY DEF RingInv, TypeOK
<1>3. /\ ReadableSize \in 0..(Capacity - 1) /\ writePos = Ahead(readPos, ReadableSize)
      /\ WriteableSize = Capacity - 1 - ReadableSize
  BY <1>2, Sizes
<1>4. n \in Nat /\ n <= ReadableSize
  BY <1>1, <1>2, <1>3, CapacityType DEF RingInv, DatumInv, Covers, IovecsType, TotalBytes
<1>5. Released = Len(handled) - n /\ Released' = Len(handled)
  BY <1>1, <1>2 DEF Released
<1> HIDE DEF n
<1>6. readPos' = Ahead(readPos, n) /\ readPos' \in Positions
  <2>1. readPos' = Ahead(readPos, n)
    BY <1>1, <1>2, <1>3, <1>4, MaskForward, CapacityType
  <2> QED BY <1>2, <1>3, <1>4, <2>1, CapacityType DEF Ahead, Positions
<1>7. TypeOK'
  BY <1>1, <1>2, <1>6 DEF TypeOK
<1>8. ReadableSize' = ReadableSize - n
  <2>1. ReadableSize' \in 0..(Capacity - 1) /\ writePos = Ahead(readPos', ReadableSize')
    BY <1>1, <1>2, <1>6, DifferenceIsAhead DEF ReadableSize
  <2>2. writePos = Ahead(readPos', ReadableSize - n) /\ ReadableSize - n \in 0..(Capacity - 1)
    BY <1>2, <1>3, <1>4, <1>6, AheadAdds, CapacityType
  <2> QED BY <1>6, <2>1, <2>2, AheadInjective
<1>9. WriteableSize' = WriteableSize + n
  BY <1>3, <1>4, <1>8, CapacityType DEF WriteableSize
<1>10. ContentInv'
  <2>1. received = Released' + ReadableSize'
    BY <1>2, <1>3, <1>4, <1>5, <1>8 DEF RingInv, ContentInv
  <2>2. ASSUME NEW i \in 0..(ReadableSize' - 1) PROVE ring[Ahead(readPos', i)] = Released' + i + 1
    <3>1. n + i \in 0..(ReadableSize - 1) /\ n + i < Capacity /\ i \in Nat
      BY <1>3, <1>4, <1>8, CapacityType
    <3>2. Ahead(readPos', i) = Ahead(readPos, n + i)
      BY <1>2, <1>4, <1>6, <3>1, AheadAdds
    <3>3. ring[Ahead(readPos, n + i)] = Released + (n + i) + 1
      BY <3>1 DEF RingInv, ContentInv
    <3>4. Len(handled) \in Nat
      BY <1>2
    <3> QED BY <1>4, <1>5, <3>1, <3>2, <3>3, <3>4
  <2> QED BY <1>1, <2>1, <2>2 DEF ContentInv, Ahead
<1>11. SpaceInv'
  BY <1>1, <1>2, <1>3, <1>4, <1>9, CapacityType
  DEF RingInv, SpaceInv, Covers, Ahead, TotalBytes, IovecsType
<1>12. DatumInv' /\ HandledInOrder'
  BY <1>1 DEF RingInv, DatumInv, HandledInOrder
<1> QED BY <1>7, <1>10, <1>11, <1>12 DEF RingInv

(* Nothing changes when nothing happens. *)
LEMMA StutterKeeps == RingInv /\ UNCHANGED vars => RingInv'
BY DEF RingInv, TypeOK, ContentInv, SpaceInv, DatumInv, HandledInOrder, Covers, Ahead,
       Released, ReadableSize, WriteableSize, TotalBytes, vars, recvVars, mainVars

(* RingInv is an invariant. *)
LEMMA RingInvariant == Spec => []RingInv
<1>1. RingInv /\ [Next]_vars => RingInv'
  BY CheckSpaceKeeps, GetSpaceKeeps, ReadVKeeps, AdjustWritePtrKeeps, LookKeeps, GetDatumKeeps,
     HandlePacketKeeps, AdjustReadPtrKeeps, StutterKeeps DEF Next, RecvThread, MainThread
<1> QED BY <1>1, InitHolds, PTL DEF Spec

(* The positions, and the areas handed out, stay inside of the ring. *)
THEOREM RingTypesHold == Spec => []TypeOK
<1>1. RingInv => TypeOK
  BY DEF RingInv
<1> QED BY <1>1, RingInvariant, PTL

(* The assertions of GetSpace and GetDatum never fail, however the other      *)
(* thread's position moves in the middle of the function.                     *)
THEOREM BufferAssertsHold == Spec => []AssertsHold
<1>1. RingInv => AssertsHold
  <2> SUFFICES ASSUME RingInv PROVE AssertsHold
    OBVIOUS
  <2>1. TypeOK
    BY DEF RingInv
  <2> QED
    BY <2>1, Sizes, CapacityType DEF RingInv, SpaceInv, DatumInv, AssertsHold, TypeOK, Positions
<1> QED BY <1>1, RingInvariant, PTL

(* readv's target and the main thread's source are disjoint. *)
THEOREM NoOverlap == Spec => []ThreadsKeepApart
<1>1. RingInv => ThreadsKeepApart
  <2> SUFFICES ASSUME RingInv, recvAt = "space", mainAt = "datum",
                      NEW i \in 0..(TotalBytes(space) - 1), NEW j \in 0..(TotalBytes(datum) - 1)
               PROVE  Slot(space, i) # Slot(datum, j)
    BY DEF ThreadsKeepApart, Slots
  <2>1. /\ TypeOK /\ readPos \in Positions /\ writePos \in Positions
        /\ space \in IovecsType /\ datum \in IovecsType
    BY DEF RingInv, TypeOK
  <2>2. /\ ReadableSize \in 0..(Capacity - 1) /\ WriteableSize = Capacity - 1 - ReadableSize
        /\ writePos = Ahead(readPos, ReadableSize) /\ WriteableSize \in 0..(Capacity - 1)
    BY <2>1, Sizes, CapacityType
  <2>3. Covers(space, writePos, WriteableSize) /\ Covers(datum, readPos, ReadableSize)
    BY DEF RingInv, SpaceInv, DatumInv
  <2>4. Slot(space, i) = Ahead(writePos, i) /\ Slot(datum, j) = Ahead(readPos, j)
    BY <2>1, <2>2, <2>3, SlotIsAhead
  <2>5. i \in Nat /\ j \in Nat /\ i < WriteableSize /\ j < ReadableSize
    BY <2>1, <2>2, <2>3, CapacityType DEF Covers, TotalBytes, IovecsType
  <2>6. Ahead(writePos, i) = Ahead(readPos, ReadableSize + i)
    BY <2>1, <2>2, <2>5, AheadAdds, CapacityType
  <2>7. ReadableSize + i \in 0..(Capacity - 1) /\ j \in 0..(Capacity - 1) /\ j # ReadableSize + i
    BY <2>2, <2>5, CapacityType
  <2> QED BY <2>1, <2>4, <2>6, <2>7, AheadInjective
<1> QED BY <1>1, RingInvariant, PTL

(* The main thread gets the client's bytes in order, none lost or repeated. *)
THEOREM BytesInOrder == Spec => []HandledInOrder
<1>1. RingInv => HandledInOrder
  BY DEF RingInv
<1> QED BY <1>1, RingInvariant, PTL
=============================================================================
