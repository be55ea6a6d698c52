----------------------------- MODULE RingBuffer -----------------------------
(***************************************************************************)
(* recvBuf_ of a connection: network/buffer.h's CircularBuffer between the *)
(* receive thread (StreamSocket::Recv), which fills it, and the main       *)
(* thread (StreamSocket::DoMsgParse), which empties it.  There is no lock: *)
(* each side owns one of the two atomic positions and reads the other's,   *)
(* several times per operation.  A step below holds at most one read of    *)
(* the other side's position.                                              *)
(*                                                                         *)
(* A byte is its number in the client's stream.  maxSize_ is a power of    *)
(* two (InitCapacity rounds up), so "& (maxSize_ - 1)" is "% Capacity",    *)
(* also for a difference that size_t wraps around.                         *)
(***************************************************************************)
EXTENDS Integers, Sequences

CONSTANTS
  Capacity,  \* maxSize_
  MaxBytes   \* bound: bytes the client sends

ASSUME CapacityAssumption ==
  /\ Capacity \in Nat \ {0, 1}
  /\ \E k \in 0..Capacity : Capacity = 2^k
ASSUME MaxBytesAssumption == MaxBytes \in Nat

VARIABLES
  readPos, writePos, \* readPos_, writePos_
  ring,              \* buffer_: position -> byte, 0 if never written
  recvAt,            \* where the receive thread is in Recv
  space,             \* the iovecs GetSpace gave it
  got,               \* bytes readv returned
  received,          \* bytes made readable so far
  mainAt,            \* where the main thread is in DoMsgParse
  maxSize, datum,    \* GetDatum's argument and its iovecs
  handled            \* all bytes given to _HandlePacket

recvVars == <<writePos, ring, recvAt, space, got, received>>
mainVars == <<readPos, mainAt, maxSize, datum, handled>>
vars == <<recvVars, mainVars>>

(* A BufferSequence: one stretch from "at", and one from position 0 if the *)
(* area wraps around.                                                      *)
Iovecs(at, len1, len2) == [at |-> at, len1 |-> len1, len2 |-> len2]
TotalBytes(bf) == bf.len1 + bf.len2
Slot(bf, i) == IF i < bf.len1 THEN bf.at + i ELSE i - bf.len1

None == Iovecs(0, 0, 0)

ReadableSize == (writePos - readPos) % Capacity
WriteableSize == Capacity - ReadableSize - 1
IsEmpty == writePos = readPos

Init ==
  /\ readPos = 0 /\ writePos = 0 /\ ring = [p \in 0..(Capacity - 1) |-> 0]
  /\ recvAt = "idle" /\ space = None /\ got = 0 /\ received = 0
  /\ mainAt = "idle" /\ maxSize = 0 /\ datum = None /\ handled = <<>>

-----------------------------------------------------------------------------
(* The receive thread. *)

(* Mutant: the test lets everything pass. *)
HasSpaceAlways == WriteableSize >= 0

(* GetSpace's first test; it keeps one byte more than it needs to. *)
HasSpace == WriteableSize > 1

(* Recv asks for space; with no room it returns. *)
CheckSpace ==
  /\ recvAt = "idle" /\ HasSpace
  /\ recvAt' = "checked"
  /\ UNCHANGED <<writePos, ring, space, got, received, mainVars>>

(* Mutant: the gap before readPos_ is not kept. *)
SpaceWithoutGap ==
  IF readPos > writePos THEN Iovecs(writePos, readPos - writePos, 0)
                        ELSE Iovecs(writePos, Capacity - writePos, readPos)

(* The rest of GetSpace, from its one more read of readPos_. *)
FreeSpace ==
  IF readPos > writePos
  THEN Iovecs(writePos, readPos - writePos - 1, 0)
  ELSE IF readPos = 0 THEN Iovecs(writePos, Capacity - writePos - 1, 0)
                      ELSE Iovecs(writePos, Capacity - writePos, readPos - 1)

GetSpace ==
  /\ recvAt = "checked"
  /\ space' = FreeSpace /\ recvAt' = "space"
  /\ UNCHANGED <<writePos, ring, got, received, mainVars>>

(* readv fills the area from its start, or finds nothing (EAGAIN). *)
ReadV(n) ==
  /\ recvAt = "space"
  /\ n <= TotalBytes(space) /\ received + n <= MaxBytes
  /\ ring' = [p \in DOMAIN ring |->
                IF \E i \in 0..(n - 1) : p = Slot(space, i)
                THEN received + 1 + (CHOOSE i \in 0..(n - 1) : p = Slot(space, i))
                ELSE ring[p]]
  /\ got' = n
  /\ recvAt' = IF n > 0 THEN "filled" ELSE "idle"
  /\ UNCHANGED <<writePos, space, received, mainVars>>

(* Mutant: the position is moved by the room there was. *)
AdjustWritePtrAll ==
  /\ recvAt = "filled"
  /\ writePos' = (writePos + TotalBytes(space)) % Capacity
  /\ received' = received + got /\ recvAt' = "idle"
  /\ UNCHANGED <<ring, space, got, mainVars>>

(* Mutant: the mask is forgotten. *)
AdjustWritePtrNoMask ==
  /\ recvAt = "filled"
  /\ writePos' = writePos + got
  /\ received' = received + got /\ recvAt' = "idle"
  /\ UNCHANGED <<ring, space, got, mainVars>>

AdjustWritePtr ==
  /\ recvAt = "filled"
  /\ writePos' = (writePos + got) % Capacity
  /\ received' = received + got /\ recvAt' = "idle"
  /\ UNCHANGED <<ring, space, got, mainVars>>

-----------------------------------------------------------------------------
(* The main thread. *)

(* DoMsgParse: not empty; ReadableSize() becomes GetDatum's argument. *)
Look ==
  /\ mainAt = "idle" /\ ~IsEmpty
  /\ maxSize' = ReadableSize /\ mainAt' = "looked"
  /\ UNCHANGED <<readPos, datum, handled, recvVars>>

AtMost(a, b) == IF a < b THEN a ELSE b

(* GetDatum: writePos_ is read again and may have moved. *)
Datum ==
  IF readPos < writePos
  THEN Iovecs(readPos, AtMost(maxSize, writePos - readPos), 0)
  ELSE LET first == AtMost(maxSize, Capacity - readPos)
       IN  Iovecs(readPos, first, AtMost(maxSize - first, writePos))

GetDatum ==
  /\ mainAt = "looked"
  /\ datum' = Datum /\ mainAt' = "datum"
  /\ UNCHANGED <<readPos, maxSize, handled, recvVars>>

(* AttachedBuffer makes the area one piece and _HandlePacket takes it all. *)
HandlePacket ==
  /\ mainAt = "datum"
  /\ handled' = handled \o [i \in 1..TotalBytes(datum) |-> ring[Slot(datum, i - 1)]]
  /\ mainAt' = "handled"
  /\ UNCHANGED <<readPos, maxSize, datum, recvVars>>

AdjustReadPtr ==
  /\ mainAt = "handled"
  /\ readPos' = (readPos + TotalBytes(datum)) % Capacity
  /\ mainAt' = "idle"
  /\ UNCHANGED <<maxSize, datum, handled, recvVars>>

-----------------------------------------------------------------------------
RecvThread ==
  CheckSpace \/ GetSpace \/ AdjustWritePtr \/ \E n \in 0..(Capacity - 1) : ReadV(n)
MainThread == Look \/ GetDatum \/ HandlePacket \/ AdjustReadPtr

Next == RecvThread \/ MainThread

(* The main thread's loop does not stop; what the client sends is its affair *)
(* but readv's bytes are published by the same call.                         *)
Fairness ==
  /\ WF_vars(Look) /\ WF_vars(GetDatum) /\ WF_vars(HandlePacket) /\ WF_vars(AdjustReadPtr)
  /\ WF_vars(AdjustWritePtr)

Spec == Init /\ [][Next]_vars /\ Fairness

-----------------------------------------------------------------------------
Positions == 0..(Capacity - 1)
IovecsType == [at : Positions, len1 : Nat, len2 : Nat]

(* The positions stay inside of the ring, and so do the areas handed out. *)
TypeOK ==
  /\ readPos \in Positions /\ writePos \in Positions
  /\ ring \in [Positions -> Nat]
  /\ recvAt \in {"idle", "checked", "space", "filled"}
  /\ mainAt \in {"idle", "looked", "datum", "handled"}
  /\ space \in IovecsType /\ datum \in IovecsType
  /\ got \in Nat /\ received \in Nat /\ maxSize \in Nat
  /\ handled \in Seq(Nat)

(* The assertions inside GetSpace and GetDatum hold although the other      *)
(* thread moved its position since the test at the head of the function.    *)
AssertsHold ==
  /\ (recvAt = "checked" /\ readPos > writePos) => readPos - writePos - 1 > 0
  /\ mainAt = "looked" => readPos # writePos

Slots(bf) == {Slot(bf, i) : i \in 0..(TotalBytes(bf) - 1)}

(* The area readv writes into and the area the main thread reads from never *)
(* overlap: without a lock, that is all that keeps the bytes intact.        *)
ThreadsKeepApart ==
  recvAt = "space" /\ mainAt = "datum" => Slots(space) \cap Slots(datum) = {}

(* The main thread sees the client's bytes: all, in order, once. *)
HandledInOrder == \A i \in 1..Len(handled) : handled[i] = i

(* Every byte readv took in reaches _HandlePacket. *)
EveryByteHandled == \A n \in 1..MaxBytes : (received >= n) ~> (Len(handled) >= n)

-----------------------------------------------------------------------------
(* The inductive invariant behind AssertsHold, ThreadsKeepApart and           *)
(* HandledInOrder.                                                            *)

Ahead(p, i) == IF p + i < Capacity THEN p + i ELSE p + i - Capacity

(* bf covers at most the n positions from p on, in order. *)
Covers(bf, p, n) ==
  /\ bf.at = p /\ bf.len1 <= Capacity - p
  /\ bf.len2 > 0 => bf.len1 = Capacity - p
  /\ TotalBytes(bf) <= n

Released == Len(handled) - (IF mainAt = "handled" THEN TotalBytes(datum) ELSE 0)

ContentInv ==
  /\ received = Released + ReadableSize
  /\ \A i \in 0..(ReadableSize - 1) : ring[Ahead(readPos, i)] = Released + i + 1

SpaceInv ==
  /\ recvAt = "checked" => WriteableSize > 1
  /\ recvAt \in {"space", "filled"} => Covers(space, writePos, WriteableSize)
  /\ recvAt = "filled" =>
       /\ got <= TotalBytes(space)
       /\ \A i \in 0..(got - 1) : ring[Ahead(writePos, i)] = received + i + 1

DatumInv ==
  /\ mainAt = "looked" => maxSize > 0 /\ maxSize <= ReadableSize
  /\ mainAt \in {"datum", "handled"} => Covers(datum, readPos, ReadableSize)

RingInv == TypeOK /\ ContentInv /\ SpaceInv /\ DatumInv /\ HandledInOrder

=============================================================================
