---------------------------- MODULE BackBuffers -----------------------------
(***************************************************************************)
(* The two UnboundedBuffers of an AsyncBuffer, tmpBuf_ and backBuf_        *)
(* (network/unbounded_buffer.cc): AsyncBuffer has them as sequences of     *)
(* bytes, here they are memory with a read and a write position, which     *)
(* grows, moves its contents to the front and is swapped.  Both follow the *)
(* steps of AsyncBuffer.                                                   *)
(***************************************************************************)
EXTENDS AsyncBuffer, FiniteSetsExt

CONSTANT SmallestSize   \* the first size of a buffer, 64 in the code

ASSUME SmallestSizeAssumption == SmallestSize \in Nat \ {0, 1}

VARIABLES
  tmpMem, backMem,  \* UnboundedBuffer: buffer_, readPos_, writePos_
  peak              \* history: the most bytes that one of them has held

memVars == <<tmpMem, backMem, peak>>

Blank == "blank"
EmptyBuffer == [bytes |-> <<>>, readPos |-> 0, writePos |-> 0]

ReadableSize(m) == m.writePos - m.readPos
Room(m) == Len(m.bytes) - m.writePos
Readable(m) == SubSeq(m.bytes, m.readPos + 1, m.writePos)

(* The sizes that the loop of _AssureSpace goes through. *)
Larger(size) == IF size < SmallestSize THEN SmallestSize ELSE size + size \div 2
SizeAfter(size, n) ==
  LET f[i \in 0..n] == IF i = 0 THEN size ELSE Larger(f[i - 1]) IN f[n]

(* How often the buffer grows until the contents and "need" more bytes fit.   *)
(* (MAX_BUFFER_SIZE, half of the address space, is out of reach.)             *)
Growth(m, need) ==
  Min({n \in 0..need : need <= SizeAfter(Len(m.bytes), n) - m.writePos + m.readPos})

(* Mutant: the contents are moved, the read position is not. *)
ToFrontKeepsStart(m) ==
  [m EXCEPT !.bytes = [i \in 1..Len(m.bytes) |->
                         IF i <= ReadableSize(m) THEN m.bytes[m.readPos + i] ELSE m.bytes[i]],
            !.writePos = ReadableSize(m)]

(* memmove to the front. *)
ToFront(m) ==
  [bytes |-> [i \in 1..Len(m.bytes) |->
                IF i <= ReadableSize(m) THEN m.bytes[m.readPos + i] ELSE m.bytes[i]],
   readPos |-> 0, writePos |-> ReadableSize(m)]

AssureSpace(m, need) ==
  LET size == SizeAfter(Len(m.bytes), Growth(m, need))
      grown == [m EXCEPT !.bytes = @ \o [i \in 1..(size - Len(m.bytes)) |-> Blank]]
  IN  IF need <= Room(m) THEN m ELSE ToFront(grown)

(* The assert between the two, that there is room now, is part of BytesAreKept:*)
(* what does not fit is not kept.                                              *)
PushData(m, data) ==
  LET m1 == AssureSpace(m, Len(data))
      at(i) == i - m1.writePos
  IN  [m1 EXCEPT !.bytes = [i \in 1..Len(m1.bytes) |->
                              IF at(i) \in 1..Len(data) THEN data[at(i)] ELSE m1.bytes[i]],
                 !.writePos = @ + Len(data)]

AdjustReadPtr(m, k) == [m EXCEPT !.readPos = @ + k]

(* What a step of AsyncBuffer does to the memory: Write pushes the packet to  *)
(* backBuf_, ProcessBuffer swaps, Skip takes from tmpBuf_ first.              *)
Follow ==
  LET swapped == spc = "swap" /\ spc' = "writev"
      pushed == wpc = "locked" /\ wpc' = "count"
      k == Len(sent') - Len(sent)
  IN  /\ tmpMem' = IF swapped THEN backMem
                   ELSE IF k > 0 /\ ReadableSize(tmpMem) > 0 THEN AdjustReadPtr(tmpMem, k)
                   ELSE tmpMem
      /\ backMem' = IF swapped THEN tmpMem
                    ELSE IF pushed THEN PushData(backMem, Bytes(written, cur))
                    ELSE backMem
      /\ peak' = Max({peak, ReadableSize(backMem')})

BackInit == Init /\ tmpMem = EmptyBuffer /\ backMem = EmptyBuffer /\ peak = 0

BackSpec ==
  /\ BackInit /\ [][Next /\ Follow]_<<vars, memVars>>
  /\ WF_vars(WriterStep) /\ WF_vars(SenderStep)

-----------------------------------------------------------------------------
(* Properties. *)

(* Between its positions the memory holds the bytes that were pushed and not  *)
(* yet read, in order, however it has grown, been moved and been swapped in   *)
(* between: the sequences of AsyncBuffer are what the code has.               *)
BytesAreKept == Readable(tmpMem) = tmpBuf /\ Readable(backMem) = backBuf

(* The buffers grow with what they hold, not with all that went through them: *)
(* none is larger than it takes to hold the most that one of them ever held.  *)
GrowthIsBounded ==
  \A m \in {tmpMem, backMem} :
    Len(m.bytes) <= Min({SizeAfter(0, n) : n \in {i \in 0..peak : SizeAfter(0, i) >= peak}})

(* The memory of the back buffers serves AsyncBuffer: it keeps the bytes, in  *)
(* order, through growth, moves and swaps, and does not grow without need.    *)
MemoryIsSound == BytesAreKept /\ GrowthIsBounded
=============================================================================
