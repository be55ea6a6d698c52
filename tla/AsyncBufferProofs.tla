------------------------- MODULE AsyncBufferProofs -------------------------
(***************************************************************************)
(* Proofs about AsyncBuffer, for every capacity of the ring, every set of  *)
(* packet sizes and every number of packets.                               *)
(***************************************************************************)
EXTENDS AsyncBufferLanes, NatLemmas, SequenceTheorems, TLAPS

(* The bytes of a packet: as many as its length. *)
LEMMA BytesType ==
  ASSUME NEW n \in Nat, NEW l \in Nat
  PROVE  Bytes(n, l) \in Seq(Byte) /\ Len(Bytes(n, l)) = l
BY DEF Bytes, Byte

(* Cutting the first k bytes off a sequence. *)
LEMMA CutType ==
  ASSUME NEW s \in Seq(Byte), NEW k \in 0..Len(s)
  PROVE  /\ SubSeq(s, 1, k) \in Seq(Byte) /\ Len(SubSeq(s, 1, k)) = k
         /\ Drop(s, k) \in Seq(Byte) /\ Len(Drop(s, k)) = Len(s) - k
         /\ SubSeq(s, 1, k) \o Drop(s, k) = s
<1>1. \A i \in 1..Len(s) : s[i] \in Byte
  BY ElementOfSeq
<1>2. SubSeq(s, 1, k) \in Seq(Byte) /\ Len(SubSeq(s, 1, k)) = k
  BY <1>1, SubSeqProperties
<1>3. Drop(s, k) \in Seq(Byte) /\ Len(Drop(s, k)) = Len(s) - k
  BY <1>1, SubSeqProperties DEF Drop
<1>4. SubSeq(s, 1, k) \o SubSeq(s, k + 1, Len(s)) = SubSeq(s, 1, Len(s))
  <2>1. /\ Len(s) \in Nat /\ 1 \in 1..(Len(s) + 1)
        /\ k \in (1 - 1)..Len(s) /\ Len(s) \in k..Len(s)
    BY LenProperties
  <2> QED
    BY <2>1, ConcatAdjacentSubSeq
<1> QED
  BY <1>2, <1>3, <1>4, SubSeqFull DEF Drop

(* A sequence is empty exactly when its length is 0. *)
LEMMA EmptyIffLen ==
  ASSUME NEW s \in Seq(Byte)
  PROVE  s = <<>> <=> Len(s) = 0
BY EmptySeq

(* Concatenation of byte sequences is associative. *)
LEMMA Assoc ==
  ASSUME NEW s \in Seq(Byte), NEW t \in Seq(Byte), NEW u \in Seq(Byte)
  PROVE  (s \o t) \o u = s \o (t \o u)
BY ConcatAssociative

-----------------------------------------------------------------------------
(* BoundsInv holds initially. *)
LEMMA BoundsInit == Init => BoundsInv
<1> SUFFICES ASSUME Init PROVE BoundsInv
  OBVIOUS
<1>1. TypeOK
  BY EmptySeq DEF Init, TypeOK
<1>2. LockInv /\ AssertsHold
  BY DEF Init, LockInv, AssertsHold
<1>3. CountInv
  BY EmptySeq, CapacityAssumption DEF Init, CountInv
<1> QED
  BY <1>1, <1>2, <1>3 DEF BoundsInv

(* The main thread preserves BoundsInv, one step at a time. *)
LEMMA BoundsWriter ==
  ASSUME BoundsInv, WriterStep \/ (\E len \in Sizes : SendPacket(len))
  PROVE  BoundsInv'
<1> USE DEF BoundsInv, TypeOK, LockInv, CountInv, AssertsHold, WriteableSize, MustUseBack,
            bufVars, writerVars, senderVars
<1>1. CASE \E len \in Sizes : SendPacket(len)
  BY <1>1, SizesAssumption, CapacityAssumption DEF SendPacket
<1>2. CASE LockBack
  BY <1>2 DEF LockBack
<1>3. CASE PushBack
  <2>1. Bytes(written, cur) \in Seq(Byte) /\ Len(Bytes(written, cur)) = cur
    BY BytesType
  <2>2. /\ backBuf \o Bytes(written, cur) \in Seq(Byte)
        /\ Len(backBuf \o Bytes(written, cur)) = Len(backBuf) + cur
    BY <2>1, ConcatProperties
  <2>3. spc # "swap" /\ spc # "reset"
    BY <1>3 DEF PushBack
  <2>4. CASE backBytes > 0 \/ WriteableSize < cur
    BY <1>3, <2>2, <2>3, <2>4 DEF PushBack
  <2>5. CASE ~(backBytes > 0 \/ WriteableSize < cur)
    BY <1>3, <2>3, <2>5, CapacityAssumption DEF PushBack
  <2> QED
    BY <2>4, <2>5
<1>4. CASE CountBack
  BY <1>4 DEF CountBack
<1>5. CASE UnlockBack
  BY <1>5 DEF UnlockBack
<1>6. CASE PushRing
  <2>1. Bytes(written, cur) \in Seq(Byte) /\ Len(Bytes(written, cur)) = cur
    BY BytesType
  <2> QED
    BY <1>6, <2>1, CapacityAssumption, ConcatProperties DEF PushRing
<1> QED
  BY <1>1, <1>2, <1>3, <1>4, <1>5, <1>6 DEF WriterStep

(* The send thread preserves BoundsInv, one step at a time. *)
LEMMA BoundsSender ==
  ASSUME BoundsInv, SenderStep \/ WriteError \/ WriteEventUnhandled
  PROVE  BoundsInv'
<1> USE DEF BoundsInv, TypeOK, LockInv, CountInv, AssertsHold, WriteableSize,
            bufVars, writerVars, senderVars, AfterSend
<1>1. CASE ProcessBuffer
  BY <1>1, EmptyIffLen DEF ProcessBuffer
<1>2. CASE CheckBack
  BY <1>2 DEF CheckBack
<1>3. CASE TryLockBack
  BY <1>3 DEF TryLockBack
<1>4. CASE ResetBack
  BY <1>4 DEF ResetBack
<1>5. CASE SwapBack
  BY <1>5, EmptyIffLen DEF SwapBack
<1>6. CASE Writev
  <2>1. PICK k \in 0..iovLen :
          /\ sent' = sent \o SubSeq(IF tmpBuf # <<>> THEN tmpBuf ELSE buffer, 1, k)
          /\ Skip(k)
          /\ epollOut' = (k < iovLen)
    BY <1>6 DEF Writev
  <2>2. CASE tmpBuf # <<>>
    <3>1. k \in 0..Len(tmpBuf)
      BY <1>6, <2>2 DEF Writev
    <3> QED
      BY <1>6, <2>1, <2>2, <3>1, CutType, ConcatProperties DEF Writev, Skip
  <2>3. CASE tmpBuf = <<>>
    <3>1. k \in 0..Len(buffer)
      BY <1>6, <2>3 DEF Writev
    <3> QED
      BY <1>6, <2>1, <2>3, <3>1, CutType, ConcatProperties, CapacityAssumption DEF Writev, Skip
  <2> QED
    BY <2>2, <2>3
<1>7. CASE WriteEventUnhandled
  BY <1>7 DEF WriteEventUnhandled
<1>8. CASE WriteError
  BY <1>8 DEF WriteError
<1> QED
  BY <1>1, <1>2, <1>3, <1>4, <1>5, <1>6, <1>7, <1>8 DEF SenderStep

(* Nothing happens to BoundsInv when nothing changes. *)
LEMMA BoundsStutter ==
  ASSUME BoundsInv, UNCHANGED vars
  PROVE  BoundsInv'
BY DEF BoundsInv, TypeOK, LockInv, CountInv, AssertsHold, WriteableSize,
       vars, bufVars, writerVars, senderVars

(* Type correctness, the protocol of backBufLock_ and every assert of *)
(* async_buffer.cc hold in every behaviour.                           *)
THEOREM Bounds == Spec => []BoundsInv
<1>1. BoundsInv /\ [Next]_vars => BoundsInv'
  BY BoundsWriter, BoundsSender, BoundsStutter DEF Next
<1> QED
  BY BoundsInit, <1>1, PTL DEF Spec

(* The buffers always hold bytes and backBytes_ never goes below 0. *)
THEOREM BufferTypesHold == Spec => []TypeOK
<1>1. BoundsInv => TypeOK
  BY DEF BoundsInv
<1> QED
  BY <1>1, Bounds, PTL

(* No assert of async_buffer.cc can fail. *)
THEOREM AssertsNeverFail == Spec => []AssertsHold
<1>1. BoundsInv => AssertsHold
  BY DEF BoundsInv
<1> QED
  BY <1>1, Bounds, PTL

-----------------------------------------------------------------------------
(* Whole packets: lemmas about Chain and Closed. *)

(* A packet is a closed chain. *)
LEMMA BytesChain ==
  ASSUME NEW n \in Nat, NEW l \in Nat
  PROVE  Chain(Bytes(n, l)) /\ Closed(Bytes(n, l))
<1>1. Len(Bytes(n, l)) = l /\ Bytes(n, l) \in Seq(Byte)
  BY BytesType
<1>2. \A i \in 1..l : Bytes(n, l)[i] = [pkt |-> n, pos |-> i, len |-> l]
  BY DEF Bytes
<1>3. Bytes(n, l) # <<>> => l \in Nat \ {0}
  BY <1>1, EmptyIffLen
<1> QED
  BY <1>1, <1>2, <1>3 DEF Chain, Closed, Follows

(* Closed chains compose. *)
LEMMA ChainConcat ==
  ASSUME NEW s \in Seq(Byte), NEW t \in Seq(Byte), Chain(s), Closed(s), Chain(t)
  PROVE  Chain(s \o t)
<1> DEFINE u == s \o t
<1>1. /\ u \in Seq(Byte) /\ Len(u) = Len(s) + Len(t)
      /\ \A i \in 1..(Len(s) + Len(t)) : u[i] = IF i <= Len(s) THEN s[i] ELSE t[i - Len(s)]
  BY ConcatProperties
<1>2. Len(s) \in Nat /\ Len(t) \in Nat
  BY LenProperties
<1>3. \A i \in 1..Len(s) : s[i] \in Byte
  BY ElementOfSeq
<1>4. ASSUME u # <<>> PROVE u[1].pos = 1
  BY <1>1, <1>2, <1>4, EmptyIffLen DEF Chain
<1>5. ASSUME NEW i \in 1..(Len(u) - 1) PROVE Follows(u[i], u[i + 1])
  <2>1. CASE i < Len(s)
    <3>1. i \in 1..(Len(s) - 1) /\ u[i] = s[i] /\ u[i + 1] = s[i + 1]
      BY <1>1, <1>2, <2>1
    <3> QED
      BY <3>1 DEF Chain
  <2>2. CASE i = Len(s)
    <3>1. u[i] = s[Len(s)] /\ u[i + 1] = t[1] /\ Len(t) > 0 /\ Len(s) > 0
      BY <1>1, <1>2, <2>2
    <3>2. s # <<>> /\ t # <<>>
      BY <3>1, EmptyIffLen
    <3>3. s[Len(s)].pos = s[Len(s)].len /\ t[1].pos = 1
      BY <3>2 DEF Closed, Chain
    <3>4. s[Len(s)].len \in Nat
      <4>1. s[Len(s)] \in Byte
        BY <1>2, <1>3, <3>1
      <4> QED
        BY <4>1 DEF Byte
    <3> QED
      BY <3>1, <3>3, <3>4 DEF Follows
  <2>3. CASE i > Len(s)
    <3>1. /\ i - Len(s) \in 1..(Len(t) - 1) /\ u[i] = t[i - Len(s)]
          /\ u[i + 1] = t[(i - Len(s)) + 1]
      BY <1>1, <1>2, <2>3
    <3> QED
      BY <3>1 DEF Chain
  <2> QED
    BY <1>2, <2>1, <2>2, <2>3
<1> QED
  BY <1>4, <1>5 DEF Chain

(* A prefix of a chain is a chain; after a closed prefix comes a chain. *)
LEMMA ChainSplit ==
  ASSUME NEW s \in Seq(Byte), NEW t \in Seq(Byte), Chain(s \o t)
  PROVE  Chain(s) /\ (Closed(s) => Chain(t))
<1> DEFINE u == s \o t
<1>1. /\ u \in Seq(Byte) /\ Len(u) = Len(s) + Len(t)
      /\ \A i \in 1..(Len(s) + Len(t)) : u[i] = IF i <= Len(s) THEN s[i] ELSE t[i - Len(s)]
  BY ConcatProperties
<1>2. Len(s) \in Nat /\ Len(t) \in Nat
  BY LenProperties
<1>3. \A i \in 1..Len(s) : s[i] \in Byte
  BY ElementOfSeq
<1>4. Chain(s)
  <2>1. s # <<>> => s[1].pos = 1
    BY <1>1, <1>2, EmptyIffLen DEF Chain
  <2>2. ASSUME NEW i \in 1..(Len(s) - 1) PROVE Follows(s[i], s[i + 1])
    <3>1. i \in 1..(Len(u) - 1) /\ u[i] = s[i] /\ u[i + 1] = s[i + 1]
      BY <1>1, <1>2
    <3> QED
      BY <3>1 DEF Chain
  <2> QED
    BY <2>1, <2>2 DEF Chain
<1>5. ASSUME Closed(s) PROVE Chain(t)
  <2>1. ASSUME t # <<>> PROVE t[1].pos = 1
    <3>1. Len(t) > 0
      BY <1>2, <2>1, EmptyIffLen
    <3>2. CASE Len(s) = 0
      <4>1. u[1] = t[1] /\ u # <<>>
        BY <1>1, <1>2, <3>1, <3>2, EmptyIffLen
      <4> QED
        BY <4>1 DEF Chain
    <3>3. CASE Len(s) > 0
      <4>1. Len(s) \in 1..(Len(u) - 1) /\ u[Len(s)] = s[Len(s)] /\ u[Len(s) + 1] = t[1]
        BY <1>1, <1>2, <3>1, <3>3
      <4>2. Follows(s[Len(s)], t[1])
        BY <4>1 DEF Chain
      <4>3. s[Len(s)].pos = s[Len(s)].len
        BY <1>5, <3>3, EmptyIffLen DEF Closed
      <4>4. s[Len(s)].len \in Nat
        BY <1>2, <1>3, <3>3 DEF Byte
      <4> QED
        BY <4>2, <4>3, <4>4 DEF Follows
    <3> QED
      BY <1>2, <3>2, <3>3
  <2>2. ASSUME NEW i \in 1..(Len(t) - 1) PROVE Follows(t[i], t[i + 1])
    <3>1. /\ Len(s) + i \in 1..(Len(u) - 1) /\ u[Len(s) + i] = t[i]
          /\ u[(Len(s) + i) + 1] = t[i + 1]
      BY <1>1, <1>2
    <3> QED
      BY <3>1 DEF Chain
  <2> QED
    BY <2>1, <2>2 DEF Chain
<1> QED
  BY <1>4, <1>5

(* Where a concatenation ends. *)
LEMMA ClosedConcat ==
  ASSUME NEW s \in Seq(Byte), NEW t \in Seq(Byte)
  PROVE  /\ Closed(s) /\ Closed(t) => Closed(s \o t)
         /\ Closed(s \o t) => Closed(t)
<1>1. /\ s \o t \in Seq(Byte) /\ Len(s \o t) = Len(s) + Len(t)
      /\ \A i \in 1..(Len(s) + Len(t)) : (s \o t)[i] = IF i <= Len(s) THEN s[i] ELSE t[i - Len(s)]
  BY ConcatProperties
<1>2. Len(s) \in Nat /\ Len(t) \in Nat
  BY LenProperties
<1>3. CASE Len(t) = 0
  BY <1>3, EmptyIffLen, ConcatEmptySeq DEF Closed
<1>4. CASE Len(t) > 0
  <2>1. (s \o t)[Len(s \o t)] = t[Len(t)] /\ t # <<>> /\ s \o t # <<>>
    BY <1>1, <1>2, <1>4, EmptyIffLen
  <2> QED
    BY <2>1 DEF Closed
<1> QED
  BY <1>2, <1>3, <1>4

-----------------------------------------------------------------------------
(* ChainInv holds initially. *)
LEMMA ChainInit == Init => ChainInv
<1> SUFFICES ASSUME Init PROVE ChainInv
  OBVIOUS
<1>1. <<>> \in Seq(Byte) /\ Len(<<>>) = 0
  BY EmptySeq
<1>2. Chain(<<>>) /\ Closed(<<>>)
  BY <1>1 DEF Chain, Closed
<1>3. sent \o (tmpBuf \o buffer) = <<>> /\ backBuf = <<>> /\ sent \o tmpBuf = <<>>
  BY <1>1, ConcatEmptySeq DEF Init
<1> QED
  BY <1>2, <1>3 DEF ChainInv

(* The main thread adds a closed chain at the end of one buffer. *)
LEMMA ChainWriter ==
  ASSUME BoundsInv, ChainInv, WriterStep \/ (\E len \in Sizes : SendPacket(len))
  PROVE  ChainInv'
<1> DEFINE p == Bytes(written, cur)
<1>1. /\ sent \in Seq(Byte) /\ tmpBuf \in Seq(Byte) /\ buffer \in Seq(Byte)
      /\ backBuf \in Seq(Byte) /\ written \in Nat /\ cur \in Nat
  BY DEF BoundsInv, TypeOK
<1>2. p \in Seq(Byte) /\ Chain(p) /\ Closed(p)
  BY <1>1, BytesType, BytesChain
<1>3. tmpBuf' = tmpBuf /\ sent' = sent /\ spc' = spc
  BY DEF WriterStep, SendPacket, LockBack, PushBack, CountBack, UnlockBack, PushRing,
         bufVars, senderVars
<1>4. CASE buffer' = buffer /\ backBuf' = backBuf
  BY <1>3, <1>4 DEF ChainInv
<1>5. CASE buffer' = buffer /\ backBuf' = backBuf \o p
  <2>1. Chain(backBuf \o p) /\ Closed(backBuf \o p)
    BY <1>1, <1>2, ChainConcat, ClosedConcat DEF ChainInv
  <2> QED
    BY <1>3, <1>5, <2>1 DEF ChainInv
<1>6. CASE buffer' = buffer \o p /\ backBuf' = backBuf
  <2> DEFINE q == sent \o (tmpBuf \o buffer)
  <2>1. tmpBuf \o buffer \in Seq(Byte) /\ q \in Seq(Byte)
    BY <1>1, ConcatProperties
  <2>2. q \o p = sent \o (tmpBuf \o (buffer \o p))
    <3> DEFINE r == tmpBuf \o buffer
    <3>1. r \in Seq(Byte) /\ p \in Seq(Byte)
      BY <1>2, <2>1
    <3> HIDE DEF p
    <3>2. r \o p = tmpBuf \o (buffer \o p)
      BY <1>1, <3>1, Assoc
    <3> HIDE DEF r
    <3>3. (sent \o r) \o p = sent \o (r \o p)
      BY <1>1, <3>1, Assoc
    <3> QED
      BY <3>2, <3>3 DEF r
  <2>3. Chain(q \o p) /\ Closed(q \o p)
    BY <1>2, <2>1, ChainConcat, ClosedConcat DEF ChainInv
  <2> QED
    BY <1>3, <1>6, <2>2, <2>3 DEF ChainInv
<1> QED
  BY <1>4, <1>5, <1>6
     DEF WriterStep, SendPacket, LockBack, PushBack, CountBack, UnlockBack, PushRing, bufVars

(* Swapping in the back buffer happens at a packet boundary. *)
LEMMA ChainSwap ==
  ASSUME BoundsInv, ChainInv, SwapBack
  PROVE  ChainInv'
<1>1. /\ sent \in Seq(Byte) /\ buffer \in Seq(Byte) /\ backBuf \in Seq(Byte)
      /\ tmpBuf = <<>> /\ <<>> \in Seq(Byte)
  BY EmptySeq DEF BoundsInv, TypeOK, CountInv, SwapBack
<1>2. tmpBuf' = backBuf /\ backBuf' = <<>> /\ buffer' = buffer /\ sent' = sent
  BY <1>1 DEF SwapBack
<1>3. <<>> \o buffer = buffer /\ sent \o <<>> = sent
  BY <1>1, ConcatEmptySeq
<1>4. Chain(sent \o buffer) /\ Closed(sent \o buffer) /\ Closed(sent)
  BY <1>1, <1>3 DEF ChainInv, SwapBack
<1>5. Chain(sent) /\ Chain(buffer) /\ Closed(buffer)
  BY <1>1, <1>4, ChainSplit, ClosedConcat
<1>6. Chain(backBuf) /\ Closed(backBuf)
  BY DEF ChainInv
<1>7. backBuf \o buffer \in Seq(Byte) /\ Chain(backBuf \o buffer) /\ Closed(backBuf \o buffer)
  BY <1>1, <1>5, <1>6, ConcatProperties, ChainConcat, ClosedConcat
<1>8. Chain(sent \o (backBuf \o buffer)) /\ Closed(sent \o (backBuf \o buffer))
  BY <1>1, <1>4, <1>5, <1>7, ChainConcat, ClosedConcat
<1>9. Closed(sent \o backBuf)
  BY <1>1, <1>4, <1>6, ClosedConcat
<1>10. Chain(<<>>) /\ Closed(<<>>)
  BY EmptySeq DEF Chain, Closed
<1> QED
  BY <1>2, <1>8, <1>9, <1>10 DEF ChainInv

(* Sending moves bytes from the front of the queue to the end of the wire. *)
LEMMA ChainWritev ==
  ASSUME BoundsInv, ChainInv, Writev
  PROVE  ChainInv'
<1>1. PICK k \in 0..iovLen :
        /\ sent' = sent \o SubSeq(IF tmpBuf # <<>> THEN tmpBuf ELSE buffer, 1, k)
        /\ Skip(k)
  BY DEF Writev
<1>2. /\ sent \in Seq(Byte) /\ tmpBuf \in Seq(Byte) /\ buffer \in Seq(Byte)
      /\ iovLen \in Nat /\ spc = "writev" /\ backBuf' = backBuf
      /\ iovLen \in 1..Len(IF tmpBuf # <<>> THEN tmpBuf ELSE buffer)
  BY DEF BoundsInv, TypeOK, AssertsHold, Writev
<1> DEFINE inBack == spc' \in {"back", "trylock", "reset", "swap"}
<1>6. ~inBack
  BY DEF Writev, AfterSend
<1> HIDE DEF inBack
<1>5. ChainInv' <=> /\ Chain(sent' \o (tmpBuf' \o buffer')) /\ Closed(sent' \o (tmpBuf' \o buffer'))
                    /\ Chain(backBuf') /\ Closed(backBuf')
                    /\ tmpBuf' # <<>> => Closed(sent' \o tmpBuf')
  BY <1>6 DEF ChainInv, inBack
<1>3. CASE tmpBuf # <<>>
  <2>1. k \in 0..Len(tmpBuf)
    BY <1>2, <1>3
  <2>2. sent' = sent \o SubSeq(tmpBuf, 1, k) /\ tmpBuf' = Drop(tmpBuf, k) /\ buffer' = buffer
    BY <1>1, <1>3 DEF Skip
  <2>3. /\ SubSeq(tmpBuf, 1, k) \in Seq(Byte) /\ Drop(tmpBuf, k) \in Seq(Byte)
        /\ SubSeq(tmpBuf, 1, k) \o Drop(tmpBuf, k) = tmpBuf
    BY <1>2, <2>1, CutType
  <2>4. sent' \o tmpBuf' = sent \o tmpBuf
    <3> DEFINE a == SubSeq(tmpBuf, 1, k)
               d == Drop(tmpBuf, k)
    <3>1. a \in Seq(Byte) /\ d \in Seq(Byte) /\ a \o d = tmpBuf
      BY <2>3
    <3>2. sent' \o tmpBuf' = (sent \o a) \o d
      BY <2>2
    <3> HIDE DEF a, d
    <3>3. (sent \o a) \o d = sent \o (a \o d)
      BY <1>2, <3>1, Assoc
    <3> QED
      BY <3>1, <3>2, <3>3
  <2>5. sent' \in Seq(Byte) /\ tmpBuf' \in Seq(Byte)
    BY <1>2, <2>2, <2>3, ConcatProperties
  <2>6. /\ sent' \o (tmpBuf' \o buffer) = (sent' \o tmpBuf') \o buffer
        /\ sent \o (tmpBuf \o buffer) = (sent \o tmpBuf) \o buffer
    BY <1>2, <2>5, Assoc
  <2> QED
    BY <1>2, <1>3, <1>5, <2>2, <2>4, <2>6 DEF ChainInv
<1>4. CASE tmpBuf = <<>>
  <2>1. k \in 0..Len(buffer)
    BY <1>2, <1>4
  <2>2. sent' = sent \o SubSeq(buffer, 1, k) /\ buffer' = Drop(buffer, k) /\ tmpBuf' = <<>>
    BY <1>1, <1>4 DEF Skip
  <2>3. /\ SubSeq(buffer, 1, k) \in Seq(Byte) /\ Drop(buffer, k) \in Seq(Byte)
        /\ SubSeq(buffer, 1, k) \o Drop(buffer, k) = buffer
    BY <1>2, <2>1, CutType
  <2>4. sent' \o buffer' = sent \o buffer
    <3> DEFINE a == SubSeq(buffer, 1, k)
               d == Drop(buffer, k)
    <3>1. a \in Seq(Byte) /\ d \in Seq(Byte) /\ a \o d = buffer
      BY <2>3
    <3>2. sent' \o buffer' = (sent \o a) \o d
      BY <2>2
    <3> HIDE DEF a, d
    <3>3. (sent \o a) \o d = sent \o (a \o d)
      BY <1>2, <3>1, Assoc
    <3> QED
      BY <3>1, <3>2, <3>3
  <2>5. tmpBuf \o buffer = buffer /\ tmpBuf' \o buffer' = buffer'
    BY <1>2, <1>4, <2>2, <2>3, ConcatEmptySeq
  <2> QED
    BY <1>2, <1>5, <2>2, <2>4, <2>5 DEF ChainInv
<1> QED
  BY <1>3, <1>4

(* The send thread's other steps leave the bytes alone. *)
LEMMA ChainSender ==
  ASSUME BoundsInv, ChainInv, SenderStep \/ WriteError \/ WriteEventUnhandled
  PROVE  ChainInv'
<1>1. CASE SwapBack
  BY <1>1, ChainSwap
<1>2. CASE Writev
  BY <1>2, ChainWritev
<1>3. CASE ProcessBuffer
  <2>1. CASE spc' = "writev"
    BY <1>3, <2>1 DEF ChainInv, ProcessBuffer, bufVars
  <2>2. CASE tmpBuf = <<>> /\ buffer = <<>>
    <3>1. tmpBuf \o buffer = tmpBuf
      BY <2>2, EmptySeq, ConcatEmptySeq
    <3> QED
      BY <1>3, <2>2, <3>1 DEF ChainInv, ProcessBuffer, bufVars
  <2> QED
    BY <1>3, <2>1, <2>2 DEF ProcessBuffer
<1>4. CASE CheckBack
  BY <1>4 DEF ChainInv, CheckBack, AfterSend, bufVars
<1>5. CASE TryLockBack
  BY <1>5 DEF ChainInv, TryLockBack, AfterSend
<1>6. CASE ResetBack
  BY <1>6 DEF ChainInv, ResetBack
<1>7. CASE WriteEventUnhandled \/ WriteError
  BY <1>7 DEF ChainInv, WriteEventUnhandled, WriteError, bufVars
<1> QED
  BY <1>1, <1>2, <1>3, <1>4, <1>5, <1>6, <1>7 DEF SenderStep

(* Packets are never interleaved on the wire, whatever their sizes, the *)
(* capacity of the ring and the interleaving of the two threads.        *)
THEOREM PacketsStayWhole == Spec => []PacketsIntact
<1>1. BoundsInv /\ ChainInv /\ [Next]_vars => ChainInv'
  <2>1. BoundsInv /\ ChainInv /\ UNCHANGED vars => ChainInv'
    BY DEF ChainInv, vars, bufVars, senderVars
  <2> QED
    BY <2>1, ChainWriter, ChainSender DEF Next
<1>2. BoundsInv /\ ChainInv => PacketsIntact
  <2> SUFFICES ASSUME BoundsInv, ChainInv PROVE Chain(sent)
    BY DEF PacketsIntact
  <2>1. sent \in Seq(Byte) /\ tmpBuf \o buffer \in Seq(Byte)
    BY ConcatProperties DEF BoundsInv, TypeOK
  <2> QED
    BY <2>1, ChainSplit DEF ChainInv
<1> QED
  BY Bounds, ChainInit, <1>1, <1>2, PTL DEF Spec

-----------------------------------------------------------------------------
(* The refinement of TwoLaneStream: first what Complete computes. *)

(* What one more byte b adds to the packets l that are complete. *)
Completed(l, b) == IF b.pos = b.len THEN Append(l, b.pkt) ELSE l

Lists == Seq(Nat)

(* Recursion for lists of packets. *)
LEMMA ListRecursion ==
  ASSUME NEW a \in Lists, NEW h \in [Nat -> [Lists -> Lists]], NEW n \in Nat
  PROVE  \E f \in [0..n -> Lists] : f[0] = a /\ \A i \in 1..n : f[i] = h[i][f[i - 1]]
BY Recursion

(* c counts the complete packets of s from left to right. *)
Counts(c, s) ==
  /\ c \in [0..Len(s) -> Seq(Nat)] /\ c[0] = <<>>
  /\ \A i \in 1..Len(s) : c[i] = Completed(c[i - 1], s[i])

(* One more byte keeps a list of packets a list of packets. *)
LEMMA CompletedType ==
  ASSUME NEW l \in Seq(Nat), NEW b \in Byte
  PROVE  Completed(l, b) \in Seq(Nat)
<1>1. b.pkt \in Nat
  BY DEF Byte
<1> QED
  BY <1>1, AppendProperties DEF Completed

(* Every sequence of bytes can be counted. *)
LEMMA CountExists ==
  ASSUME NEW s \in Seq(Byte)
  PROVE  \E c : Counts(c, s)
<1> DEFINE n == Len(s)
           h == [i \in Nat |-> [l \in Lists |->
                   IF i \in 1..n THEN Completed(l, s[i]) ELSE l]]
           e == <<>>
<1>1. n \in Nat /\ \A i \in 1..n : s[i] \in Byte
  BY LenProperties, ElementOfSeq
<1>2. h \in [Nat -> [Lists -> Lists]]
  BY <1>1, CompletedType DEF Lists
<1>3. e \in Lists
  BY EmptySeq DEF Lists
<1>4. \A i \in 1..n : \A l \in Lists : h[i][l] = Completed(l, s[i])
  BY <1>1
<1> HIDE DEF n, h, e
<1>5. PICK f \in [0..n -> Lists] : f[0] = e /\ \A i \in 1..n : f[i] = h[i][f[i - 1]]
  BY <1>1, <1>2, <1>3, ListRecursion
<1>6. ASSUME NEW i \in 1..n PROVE f[i] = Completed(f[i - 1], s[i])
  <2>1. f[i - 1] \in Lists
    BY <1>1
  <2> QED
    BY <1>4, <1>5, <2>1
<1> QED
  BY <1>5, <1>6 DEF Counts, Lists, n, e

(* ... in one way, ... *)
LEMMA CountUnique ==
  ASSUME NEW s \in Seq(Byte), NEW c, NEW d, Counts(c, s), Counts(d, s)
  PROVE  c[Len(s)] = d[Len(s)]
<1> DEFINE P == {i \in Nat : i <= Len(s) => c[i] = d[i]}
<1>1. Len(s) \in Nat
  BY LenProperties
<1>2. 0 \in P
  BY DEF Counts
<1>3. ASSUME NEW i \in P PROVE i + 1 \in P
  <2>1. CASE i + 1 <= Len(s)
    <3>1. i + 1 \in 1..Len(s) /\ (i + 1) - 1 = i /\ c[i] = d[i]
      BY <1>1, <2>1
    <3>2. c[i + 1] = Completed(c[i], s[i + 1]) /\ d[i + 1] = Completed(d[i], s[i + 1])
      BY <3>1 DEF Counts
    <3> QED
      BY <3>1, <3>2
  <2> QED
    BY <2>1
<1>4. P = Nat
  BY <1>2, <1>3, InductionOnSets
<1> QED
  BY <1>1, <1>4

(* ... and that is what Complete does. *)
LEMMA CompleteIs ==
  ASSUME NEW s \in Seq(Byte), NEW c, Counts(c, s)
  PROVE  Complete(s) = c[Len(s)]
<1> DEFINE eqn(f) == f = [i \in 0..Len(s) |->
              IF i = 0 THEN <<>>
              ELSE IF s[i].pos = s[i].len THEN Append(f[i - 1], s[i].pkt) ELSE f[i - 1]]
           d == CHOOSE f : eqn(f)
<1>1. Len(s) \in Nat
  BY LenProperties
<1>2. eqn(c)
  <2>1. c = [i \in 0..Len(s) |-> c[i]]
    BY DEF Counts
  <2>2. \A i \in 0..Len(s) :
          c[i] = IF i = 0 THEN <<>>
                 ELSE IF s[i].pos = s[i].len THEN Append(c[i - 1], s[i].pkt) ELSE c[i - 1]
    <3> TAKE i \in 0..Len(s)
    <3>1. CASE i = 0
      BY <3>1 DEF Counts
    <3>2. CASE i # 0
      <4>1. i \in 1..Len(s)
        BY <1>1, <3>2
      <4>2. c[i] = Completed(c[i - 1], s[i])
        BY <4>1 DEF Counts
      <4> QED
        BY <3>2, <4>2 DEF Completed
    <3> QED
      BY <3>1, <3>2
  <2> QED
    BY <2>1, <2>2
<1>3. Complete(s) = d[Len(s)]
  BY DEF Complete
<1>4. eqn(d)
  BY <1>2
<1> HIDE DEF d
<1>5. Counts(d, s)
  <2>1. d[0] = <<>> /\ \A i \in 1..Len(s) : d[i] = Completed(d[i - 1], s[i])
    <3>1. d[0] = <<>>
      <4>1. 0 \in 0..Len(s)
        BY <1>1
      <4> QED
        BY <1>4, <4>1, Zenon
    <3>2. ASSUME NEW i \in 1..Len(s) PROVE d[i] = Completed(d[i - 1], s[i])
      <4>1. i \in 0..Len(s) /\ i # 0
        BY <1>1
      <4> QED
        BY <1>4, <4>1, Zenon DEF Completed
    <3> QED
      BY <3>1, <3>2
  <2> DEFINE P == {i \in Nat : i <= Len(s) => d[i] \in Seq(Nat)}
  <2>2. 0 \in P
    BY <2>1, EmptySeq
  <2>3. ASSUME NEW i \in P PROVE i + 1 \in P
    <3>1. CASE i + 1 <= Len(s)
      <4>1. i + 1 \in 1..Len(s) /\ (i + 1) - 1 = i /\ d[i] \in Seq(Nat)
        BY <1>1, <3>1
      <4>2. s[i + 1] \in Byte
        BY <4>1, ElementOfSeq
      <4>3. d[i + 1] = Completed(d[i], s[i + 1])
        BY <2>1, <4>1
      <4>4. d[i + 1] \in Seq(Nat)
        BY <4>1, <4>2, <4>3, CompletedType
      <4> QED
        BY <4>4
    <3> QED
      BY <3>1
  <2>4. P = Nat
    BY <2>2, <2>3, InductionOnSets
  <2>5. d \in [0..Len(s) -> Seq(Nat)]
    <3>1. \A i \in 0..Len(s) : d[i] \in Seq(Nat)
      BY <1>1, <2>4
    <3>2. d = [i \in 0..Len(s) |-> d[i]]
      BY <1>4, Zenon
    <3> QED
      BY <3>1, <3>2, Zenon
  <2> QED
    BY <2>1, <2>5 DEF Counts
<1> QED
  BY <1>3, <1>5, CountUnique

(* The complete packets of s, as a list. *)
LEMMA CompleteType ==
  ASSUME NEW s \in Seq(Byte)
  PROVE  Complete(s) \in Seq(Nat)
<1>1. PICK c : Counts(c, s)
  BY CountExists
<1>2. Complete(s) = c[Len(s)]
  BY <1>1, CompleteIs
<1>3. Len(s) \in 0..Len(s)
  BY LenProperties
<1> QED
  BY <1>1, <1>2, <1>3 DEF Counts

(* Without bytes there is none. *)
LEMMA CompleteEmpty == Complete(<<>>) = <<>>
<1> DEFINE e == <<>>
<1>1. e \in Seq(Byte) /\ Len(e) = 0
  BY EmptySeq
<1> HIDE DEF e
<1>2. PICK c : Counts(c, e)
  BY <1>1, CountExists
<1>3. Complete(e) = c[0]
  BY <1>1, <1>2, CompleteIs
<1> QED
  BY <1>2, <1>3 DEF Counts, e

(* Concatenation of lists is associative. *)
LEMMA ListAssoc ==
  ASSUME NEW k \in Seq(Nat), NEW l \in Seq(Nat), NEW m \in Seq(Nat)
  PROVE  (k \o l) \o m = k \o (l \o m)
<1> DEFINE N == Nat
<1>1. k \in Seq(N) /\ l \in Seq(N) /\ m \in Seq(N)
  OBVIOUS
<1> HIDE DEF N
<1> QED
  BY <1>1, ConcatAssociative

(* Appending to the second list or to the concatenation is the same. *)
LEMMA CompletedConcat ==
  ASSUME NEW l \in Seq(Nat), NEW m \in Seq(Nat), NEW b \in Byte
  PROVE  l \o Completed(m, b) = Completed(l \o m, b)
<1>1. b.pkt \in Nat
  BY DEF Byte
<1> DEFINE p == b.pkt
           one == <<p>>
<1> HIDE DEF p
<1>2. /\ one \in Seq(Nat) /\ Append(m, p) = m \o one /\ l \o m \in Seq(Nat)
      /\ Append(l \o m, p) = (l \o m) \o one
  BY <1>1, AppendIsConcat, ConcatProperties DEF p
<1> HIDE DEF one
<1>3. (l \o m) \o one = l \o (m \o one)
  BY <1>2, ListAssoc
<1> QED
  BY <1>2, <1>3 DEF Completed, p

(* The complete packets of a concatenation. *)
LEMMA CompleteConcat ==
  ASSUME NEW s \in Seq(Byte), NEW t \in Seq(Byte)
  PROVE  Complete(s \o t) = Complete(s) \o Complete(t)
<1> DEFINE u == s \o t
           m == Len(s)
           n == Len(t)
<1>1. m \in Nat /\ n \in Nat
  BY LenProperties
<1>2. /\ u \in Seq(Byte) /\ Len(u) = m + n
      /\ \A i \in 1..(m + n) : u[i] = IF i <= m THEN s[i] ELSE t[i - m]
  BY ConcatProperties
<1>3. \A i \in 1..n : t[i] \in Byte
  BY ElementOfSeq
<1>4. PICK c : Counts(c, s)
  BY CountExists
<1>5. PICK d : Counts(d, t)
  BY CountExists
<1> DEFINE cs == Complete(s)
           g == [i \in 0..(m + n) |-> IF i <= m THEN c[i] ELSE cs \o d[i - m]]
<1>6. cs = c[m] /\ Complete(t) = d[n] /\ cs \in Seq(Nat)
  BY <1>4, <1>5, CompleteIs, CompleteType
<1>7. /\ c \in [0..m -> Seq(Nat)] /\ c[0] = <<>> /\ \A i \in 1..m : c[i] = Completed(c[i - 1], s[i])
      /\ d \in [0..n -> Seq(Nat)] /\ d[0] = <<>> /\ \A i \in 1..n : d[i] = Completed(d[i - 1], t[i])
  BY <1>4, <1>5 DEF Counts
<1> HIDE DEF u, m, n, cs
<1>8. \A i \in 0..m : g[i] = c[i]
  BY <1>1
<1>9. ASSUME NEW i \in 0..n PROVE g[m + i] = cs \o d[i] /\ g[m + i] \in Seq(Nat)
  <2>1. d[i] \in Seq(Nat) /\ cs \o d[i] \in Seq(Nat)
    BY <1>6, <1>7, ConcatProperties
  <2>2. CASE i = 0
    <3>1. g[m + i] = c[m]
      BY <1>1, <2>2
    <3>2. cs \o d[i] = cs
      BY <1>6, <1>7, <2>2, ConcatEmptySeq
    <3> QED
      BY <1>6, <2>1, <3>1, <3>2
  <2>3. CASE i # 0
    <3>1. m + i \in 0..(m + n) /\ ~(m + i <= m) /\ (m + i) - m = i
      BY <1>1, <2>3
    <3>2. g[m + i] = cs \o d[i]
      BY <3>1
    <3> QED
      BY <2>1, <3>2
  <2> QED
    BY <2>2, <2>3
<1>10. g \in [0..(m + n) -> Seq(Nat)]
  <2>1. ASSUME NEW i \in 0..(m + n) PROVE g[i] \in Seq(Nat)
    <3>1. CASE i <= m
      BY <1>1, <1>7, <3>1
    <3>2. CASE ~(i <= m)
      <4>1. i - m \in 0..n /\ m + (i - m) = i
        BY <1>1, <3>2
      <4> HIDE DEF g
      <4> QED
        BY <1>9, <4>1
    <3> QED
      BY <3>1, <3>2
  <2> QED
    BY <2>1
<1> HIDE DEF g
<1>11. ASSUME NEW i \in 1..(m + n) PROVE g[i] = Completed(g[i - 1], u[i])
  <2>1. CASE i <= m
    <3>1. i \in 1..m /\ i \in 0..m /\ i - 1 \in 0..m
      BY <1>1, <2>1
    <3> QED
      BY <1>2, <1>7, <1>8, <2>1, <3>1
  <2>2. CASE ~(i <= m)
    <3> DEFINE j == i - m
    <3>1. /\ j \in 1..n /\ j \in 0..n /\ j - 1 \in 0..n /\ m + j = i
          /\ m + (j - 1) = i - 1
      BY <1>1, <2>2
    <3>2. u[i] = t[j] /\ t[j] \in Byte /\ d[j - 1] \in Seq(Nat)
      BY <1>2, <1>3, <1>7, <2>2, <3>1
    <3>3. g[i] = cs \o d[j] /\ g[i - 1] = cs \o d[j - 1]
      BY <1>9, <3>1
    <3>4. d[j] = Completed(d[j - 1], t[j])
      BY <1>7, <3>1
    <3>5. cs \o Completed(d[j - 1], t[j]) = Completed(cs \o d[j - 1], t[j])
      BY <1>6, <3>2, CompletedConcat
    <3> QED
      BY <3>2, <3>3, <3>4, <3>5
  <2> QED
    BY <2>1, <2>2
<1>12. g[0] = <<>>
  BY <1>1, <1>7, <1>8
<1>13. Counts(g, u)
  BY <1>2, <1>10, <1>11, <1>12 DEF Counts
<1>14. Complete(u) = g[m + n]
  BY <1>2, <1>13, CompleteIs
<1>15. n \in 0..n
  BY <1>1
<1> QED
  BY <1>6, <1>9, <1>14, <1>15 DEF u, cs

(* A packet is complete. *)
LEMMA CompletePacket ==
  ASSUME NEW n \in Nat, NEW l \in Nat \ {0}
  PROVE  Complete(Bytes(n, l)) = <<n>>
<1> DEFINE s == Bytes(n, l)
           g == [i \in 0..l |-> IF i < l THEN <<>> ELSE <<n>>]
<1>1. s \in Seq(Byte) /\ Len(s) = l
  BY BytesType
<1>2. \A i \in 1..l : s[i] = [pkt |-> n, pos |-> i, len |-> l]
  BY DEF Bytes
<1> HIDE DEF s
<1>3. g \in [0..l -> Seq(Nat)] /\ g[0] = <<>> /\ g[l] = <<n>>
  BY EmptySeq
<1>4. ASSUME NEW i \in 1..l PROVE g[i] = Completed(g[i - 1], s[i])
  <2>1. g[i - 1] = <<>>
    OBVIOUS
  <2>2. s[i].pkt = n /\ s[i].pos = i /\ s[i].len = l
    <3>1. s[i] = [pkt |-> n, pos |-> i, len |-> l]
      BY <1>2
    <3> QED
      BY <3>1
  <2>3. Append(<<>>, n) = <<n>>
    OBVIOUS
  <2>4. CASE i = l
    <3>1. Completed(g[i - 1], s[i]) = <<n>>
      BY <2>1, <2>2, <2>3, <2>4 DEF Completed
    <3> QED
      BY <1>3, <2>4, <3>1
  <2>5. CASE i # l
    <3>1. g[i] = <<>>
      BY <2>5
    <3>2. Completed(g[i - 1], s[i]) = <<>>
      BY <2>1, <2>2, <2>5 DEF Completed
    <3> QED
      BY <3>1, <3>2
  <2> QED
    BY <2>4, <2>5
<1> HIDE DEF g
<1>5. Counts(g, s)
  BY <1>1, <1>3, <1>4 DEF Counts
<1>6. Complete(s) = g[l]
  BY <1>1, <1>5, CompleteIs
<1> QED
  BY <1>3, <1>6 DEF s

-----------------------------------------------------------------------------
(* What is in front can be cut off. *)
LEMMA CutFront ==
  ASSUME NEW x \in Seq(Nat), NEW y \in Seq(Nat)
  PROVE  /\ SubSeq(x \o y, 1, Len(x)) = x
         /\ SubSeq(x \o y, Len(x) + 1, Len(x \o y)) = y
         /\ x # <<>> => Len(x) \in 1..Len(x \o y)
<1> DEFINE z == x \o y
           m == Len(x)
           n == Len(y)
<1>1. m \in Nat /\ n \in Nat /\ (x # <<>> => m > 0)
  BY LenProperties, EmptySeq
<1>2. /\ z \in Seq(Nat) /\ Len(z) = m + n
      /\ \A i \in 1..(m + n) : z[i] = IF i <= m THEN x[i] ELSE y[i - m]
  BY ConcatProperties
<1>3. x = [i \in 1..m |-> x[i]] /\ y = [i \in 1..n |-> y[i]]
  BY LenProperties
<1>4. /\ SubSeq(z, 1, m) = [i \in 1..m |-> z[i]]
      /\ SubSeq(z, m + 1, m + n) = [i \in 1..n |-> z[m + i]]
  <2> HIDE DEF z, m, n
  <2>1. /\ SubSeq(z, 1, m) = [i \in 1..((m - 1) + 1) |-> z[(1 + i) - 1]]
        /\ SubSeq(z, m + 1, m + n) = [i \in 1..(((m + n) - (m + 1)) + 1) |-> z[((m + 1) + i) - 1]]
    BY <1>1, <1>2
  <2> QED
    BY <1>1, <2>1
<1> HIDE DEF z, m, n
<1>5. \A i \in 1..m : z[i] = x[i]
  BY <1>1, <1>2
<1>6. \A i \in 1..n : z[m + i] = y[i]
  <2> TAKE i \in 1..n
  <2>1. m + i \in 1..(m + n) /\ ~(m + i <= m) /\ (m + i) - m = i
    BY <1>1
  <2> QED
    BY <1>2, <2>1
<1>7. SubSeq(z, 1, m) = x /\ SubSeq(z, m + 1, m + n) = y
  BY <1>3, <1>4, <1>5, <1>6
<1>8. x # <<>> => m \in 1..(m + n)
  BY <1>1
<1> QED
  BY <1>2, <1>7, <1>8 DEF z, m, n

(* The lists that the lanes are made of. *)
LEMMA LaneTypes ==
  ASSUME BoundsInv
  PROVE  /\ Complete(buffer) \in Seq(Nat) /\ Complete(tmpBuf) \in Seq(Nat)
         /\ Complete(backBuf) \in Seq(Nat) /\ Complete(sent) \in Seq(Nat)
         /\ Complete(tmpBuf \o backBuf) = Complete(tmpBuf) \o Complete(backBuf)
<1>1. /\ buffer \in Seq(Byte) /\ tmpBuf \in Seq(Byte)
      /\ backBuf \in Seq(Byte) /\ sent \in Seq(Byte)
  BY DEF BoundsInv, TypeOK
<1> QED
  BY <1>1, CompleteType, CompleteConcat

(* The lanes are empty in the beginning. *)
LEMMA LanesInit == Init => Lanes!LaneInit
<1> SUFFICES ASSUME Init PROVE Lanes!LaneInit
  OBVIOUS
<1>1. tmpBuf \o backBuf = <<>>
  BY EmptySeq, ConcatEmptySeq DEF Init
<1>2. Queued = 0
  BY DEF Queued, Init
<1> QED
  BY <1>1, <1>2, CompleteEmpty DEF Init, Lanes!LaneInit

(* Putting a packet in a buffer submits it to the lane of that buffer; the *)
(* other steps of the main thread do nothing to the lanes.                 *)
LEMMA LanesWriter ==
  ASSUME BoundsInv, WriterStep \/ (\E len \in Sizes : SendPacket(len))
  PROVE  Lanes!Submit \/ UNCHANGED Lanes!lanes
<1> DEFINE p == Bytes(written, cur)
<1>1. /\ sent \in Seq(Byte) /\ tmpBuf \in Seq(Byte) /\ buffer \in Seq(Byte)
      /\ backBuf \in Seq(Byte) /\ written \in Nat /\ cur \in Nat
  BY DEF BoundsInv, TypeOK
<1>2. tmpBuf' = tmpBuf /\ sent' = sent
  BY DEF WriterStep, SendPacket, LockBack, PushBack, CountBack, UnlockBack, PushRing,
         bufVars, senderVars
<1>3. ASSUME wpc # "idle" PROVE p \in Seq(Byte) /\ Complete(p) = <<written>>
  <2>1. cur \in Nat \ {0}
    BY <1>1, <1>3 DEF BoundsInv, CountInv
  <2> QED
    BY <1>1, <2>1, BytesType, CompletePacket
<1>4. CASE PushBack /\ MustUseBack(cur)
  <2>1. wpc = "locked" /\ wpc' = "count" /\ backBuf' = backBuf \o p /\ written' = written
        /\ buffer' = buffer
    BY <1>4 DEF PushBack
  <2>2. Queued' = Queued + 1 /\ Queued' = written
    BY <1>1, <2>1 DEF Queued
  <2>3. tmpBuf \o backBuf \in Seq(Byte) /\ p \in Seq(Byte) /\ Complete(p) = <<written>>
    BY <1>1, <1>3, <2>1, ConcatProperties
  <2> HIDE DEF p
  <2>4. tmpBuf' \o backBuf' = (tmpBuf \o backBuf) \o p
    BY <1>1, <1>2, <2>1, <2>3, Assoc
  <2> DEFINE q == tmpBuf \o backBuf
  <2>5. q \in Seq(Byte) /\ Complete(q) \in Seq(Nat)
    BY <2>3, CompleteType
  <2> HIDE DEF q
  <2>6. Complete(q \o p) = Complete(q) \o <<written>>
    BY <2>3, <2>5, CompleteConcat
  <2>7. Complete(q) \o <<written>> = Append(Complete(q), written)
    BY <1>1, <2>5, AppendIsConcat
  <2>8. Complete(tmpBuf' \o backBuf') = Append(Complete(tmpBuf \o backBuf), Queued')
    BY <2>2, <2>4, <2>6, <2>7 DEF q
  <2> QED
    BY <1>2, <2>1, <2>2, <2>8 DEF Lanes!Submit
<1>5. CASE PushRing
  <2>1. wpc = "push" /\ wpc' = "idle" /\ buffer' = buffer \o p /\ written' = written
        /\ backBuf' = backBuf
    BY <1>5 DEF PushRing
  <2>2. Queued' = Queued + 1 /\ Queued' = written
    BY <1>1, <2>1 DEF Queued
  <2>3. p \in Seq(Byte) /\ Complete(p) = <<written>> /\ Complete(buffer) \in Seq(Nat)
    BY <1>1, <1>3, <2>1, CompleteType
  <2> HIDE DEF p
  <2>4. Complete(buffer') = Complete(buffer) \o <<written>>
    BY <1>1, <2>1, <2>3, CompleteConcat
  <2>5. Complete(buffer) \o <<written>> = Append(Complete(buffer), written)
    BY <1>1, <2>3, AppendIsConcat
  <2> QED
    BY <1>2, <2>1, <2>2, <2>4, <2>5 DEF Lanes!Submit
<1>6. CASE LockBack \/ CountBack \/ UnlockBack \/ (PushBack /\ ~MustUseBack(cur))
           \/ (\E len \in Sizes : SendPacket(len))
  <2>1. buffer' = buffer /\ backBuf' = backBuf
    BY <1>6 DEF LockBack, CountBack, UnlockBack, PushBack, SendPacket, bufVars
  <2>2. Queued' = Queued
    BY <1>1, <1>6 DEF LockBack, CountBack, UnlockBack, PushBack, SendPacket, Queued
  <2> QED
    BY <1>2, <2>1, <2>2 DEF Lanes!lanes
<1> QED
  BY <1>4, <1>5, <1>6 DEF WriterStep

(* writev lets the packets leave whose last byte it takes. *)
LEMMA LanesWritev ==
  ASSUME BoundsInv, Writev
  PROVE  Lanes!Leave \/ UNCHANGED Lanes!lanes
<1>1. PICK k \in 0..iovLen :
        /\ sent' = sent \o SubSeq(IF tmpBuf # <<>> THEN tmpBuf ELSE buffer, 1, k)
        /\ Skip(k)
  BY DEF Writev
<1>2. /\ sent \in Seq(Byte) /\ tmpBuf \in Seq(Byte) /\ buffer \in Seq(Byte)
      /\ backBuf \in Seq(Byte) /\ iovLen \in Nat /\ backBuf' = backBuf
      /\ iovLen \in 1..Len(IF tmpBuf # <<>> THEN tmpBuf ELSE buffer)
  BY DEF BoundsInv, TypeOK, AssertsHold, Writev
<1>3. Queued' = Queued
  BY DEF Writev, writerVars, Queued
<1>4. CASE tmpBuf # <<>>
  <2> DEFINE a == SubSeq(tmpBuf, 1, k)
             d == Drop(tmpBuf, k)
  <2>1. k \in 0..Len(tmpBuf)
    BY <1>2, <1>4
  <2>2. sent' = sent \o a /\ tmpBuf' = d /\ buffer' = buffer
    BY <1>1, <1>4 DEF Skip
  <2>3. a \in Seq(Byte) /\ d \in Seq(Byte) /\ a \o d = tmpBuf
    BY <1>2, <2>1, CutType
  <2> HIDE DEF a, d
  <2> DEFINE x == Complete(a)
             y == Complete(d) \o Complete(backBuf)
  <2>4. /\ Complete(sent') = Complete(sent) \o x
        /\ Complete(tmpBuf' \o backBuf') = y
        /\ Complete(tmpBuf) = x \o Complete(d)
    BY <1>2, <2>2, <2>3, CompleteConcat
  <2>5. /\ x \in Seq(Nat) /\ Complete(d) \in Seq(Nat) /\ Complete(backBuf) \in Seq(Nat)
        /\ Complete(sent) \in Seq(Nat)
    BY <1>2, <2>3, CompleteType
  <2>6. y \in Seq(Nat)
    BY <2>5, ConcatProperties
  <2>7. Complete(tmpBuf \o backBuf) = x \o y
    <3>1. Complete(tmpBuf \o backBuf) = (x \o Complete(d)) \o Complete(backBuf)
      BY <1>2, <2>4, CompleteConcat
    <3> QED
      BY <2>5, <3>1, ListAssoc
  <2> HIDE DEF x, y
  <2>8. CASE x = <<>>
    <3>1. Complete(sent') = Complete(sent) /\ x \o y = y
      BY <2>4, <2>5, <2>6, <2>8, ConcatEmptySeq
    <3> QED
      BY <1>3, <2>2, <2>4, <2>7, <3>1 DEF Lanes!lanes
  <2>9. CASE x # <<>>
    <3>1. /\ SubSeq(x \o y, 1, Len(x)) = x /\ SubSeq(x \o y, Len(x) + 1, Len(x \o y)) = y
          /\ Len(x) \in 1..Len(x \o y)
      BY <2>5, <2>6, <2>9, CutFront
    <3>2. \E n \in 1..Len(Complete(tmpBuf \o backBuf)) :
            /\ Complete(sent') = Complete(sent) \o SubSeq(Complete(tmpBuf \o backBuf), 1, n)
            /\ Complete(tmpBuf' \o backBuf')
                 = SubSeq(Complete(tmpBuf \o backBuf), n + 1, Len(Complete(tmpBuf \o backBuf)))
      BY <2>4, <2>7, <3>1
    <3> QED
      BY <1>3, <2>2, <3>2 DEF Lanes!Leave
  <2> QED
    BY <2>8, <2>9
<1>5. CASE tmpBuf = <<>>
  <2> DEFINE a == SubSeq(buffer, 1, k)
             d == Drop(buffer, k)
  <2>1. k \in 0..Len(buffer)
    BY <1>2, <1>5
  <2>2. sent' = sent \o a /\ buffer' = d /\ tmpBuf' = tmpBuf
    BY <1>1, <1>5 DEF Skip
  <2>3. a \in Seq(Byte) /\ d \in Seq(Byte) /\ a \o d = buffer
    BY <1>2, <2>1, CutType
  <2> HIDE DEF a, d
  <2> DEFINE x == Complete(a)
             y == Complete(d)
  <2>4. /\ Complete(sent') = Complete(sent) \o x /\ Complete(buffer') = y
        /\ Complete(buffer) = x \o y
    BY <1>2, <2>2, <2>3, CompleteConcat
  <2>5. x \in Seq(Nat) /\ y \in Seq(Nat) /\ Complete(sent) \in Seq(Nat)
    BY <1>2, <2>3, CompleteType
  <2> HIDE DEF x, y
  <2>6. CASE x = <<>>
    <3>1. Complete(sent') = Complete(sent) /\ x \o y = y
      BY <2>4, <2>5, <2>6, ConcatEmptySeq
    <3> QED
      BY <1>2, <1>3, <2>2, <2>4, <3>1 DEF Lanes!lanes
  <2>7. CASE x # <<>>
    <3>1. /\ SubSeq(x \o y, 1, Len(x)) = x /\ SubSeq(x \o y, Len(x) + 1, Len(x \o y)) = y
          /\ Len(x) \in 1..Len(x \o y)
      BY <2>5, <2>7, CutFront
    <3>2. \E n \in 1..Len(Complete(buffer)) :
            /\ Complete(sent') = Complete(sent) \o SubSeq(Complete(buffer), 1, n)
            /\ Complete(buffer') = SubSeq(Complete(buffer), n + 1, Len(Complete(buffer)))
      BY <2>4, <3>1
    <3> QED
      BY <1>2, <1>3, <2>2, <3>2 DEF Lanes!Leave
  <2> QED
    BY <2>6, <2>7
<1> QED
  BY <1>4, <1>5

(* Swapping the back buffers moves bytes within one lane. *)
LEMMA LanesSwap ==
  ASSUME BoundsInv, SwapBack
  PROVE  UNCHANGED Lanes!lanes
<1>1. backBuf \in Seq(Byte) /\ tmpBuf = <<>>
  BY DEF BoundsInv, TypeOK, CountInv, SwapBack
<1>2. tmpBuf' = backBuf /\ backBuf' = <<>> /\ buffer' = buffer /\ sent' = sent
  BY <1>1 DEF SwapBack
<1>3. tmpBuf' \o backBuf' = tmpBuf \o backBuf
  BY <1>1, <1>2, ConcatEmptySeq
<1>4. Queued' = Queued
  BY DEF SwapBack, writerVars, Queued
<1> QED
  BY <1>2, <1>3, <1>4 DEF Lanes!lanes

(* Every step is a step of the lanes or none. *)
LEMMA LanesStep ==
  ASSUME BoundsInv, [Next]_vars
  PROVE  [Lanes!Submit \/ Lanes!Leave]_(Lanes!lanes)
<1>1. CASE ProcessBuffer \/ CheckBack \/ TryLockBack \/ ResetBack \/ WriteError
           \/ WriteEventUnhandled \/ UNCHANGED vars
  <2>1. /\ buffer' = buffer /\ tmpBuf' = tmpBuf /\ backBuf' = backBuf /\ sent' = sent
        /\ wpc' = wpc /\ written' = written
    BY <1>1 DEF ProcessBuffer, CheckBack, TryLockBack, ResetBack, WriteError,
                WriteEventUnhandled, vars, bufVars, writerVars, senderVars
  <2> QED
    BY <2>1 DEF Queued, Lanes!lanes
<1> QED
  BY <1>1, LanesWriter, LanesWritev, LanesSwap DEF Next, SenderStep

(* The send side of a connection implements two first-in first-out lanes of *)
(* whole packets, through every interleaving of Write, ProcessBuffer, writev*)
(* and Skip, whatever the sizes of the packets and the ring.                *)
THEOREM LanesAreImplemented == Spec => ImplementsLanes
<1>1. Init => Lanes!LaneInit
  BY LanesInit
<1>2. BoundsInv /\ [Next]_vars => [Lanes!Submit \/ Lanes!Leave]_(Lanes!lanes)
  BY LanesStep
<1> QED
  BY <1>1, <1>2, Bounds, PTL DEF Spec, ImplementsLanes, Lanes!LaneSpec
=============================================================================
