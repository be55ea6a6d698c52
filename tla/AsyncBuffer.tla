---------------------------- MODULE AsyncBuffer ----------------------------
(***************************************************************************)
(* The send side of one connection: AsyncBuffer (network/async_buffer.cc)  *)
(* and its two users in network/stream_socket.cc.  The main thread queues  *)
(* reply packets (StreamSocket::SendPacket -> AsyncBuffer::Write); the     *)
(* send thread drains them (StreamSocket::Send, or OnWriteable, through    *)
(* ProcessBuffer, writev and Skip).                                        *)
(*                                                                         *)
(* A step is one access to a variable that the two threads share; reads    *)
(* that only one order of steps can tell apart are one step.  buffer_ is   *)
(* the sequence of its unread bytes (module RingBuffer looks inside it).   *)
(***************************************************************************)
EXTENDS Integers, Sequences

CONSTANTS
  Capacity,        \* buffer_.maxSize_ (128 * 1024); one slot stays unused
  Sizes,           \* the lengths of the packets that are sent
  MaxPackets,      \* bound: packets written to the connection
  Wirings          \* which builds are looked at: does EPOLLOUT reach
                   \* StreamSocket::OnWriteable?  In the code (FALSE) it does
                   \* not: the poll loop calls Socket::OnWritable, which
                   \* StreamSocket (OnWriteable) does not override.

ASSUME CapacityAssumption == Capacity \in Nat \ {0}
ASSUME SizesAssumption == Sizes \subseteq Nat \ {0}
ASSUME MaxPacketsAssumption == MaxPackets \in Nat
ASSUME WiringsAssumption == Wirings \subseteq BOOLEAN

VARIABLES
  buffer,    \* buffer_: unread bytes of the ring
  tmpBuf,    \* tmpBuf_: only the send thread uses it
  backBuf,   \* backBuf_: guarded by backBufLock_
  backBytes, \* backBytes_
  lock,      \* holder of backBufLock_
  wpc,       \* where the main thread is in Write
  cur,       \* length of the packet that Write is queueing
  written,   \* packets given to Write so far
  spc,       \* where the send thread is in ProcessBuffer / _Send
  iovLen,    \* data.TotalBytes() of the BufferSequence in flight
  epollOut,  \* epollOut_
  invalid,   \* invalid_: the send thread drops the connection
  sent,      \* history: bytes that writev put on the wire
  wired      \* the build, one of Wirings

bufVars == <<buffer, tmpBuf, backBuf, backBytes, lock>>
writerVars == <<wpc, cur, written>>
senderVars == <<spc, iovLen, epollOut, invalid, sent>>
vars == <<bufVars, writerVars, senderVars, wired>>

(* Byte i of the n-th packet, which is l bytes long. *)
Bytes(n, l) == [i \in 1..l |-> [pkt |-> n, pos |-> i, len |-> l]]

Byte == [pkt : Nat, pos : Nat, len : Nat]

WriteableSize == Capacity - Len(buffer) - 1

Drop(s, k) == SubSeq(s, k + 1, Len(s))

Init ==
  /\ buffer = <<>> /\ tmpBuf = <<>> /\ backBuf = <<>>
  /\ backBytes = 0 /\ lock = "free"
  /\ wpc = "idle" /\ cur = 0 /\ written = 0
  /\ spc = "idle" /\ iovLen = 0
  /\ epollOut = FALSE /\ invalid = FALSE /\ sent = <<>>
  /\ wired \in Wirings

-----------------------------------------------------------------------------
(* The main thread: Write. *)

(* Mutant: the condition without the backlog. *)
MustUseBackIgnoringBacklog(len) == WriteableSize < len

(* "cap not enough": the condition of Write, read without and with the lock *)
MustUseBack(len) == backBytes > 0 \/ WriteableSize < len

SendPacket(len) ==
  /\ wpc = "idle" /\ written < MaxPackets
  /\ cur' = len
  /\ written' = written + 1
  /\ wpc' = IF MustUseBack(len) THEN "lock" ELSE "push"
  /\ UNCHANGED <<bufVars, senderVars>>

LockBack ==
  /\ wpc = "lock" /\ lock = "free"
  /\ lock' = "writer"
  /\ wpc' = "locked"
  /\ UNCHANGED <<buffer, tmpBuf, backBuf, backBytes, cur, written, senderVars>>

(* The condition again, under the lock; queue the packet, or let go. *)
PushBack ==
  /\ wpc = "locked"
  /\ IF MustUseBack(cur)
     THEN /\ backBuf' = backBuf \o Bytes(written, cur)
          /\ wpc' = "count"
          /\ UNCHANGED lock
     ELSE /\ lock' = "free"
          /\ wpc' = "push"
          /\ UNCHANGED backBuf
  /\ UNCHANGED <<buffer, tmpBuf, backBytes, cur, written, senderVars>>

(* Mutant: the counter runs the wrong way. *)
CountBackDown ==
  /\ wpc = "count"
  /\ backBytes' = backBytes - cur
  /\ wpc' = "unlock"
  /\ UNCHANGED <<buffer, tmpBuf, backBuf, lock, cur, written, senderVars>>

CountBack ==
  /\ wpc = "count"
  /\ backBytes' = backBytes + cur
  /\ wpc' = "unlock"
  /\ UNCHANGED <<buffer, tmpBuf, backBuf, lock, cur, written, senderVars>>

UnlockBack ==
  /\ wpc = "unlock"
  /\ lock' = "free"
  /\ wpc' = "idle"
  /\ UNCHANGED <<buffer, tmpBuf, backBuf, backBytes, cur, written, senderVars>>

PushRing ==
  /\ wpc = "push"
  /\ buffer' = buffer \o Bytes(written, cur)
  /\ wpc' = "idle"
  /\ UNCHANGED <<tmpBuf, backBuf, backBytes, lock, cur, written, senderVars>>

WriterStep ==
  /\ LockBack \/ PushBack \/ CountBack \/ UnlockBack \/ PushRing
  /\ UNCHANGED wired

-----------------------------------------------------------------------------
(* The send thread: ProcessBuffer, then writev and Skip. *)

(* Send() looks for data unless a write event is awaited; OnWriteable, when *)
(* the event is wired, looks for data when it is.                           *)
MaySend == epollOut => wired

(* Where the send thread is after Send(): it looks at invalid_ only then, so *)
(* that a connection given up is sent to once more before it is removed.     *)
AfterSend == IF invalid THEN "failed" ELSE "idle"

(* Mutant: backBuf_ is looked at although the ring is not empty. *)
ProcessBufferEager ==
  /\ spc = "idle" /\ MaySend
  /\ \/ /\ tmpBuf # <<>>
        /\ iovLen' = Len(tmpBuf)
        /\ spc' = "writev"
     \/ /\ tmpBuf = <<>> /\ buffer # <<>>
        /\ iovLen' = Len(buffer)
        /\ spc' = "writev"
     \/ /\ tmpBuf = <<>>
        /\ spc' = "back"
        /\ UNCHANGED iovLen
  /\ UNCHANGED <<bufVars, writerVars, epollOut, invalid, sent>>

(* tmpBuf_ first, then buffer_ (its length is read once), then backBuf_. *)
ProcessBuffer ==
  /\ spc = "idle" /\ MaySend
  /\ \/ /\ tmpBuf # <<>>
        /\ iovLen' = Len(tmpBuf)
        /\ spc' = "writev"
     \/ /\ tmpBuf = <<>> /\ buffer # <<>>
        /\ iovLen' = Len(buffer)
        /\ spc' = "writev"
     \/ /\ tmpBuf = <<>> /\ buffer = <<>>
        /\ spc' = "back"
        /\ UNCHANGED iovLen
  /\ UNCHANGED <<bufVars, writerVars, epollOut, invalid, sent>>

(* Mutant: off by one, backBytes_ > 1. *)
CheckBackOffByOne ==
  /\ spc = "back"
  /\ IF backBytes > 1
     THEN spc' = "trylock" /\ UNCHANGED epollOut
     ELSE spc' = AfterSend /\ epollOut' = FALSE
  /\ UNCHANGED <<bufVars, writerVars, iovLen, invalid, sent>>

(* backBytes_ > 0; with nothing to send OnWriteable clears epollOut_. *)
CheckBack ==
  /\ spc = "back"
  /\ IF backBytes > 0
     THEN spc' = "trylock" /\ UNCHANGED epollOut
     ELSE spc' = AfterSend /\ epollOut' = FALSE
  /\ UNCHANGED <<bufVars, writerVars, iovLen, invalid, sent>>

TryLockBack ==
  /\ spc = "trylock"
  /\ IF lock = "free"
     THEN lock' = "sender" /\ spc' = "reset" /\ UNCHANGED epollOut
     ELSE spc' = AfterSend /\ epollOut' = FALSE /\ UNCHANGED lock
  /\ UNCHANGED <<buffer, tmpBuf, backBuf, backBytes, writerVars, iovLen, invalid, sent>>

ResetBack ==
  /\ spc = "reset"
  /\ backBytes' = 0
  /\ spc' = "swap"
  /\ UNCHANGED <<buffer, tmpBuf, backBuf, lock, writerVars, iovLen, epollOut, invalid, sent>>

(* Mutant: backBuf_ is copied, not swapped. *)
SwapBackCopy ==
  /\ spc = "swap"
  /\ tmpBuf' = backBuf /\ UNCHANGED backBuf
  /\ lock' = "free"
  /\ iovLen' = Len(backBuf)
  /\ spc' = "writev"
  /\ UNCHANGED <<buffer, backBytes, writerVars, epollOut, invalid, sent>>

SwapBack ==
  /\ spc = "swap"
  /\ tmpBuf' = backBuf /\ backBuf' = tmpBuf
  /\ lock' = "free"
  /\ iovLen' = Len(backBuf)
  /\ spc' = "writev"
  /\ UNCHANGED <<buffer, backBytes, writerVars, epollOut, invalid, sent>>

(* AsyncBuffer::Skip: the same choice of buffer as in ProcessBuffer. *)
Skip(k) ==
  IF tmpBuf # <<>>
  THEN tmpBuf' = Drop(tmpBuf, k) /\ UNCHANGED buffer
  ELSE buffer' = Drop(buffer, k) /\ UNCHANGED tmpBuf

(* writev takes k bytes and Skip drops them.  k = 0 is EAGAIN, which cannot *)
(* follow EPOLLOUT.  A short write sets epollOut_ and asks for EPOLLOUT.    *)
Writev ==
  /\ spc = "writev"
  /\ \E k \in 0..iovLen :
       /\ epollOut => k > 0
       /\ sent' = sent \o SubSeq(IF tmpBuf # <<>> THEN tmpBuf ELSE buffer, 1, k)
       /\ Skip(k)
       /\ epollOut' = (k < iovLen)
  /\ spc' = AfterSend
  /\ UNCHANGED <<backBuf, backBytes, lock, writerVars, iovLen, invalid>>

(* writev fails: Send returns false and the send thread calls OnError. *)
WriteError ==
  /\ spc = "writev"
  /\ invalid' = TRUE
  /\ spc' = "failed"
  /\ UNCHANGED <<bufVars, writerVars, iovLen, epollOut, sent>>

(* The send thread polls for EPOLLOUT when a connection, this or another,   *)
(* has a short write; every connection is registered.  The base class's     *)
(* OnWritable answers the event with false, so the send thread calls OnError*)
WriteEventUnhandled ==
  /\ spc = "idle" /\ ~wired /\ ~invalid
  /\ invalid' = TRUE
  /\ UNCHANGED <<bufVars, writerVars, spc, iovLen, epollOut, sent>>

SenderStep ==
  /\ \/ ProcessBuffer \/ CheckBack \/ TryLockBack \/ ResetBack \/ SwapBack \/ Writev
     \/ epollOut /\ WriteEventUnhandled
  /\ UNCHANGED wired

Next ==
  \/ \E len \in Sizes : SendPacket(len) /\ UNCHANGED wired
  \/ WriterStep \/ SenderStep
  \/ (WriteError \/ WriteEventUnhandled) /\ UNCHANGED wired

(* Both threads run for ever, and a peer that has a short write pending      *)
(* reads on.  A packet need not come, and nothing else need go wrong.        *)
Spec == Init /\ [][Next]_vars /\ WF_vars(WriterStep) /\ WF_vars(SenderStep)

-----------------------------------------------------------------------------
(* Properties. *)

(* The buffers hold bytes, the counter never goes below 0 (backBytes_ is a  *)
(* size_t), and each thread is at a place of its code.                      *)
TypeOK ==
  /\ buffer \in Seq(Byte) /\ tmpBuf \in Seq(Byte) /\ backBuf \in Seq(Byte)
  /\ backBytes \in Nat /\ lock \in {"free", "writer", "sender"}
  /\ wpc \in {"idle", "lock", "locked", "count", "unlock", "push"}
  /\ cur \in Nat /\ written \in Nat
  /\ spc \in {"idle", "back", "trylock", "reset", "swap", "writev", "failed"}
  /\ iovLen \in Nat /\ epollOut \in BOOLEAN /\ invalid \in BOOLEAN
  /\ sent \in Seq(Byte)

(* Every assert of async_buffer.cc holds where it is evaluated, whatever the *)
(* other thread does between a check and the use of what was checked: lines  *)
(* 43 (backBytes_ is the size of backBuf_), 49 (the ring still has room and  *)
(* no backlog), 76, 92 and 95 (the bytes promised to writev are still there).*)
AssertsHold ==
  /\ wpc = "unlock" => backBytes = Len(backBuf)
  /\ wpc = "push" => backBytes = 0 /\ WriteableSize >= cur
  /\ spc = "writev" => iovLen \in 1..Len(IF tmpBuf # <<>> THEN tmpBuf ELSE buffer)

(* b may directly follow a: the next byte of the same packet, or the first  *)
(* byte of another packet after the last byte of this one.                  *)
Follows(a, b) ==
  IF a.pos < a.len THEN b = [a EXCEPT !.pos = a.pos + 1] ELSE b.pos = 1

(* s is whole packets one after the other, the last one perhaps cut short; *)
(* Closed(s): it is not cut short.                                          *)
Chain(s) ==
  /\ s # <<>> => s[1].pos = 1
  /\ \A i \in 1..(Len(s) - 1) : Follows(s[i], s[i + 1])

Closed(s) == s # <<>> => s[Len(s)].pos = s[Len(s)].len

(* The bytes on the wire are whole packets, one after the other: a packet   *)
(* that is interrupted (a short write, a swap of the back buffer) continues *)
(* with its own next byte, so a client always finds the packet boundaries.  *)
PacketsIntact == Chain(sent)

(* Why they hold, as an inductive invariant: who holds the lock, what        *)
(* backBytes_ counts while it is being changed, and that tmpBuf_ is empty,   *)
(* and stays so, while the send thread looks at backBuf_.                    *)
LockInv ==
  /\ lock = "writer" <=> wpc \in {"locked", "count", "unlock"}
  /\ lock = "sender" <=> spc \in {"reset", "swap"}

CountInv ==
  /\ wpc # "idle" => cur > 0
  /\ Len(buffer) < Capacity
  /\ wpc = "count" => Len(backBuf) = backBytes + cur
  /\ wpc # "count" /\ spc # "swap" => Len(backBuf) = backBytes
  /\ spc \in {"trylock", "reset"} => backBytes > 0
  /\ spc = "swap" => backBytes = 0 /\ Len(backBuf) > 0
  /\ spc \in {"back", "trylock", "reset", "swap"} => tmpBuf = <<>>

BoundsInv == TypeOK /\ LockInv /\ CountInv /\ AssertsHold

(* Why packets stay whole: what is sent and what is queued is one chain, and *)
(* backBuf_ can only be put in front of the ring at a packet boundary.       *)
ChainInv ==
  /\ Chain(sent \o (tmpBuf \o buffer)) /\ Closed(sent \o (tmpBuf \o buffer))
  /\ Chain(backBuf) /\ Closed(backBuf)
  /\ tmpBuf # <<>> \/ spc \in {"back", "trylock", "reset", "swap"}
       => Closed(sent \o tmpBuf)

(* The packet that Write has accepted but not yet put in a buffer. *)
Queued == IF wpc \in {"lock", "locked", "push"} THEN written - 1 ELSE written

(* Every packet reaches the wire, or the connection is given up. *)
EveryPacketLeaves ==
  \A n \in 1..MaxPackets :
    written >= n ~> invalid \/ \E i \in 1..Len(sent) : sent[i].pkt = n

(* The packets of one reply (select_executor.cpp sends one per column and   *)
(* row) arrive in the order in which they were written.                     *)
PacketsInOrder ==
  \A i \in 1..(Len(sent) - 1) : sent[i].pkt <= sent[i + 1].pkt
=============================================================================
