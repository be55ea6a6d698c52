--------------------------- MODULE TwoLaneStream ---------------------------
(***************************************************************************)
(* What the send side of a connection promises (refined by AsyncBuffer):   *)
(* packets 1, 2, 3, ... are submitted in order, each to one of two lanes;  *)
(* a lane is first-in first-out; packets leave whole, from either lane,    *)
(* and what has left is never taken back.  Nothing is promised about the   *)
(* order between the lanes.                                                *)
(***************************************************************************)
EXTENDS Naturals, Sequences

VARIABLES
  submitted, \* packets submitted so far
  ring,      \* the lane of buffer_
  back,      \* the lane of backBuf_ and tmpBuf_
  out        \* packets that are completely on the wire

lanes == <<submitted, ring, back, out>>

LaneInit == submitted = 0 /\ ring = <<>> /\ back = <<>> /\ out = <<>>

Submit ==
  /\ submitted' = submitted + 1
  /\ \/ ring' = Append(ring, submitted') /\ UNCHANGED back
     \/ back' = Append(back, submitted') /\ UNCHANGED ring
  /\ UNCHANGED out

(* The first k packets of one lane leave. *)
Leave ==
  /\ \/ \E k \in 1..Len(ring) :
          /\ out' = out \o SubSeq(ring, 1, k)
          /\ ring' = SubSeq(ring, k + 1, Len(ring))
          /\ UNCHANGED back
     \/ \E k \in 1..Len(back) :
          /\ out' = out \o SubSeq(back, 1, k)
          /\ back' = SubSeq(back, k + 1, Len(back))
          /\ UNCHANGED ring
  /\ UNCHANGED submitted

LaneSpec == LaneInit /\ [][Submit \/ Leave]_lanes
=============================================================================
