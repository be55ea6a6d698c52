-------------------------- MODULE AsyncBufferLanes --------------------------
(* The refinement mapping from AsyncBuffer to TwoLaneStream. *)
EXTENDS AsyncBuffer

(* The numbers of the packets whose last byte is in s, in the order of s. *)
Complete(s) ==
  LET f[i \in 0..Len(s)] ==
        IF i = 0 THEN <<>>
        ELSE IF s[i].pos = s[i].len THEN Append(f[i - 1], s[i].pkt) ELSE f[i - 1]
  IN  f[Len(s)]

Lanes == INSTANCE TwoLaneStream WITH
  submitted <- Queued,
  ring <- Complete(buffer),
  back <- Complete(tmpBuf \o backBuf),
  out <- Complete(sent)

(* The threads and the buffers implement the two lanes: whole packets, each *)
(* once, in order within a lane, through every interleaving of Write,       *)
(* ProcessBuffer, writev and Skip.                                          *)
ImplementsLanes == Lanes!LaneSpec
=============================================================================
