--------------------------- MODULE MCAsyncBuffer ---------------------------
(* AsyncBuffer and BackBuffers for TLC, with the refinement mapping to         *)
(* TwoLaneStream.                                                              *)
EXTENDS BackBuffers, AsyncBufferLanes
=============================================================================
