---------------------------- MODULE MCNetThreads ----------------------------
(* NetThreads for TLC. *)
EXTENDS NetThreads, TLC

CONSTANTS c1, c2

(* Two clients that come and go, with a request of one of them. *)
Two == [requests |-> (c1 :> 1) @@ (c2 :> 0), refuse |-> FALSE, acceptFails |-> FALSE]

(* One client with three requests; epoll and accept() may fail. *)
Busy == [requests |-> (c1 :> 3), refuse |-> TRUE, acceptFails |-> TRUE]

TwoOrBusy == {Two, Busy}

JustTwo == {Two}
=============================================================================
