---------------------------- MODULE MCThreadPool ----------------------------
(* ThreadPool for TLC. *)
EXTENDS ThreadPool

(* The server: StartAllThreads submits the two loops, nobody else submits. *)
Server == [main |-> <<"recv", "send">>, other |-> {}]

(* The pool as its interface allows: short tasks, from several threads. *)
Short == [main |-> <<"a", "b", "c">>, other |-> {"d"}]

ServerAndShort == {Server, Short}
=============================================================================
