-------------------------- MODULE NetThreadsProofs --------------------------
(***************************************************************************)
(* Facts about the hand-over of connections between the threads and about  *)
(* what costs a connection, for any set of connections and all casts.      *)
(***************************************************************************)
EXTENDS NetThreads, TLAPS

(* What CallbacksPaired rests on: where the main thread is with each one.   *)
MainStage(c) ==
  \/ \E step \in {"send", "main"} : HandedTo(c, step)
  \/ c \in mainNew \cup mainTasks
  \/ c \in welcomed /\ c \in dismissed

StageInv ==
  /\ mainTasks \subseteq welcomed
  /\ \A c \in accepted : MainStage(c)

(* The send thread is in its pass or among its events, never in both: what *)
(* the pass drops is in no list of fired events.                           *)
PollInv == PollersPointToHeld /\ (todo = {} \/ fired = {})

(* The parts of TypeOK, each by itself. *)
SetsAre(S) ==
  /\ backlog \in S /\ accepted \in S /\ gone \in S /\ full \in S /\ recvNew \in S
  /\ sendNew \in S /\ mainNew \in S /\ recvTasks \in S /\ sendTasks \in S /\ mainTasks \in S
  /\ recvPoll \in S /\ sendPoll \in S /\ invalid \in S /\ epollOut \in S /\ out \in S
  /\ todo \in S /\ fired \in S /\ welcomed \in S /\ dismissed \in S

OthersAre ==
  /\ sent \in [Conns -> Nat] /\ unread \in [Conns -> Nat] /\ inbox \in [Conns -> Nat]
  /\ listener \in {"bound", "failed", "closed"}
  /\ handing \in {Nobody} \cup (Conns \X {"send", "main"})
  /\ nOut \in BOOLEAN

TypeInv == SetsAre(SUBSET Conns) /\ OthersAre

(* Every variable keeps its type: no count of requests goes below 0, and no *)
(* thread holds anything but a connection.                                  *)
THEOREM ThreadTypesHold == Spec => []TypeOK
<1>1. Init => TypeInv
  <2> SUFFICES ASSUME Init PROVE TypeInv
    OBVIOUS
  <2>1. SetsAre(SUBSET Conns)
    BY DEF Init, SetsAre
  <2>2. sent \in [Conns -> Nat] /\ unread \in [Conns -> Nat] /\ inbox \in [Conns -> Nat]
    BY DEF Init
  <2>3. handing \in {Nobody} \cup (Conns \X {"send", "main"}) /\ nOut \in BOOLEAN
        /\ listener \in {"bound", "failed", "closed"}
    BY DEF Init
  <2> QED
    BY <2>1, <2>2, <2>3 DEF TypeInv, OthersAre
<1>2. TypeInv /\ [Next]_vars => TypeInv'
  <2> SUFFICES ASSUME TypeInv, [Next]_vars PROVE TypeInv'
    OBVIOUS
  <2> USE DEF TypeInv, kernel, recvVars, sendVars, mainVars
  <2>1. CASE RecvTryAdd
    BY <2>1 DEF RecvTryAdd, Registered, SetsAre, OthersAre
  <2>2. CASE RecvClean
    BY <2>2 DEF RecvClean, SetsAre, OthersAre
  <2>3. CASE AcceptError
    BY <2>3 DEF AcceptError, SetsAre, OthersAre
  <2>4. ASSUME NEW c \in Conns, Accept(c) PROVE TypeInv'
    BY <2>4 DEF Accept, SetsAre, OthersAre
  <2>5. ASSUME NEW c \in Conns, HandToSend(c) PROVE TypeInv'
    BY <2>5 DEF HandToSend, SetsAre, OthersAre
  <2>6. ASSUME NEW c \in Conns, HandToMain(c) PROVE TypeInv'
    BY <2>6 DEF HandToMain, SetsAre, OthersAre
  <2>7. ASSUME NEW c \in Conns, RecvRead(c) PROVE TypeInv'
    BY <2>7 DEF RecvRead, SetsAre, OthersAre
  <2>8. ASSUME NEW c \in Conns, RecvEof(c) PROVE TypeInv'
    BY <2>8 DEF RecvEof, OnError, SetsAre, OthersAre
  <2>9. CASE SendTurn
    BY <2>9 DEF SendTurn, Registered, SetsAre, OthersAre
  <2>10. CASE SendPoll
    BY <2>10 DEF SendPoll, CanWrite, SetsAre, OthersAre
  <2>11. ASSUME NEW c \in Conns, SendTask(c) PROVE TypeInv'
    <3>1. /\ out' \in SUBSET Conns /\ full' \in SUBSET Conns
          /\ epollOut' \in SUBSET Conns /\ invalid' \in SUBSET Conns
      BY <2>11 DEF SendTask, Write, OnError, SetsAre
    <3>2. /\ sendTasks' \in SUBSET Conns /\ sendPoll' \in SUBSET Conns
          /\ todo' \in SUBSET Conns /\ nOut' \in BOOLEAN
      BY <2>11 DEF SendTask, SetsAre, OthersAre
    <3> QED
      BY <2>11, <3>1, <3>2 DEF SendTask, SetsAre, OthersAre
  <2>12. ASSUME NEW c \in Conns, SendEvent(c) PROVE TypeInv'
    <3>1. /\ out' \in SUBSET Conns /\ full' \in SUBSET Conns /\ sendPoll' \in SUBSET Conns
          /\ epollOut' \in SUBSET Conns /\ invalid' \in SUBSET Conns
      BY <2>12 DEF SendEvent, OnError, kernel, SetsAre
    <3> QED
      BY <2>12, <3>1 DEF SendEvent, SetsAre, OthersAre
  <2>13. CASE MainTryAdd
    BY <2>13 DEF MainTryAdd, OnConnect, SetsAre, OthersAre
  <2>14. ASSUME NEW c \in Conns, MainServe(c) PROVE TypeInv'
    BY <2>14 DEF MainServe, HandlePacket, SetsAre, OthersAre
  <2>15. ASSUME NEW c \in Conns, MainDrop(c) PROVE TypeInv'
    BY <2>15 DEF MainDrop, SetsAre, OthersAre
  <2>16. ASSUME NEW c \in Conns, Connect(c) \/ Leave(c) \/ PeerReads(c) PROVE TypeInv'
    BY <2>16 DEF Connect, Leave, PeerReads, SetsAre, OthersAre
  <2>17. ASSUME NEW c \in Conns, Request(c) PROVE TypeInv'
    BY <2>17 DEF Request, SetsAre, OthersAre
  <2>18. CASE UNCHANGED vars
    BY <2>18 DEF vars, SetsAre, OthersAre
  <2> QED
    BY <2>1, <2>2, <2>3, <2>4, <2>5, <2>6, <2>7, <2>8, <2>9, <2>10, <2>11, <2>12, <2>13,
       <2>14, <2>15, <2>16, <2>17, <2>18
    DEF Next, RecvThread, SendThread, MainThread, Clients
<1>3. TypeInv => TypeOK
  BY DEF TypeInv, TypeOK, SetsAre, OthersAre
<1> QED BY <1>1, <1>2, <1>3, PTL DEF Spec

(* No event reaches a connection its thread does not hold: the sockets in a *)
(* thread's epoll instance are among its tasks_.                            *)
THEOREM PollersSafe == Spec => []PollersPointToHeld
<1>1. Init => PollInv
  BY DEF Init, PollInv, PollersPointToHeld
<1>2. PollInv /\ [Next]_vars => PollInv'
  <2> SUFFICES ASSUME PollInv, [Next]_vars PROVE PollInv'
    OBVIOUS
  <2> USE DEF PollInv, PollersPointToHeld
  <2>1. CASE RecvTryAdd
    BY <2>1 DEF RecvTryAdd, sendVars
  <2>2. CASE RecvClean
    BY <2>2 DEF RecvClean, sendVars
  <2>3. CASE AcceptError
    BY <2>3 DEF AcceptError, recvVars, sendVars
  <2>4. ASSUME NEW c \in Conns, Accept(c) \/ HandToSend(c) \/ HandToMain(c) \/ RecvRead(c)
        PROVE PollInv'
    BY <2>4 DEF Accept, HandToSend, HandToMain, RecvRead, sendVars
  <2>5. ASSUME NEW c \in Conns, RecvEof(c) PROVE PollInv'
    BY <2>5 DEF RecvEof, sendVars
  <2>6. CASE SendTurn
    BY <2>6 DEF SendTurn, SendFree, recvVars
  <2>7. CASE SendPoll
    BY <2>7 DEF SendPoll, SendFree, CanWrite, recvVars
  <2>8. ASSUME NEW c \in Conns, SendTask(c) PROVE PollInv'
    <3>1. /\ c \in todo /\ todo' = todo \ {c} /\ fired' = fired
          /\ recvPoll' = recvPoll /\ recvTasks' = recvTasks
          /\ fired = {}
      BY <2>8 DEF SendTask, recvVars
    <3>2. CASE c \in invalid'
      <4>1. sendTasks' = sendTasks \ {c} /\ sendPoll' = sendPoll \ {c}
        BY <2>8, <3>2 DEF SendTask
      <4> QED BY <3>1, <4>1
    <3>3. CASE c \notin invalid'
      <4>1. sendTasks' = sendTasks /\ sendPoll' \subseteq sendPoll \cup {c}
        BY <2>8, <3>3 DEF SendTask
      <4> QED BY <3>1, <4>1
    <3> QED BY <3>2, <3>3
  <2>9. ASSUME NEW c \in Conns, SendEvent(c) PROVE PollInv'
    BY <2>9 DEF SendEvent, recvVars
  <2>10. CASE MainThread
    BY <2>10 DEF MainThread, MainTryAdd, MainServe, MainDrop, recvVars, sendVars
  <2>11. CASE Clients
    BY <2>11 DEF Clients, Connect, Request, Leave, PeerReads, recvVars, sendVars
  <2>12. CASE UNCHANGED vars
    BY <2>12 DEF vars, recvVars, sendVars
  <2> QED
    BY <2>1, <2>2, <2>3, <2>4, <2>5, <2>6, <2>7, <2>8, <2>9, <2>10, <2>11, <2>12
    DEF Next, RecvThread, SendThread
<1>3. PollInv => PollersPointToHeld
  BY DEF PollInv
<1> QED BY <1>1, <1>2, <1>3, PTL DEF Spec

(* A connection object goes away only after the main thread called OnConnect *)
(* and OnDisconnect on it.                                                   *)
THEOREM CallbacksPaired == Spec => []CallbacksArePaired
<1>1. Init => StageInv
  BY DEF Init, StageInv
<1>2. StageInv /\ [Next]_vars => StageInv'
  <2> SUFFICES ASSUME StageInv, [Next]_vars PROVE StageInv'
    OBVIOUS
  <2> USE DEF StageInv, MainStage, HandedTo
  <2>1. CASE RecvTryAdd \/ RecvClean \/ AcceptError
    BY <2>1 DEF RecvTryAdd, RecvClean, AcceptError, recvVars, mainVars
  <2>2. ASSUME NEW d \in Conns, RecvRead(d) \/ RecvEof(d) PROVE StageInv'
    BY <2>2 DEF RecvRead, RecvEof, mainVars
  <2>3. ASSUME NEW d \in Conns, Accept(d) PROVE StageInv'
    BY <2>3 DEF Accept, RecvFree, Nobody, mainVars
  <2>4. ASSUME NEW d \in Conns, HandToSend(d) PROVE StageInv'
    BY <2>4 DEF HandToSend, mainVars
  <2>5. ASSUME NEW d \in Conns, HandToMain(d) PROVE StageInv'
    BY <2>5 DEF HandToMain, mainVars
  <2>6. CASE SendThread
    BY <2>6 DEF SendThread, SendTurn, SendPoll, SendTask, SendEvent, recvVars, mainVars
  <2>7. CASE MainTryAdd
    BY <2>7 DEF MainTryAdd, OnConnect, recvVars
  <2>8. ASSUME NEW d \in Conns, MainServe(d) PROVE StageInv'
    BY <2>8 DEF MainServe, recvVars, mainVars
  <2>9. ASSUME NEW d \in Conns, MainDrop(d) PROVE StageInv'
    BY <2>9 DEF MainDrop, recvVars
  <2>10. CASE Clients
    BY <2>10 DEF Clients, Connect, Request, Leave, PeerReads, recvVars, mainVars
  <2>11. CASE UNCHANGED vars
    BY <2>11 DEF vars, recvVars, mainVars
  <2> QED
    BY <2>1, <2>2, <2>3, <2>4, <2>5, <2>6, <2>7, <2>8, <2>9, <2>10, <2>11
    DEF Next, RecvThread, MainThread
<1>3. StageInv => CallbacksArePaired
  BY DEF StageInv, MainStage, CallbacksArePaired, Released, Held
<1> QED BY <1>1, <1>2, <1>3, PTL DEF Spec

(* While every connection takes what is sent to it, the send thread has no    *)
(* reason to poll and no event in hand, and no thread gave up a connection    *)
(* whose peer is there.                                                       *)
QuietInv == epollOut = {} => ~nOut /\ fired = {} /\ invalid \subseteq gone

(* A connection whose peer is there is given up only after some connection   *)
(* could not take what was sent to it: SendThread::Run polls only then, and  *)
(* every other OnError is met on the way to a peer that is gone.             *)
THEOREM DropsNeedSlowPeers == Spec => []DropsNeedASlowPeer
<1> USE DEF QuietInv
<1>1. Init => QuietInv
  BY DEF Init
<1>2. QuietInv /\ [Next]_vars => QuietInv'
  <2> SUFFICES ASSUME QuietInv, [Next]_vars PROVE QuietInv'
    OBVIOUS
  <2>1. CASE RecvThread
    BY <2>1 DEF RecvThread, RecvTryAdd, RecvClean, AcceptError, Accept, HandToSend,
                HandToMain, RecvRead, RecvEof, OnError, kernel, sendVars
  <2>2. CASE SendTurn
    BY <2>2 DEF SendTurn, kernel
  <2>3. CASE SendPoll
    BY <2>3 DEF SendPoll
  <2>4. ASSUME NEW c \in Conns, SendTask(c) PROVE QuietInv'
    <3>1. gone' = gone /\ fired' = fired /\ epollOut \subseteq epollOut'
      BY <2>4 DEF SendTask, Write
    <3>2. invalid' = invalid \/ (c \in gone /\ invalid' = invalid \cup {c})
      BY <2>4 DEF SendTask, Write, OnError
    <3>3. nOut' = nOut \/ nOut' = (nOut \/ c \in epollOut')
      BY <2>4 DEF SendTask
    <3> QED BY <3>1, <3>2, <3>3
  <2>5. ASSUME NEW c \in Conns, SendEvent(c) PROVE QuietInv'
    BY <2>5 DEF SendEvent
  <2>6. CASE MainThread
    BY <2>6 DEF MainThread, MainTryAdd, MainServe, MainDrop, kernel, sendVars
  <2>7. CASE Clients
    BY <2>7 DEF Clients, Connect, Request, Leave, PeerReads, sendVars
  <2>8. CASE UNCHANGED vars
    BY <2>8 DEF vars, kernel, sendVars
  <2> QED BY <2>1, <2>2, <2>3, <2>4, <2>5, <2>6, <2>7, <2>8 DEF Next, SendThread
<1>3. QuietInv => DropsNeedASlowPeer
  BY DEF DropsNeedASlowPeer
<1> QED BY <1>1, <1>2, <1>3, PTL DEF Spec
=============================================================================
