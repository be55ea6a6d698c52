----------------------------- MODULE NetThreads -----------------------------
(***************************************************************************)
(* The life of client connections across the server's three threads        *)
(* (network/net_thread_pool.cc, task_manager.cc, listen_socket.cc,         *)
(* stream_socket.cc, server.cc).                                           *)
(*                                                                         *)
(* The receive thread accepts a connection and hands it to itself, to the  *)
(* send thread and to the main thread, in that order; each keeps it in a   *)
(* queue of newcomers until it takes it into its own container.  The only  *)
(* thing they share about it is the atomic flag invalid_: whoever meets an *)
(* error raises it, and each thread drops the connection when it next      *)
(* looks.  The object, and its descriptor, go away with the last holder.   *)
(* Both epoll instances keep raw pointers to connections.                  *)
(*                                                                         *)
(* Bytes are abstracted: unread is the number of requests in the kernel,   *)
(* inbox the number in recvBuf_, out says whether sendBuf_ holds anything. *)
(***************************************************************************)
EXTENDS Naturals, FiniteSets

CONSTANTS
  Conns,            \* the connections clients make, one per client
  Casts             \* the situations that are looked at, each a record:
                    \*   requests: how many each client that connects sends
                    \*   refuse: may epoll refuse a descriptor (out of watches)?
                    \*   acceptFails: may accept() fail in a way that
                    \*     OnReadable gives up on?

ASSUME CastsAssumption ==
  \A cast \in Casts :
    /\ DOMAIN cast.requests \subseteq Conns
    /\ cast.requests \in [DOMAIN cast.requests -> Nat]
    /\ {cast.refuse, cast.acceptFails} \subseteq BOOLEAN

VARIABLES
  backlog, accepted,  \* connections in the listen queue; ever accepted
  gone,               \* the peer closed, reset or cannot be reached
  full,               \* the kernel's send buffer has no room
  sent, unread,       \* requests made by the client; those still in the kernel
  listener,           \* "bound", "failed" (invalid_) or "closed" (erased)
  handing,            \* NewConnection in progress: <<connection, step>>
  recvNew, sendNew, mainNew,       \* newTasks_ of the three threads
  recvTasks, sendTasks, mainTasks, \* tasks_ and tcpSockets_
  recvPoll, sendPoll,              \* descriptors in the two epoll instances
  invalid, epollOut,               \* Socket::invalid_, Socket::epollOut_
  inbox, out,                      \* recvBuf_; sendBuf_ is not empty
  todo, nOut, fired,               \* the send thread's pass, then its events
  welcomed, dismissed,             \* OnConnect, OnDisconnect were called
  cast                             \* one of Casts

kernel == <<backlog, gone, full, sent, listener>>
recvVars == <<accepted, unread, handing, recvNew, recvTasks, recvPoll>>
sendVars == <<sendTasks, sendPoll, epollOut, todo, nOut, fired>>
mainVars == <<mainTasks, welcomed, dismissed>>
vars == <<kernel, recvVars, sendVars, mainVars, sendNew, mainNew, invalid, inbox, out, cast>>

Nobody == <<>>
OnError(c) == invalid' = invalid \cup {c}
HandedTo(c, step) == handing = <<c, step>>

Init ==
  /\ backlog = {} /\ accepted = {} /\ gone = {} /\ full = {}
  /\ sent = [c \in Conns |-> 0] /\ unread = sent /\ inbox = sent
  /\ listener = "bound" /\ handing = Nobody
  /\ recvNew = {} /\ sendNew = {} /\ mainNew = {}
  /\ recvTasks = {} /\ sendTasks = {} /\ mainTasks = {}
  /\ recvPoll = {} /\ sendPoll = {}
  /\ invalid = {} /\ epollOut = {} /\ out = {}
  /\ todo = {} /\ nOut = FALSE /\ fired = {}
  /\ welcomed = {} /\ dismissed = {} /\ cast \in Casts

-----------------------------------------------------------------------------
(* Clients and the network. *)

Connect(c) ==
  /\ c \in DOMAIN cast.requests \ (backlog \cup accepted)
  /\ backlog' = backlog \cup {c}
  /\ UNCHANGED <<gone, full, sent, listener>>
  /\ UNCHANGED <<cast, recvVars, sendVars, mainVars, sendNew, mainNew, invalid, inbox, out>>

Request(c) ==
  /\ c \in (backlog \cup accepted) \ gone /\ sent[c] < cast.requests[c]
  /\ sent' = [sent EXCEPT ![c] = @ + 1]
  /\ unread' = [unread EXCEPT ![c] = @ + 1]
  /\ UNCHANGED <<backlog, gone, full, listener>>
  /\ UNCHANGED <<accepted, handing, recvNew, recvTasks, recvPoll>>
  /\ UNCHANGED <<cast, sendVars, mainVars, sendNew, mainNew, invalid, inbox, out>>

Leave(c) ==
  /\ c \in (backlog \cup accepted) \ gone
  /\ gone' = gone \cup {c}
  /\ UNCHANGED <<backlog, full, sent, listener>>
  /\ UNCHANGED <<cast, recvVars, sendVars, mainVars, sendNew, mainNew, invalid, inbox, out>>

PeerReads(c) ==
  /\ c \in full \ gone
  /\ full' = full \ {c}
  /\ UNCHANGED <<backlog, gone, sent, listener>>
  /\ UNCHANGED <<cast, recvVars, sendVars, mainVars, sendNew, mainNew, invalid, inbox, out>>

-----------------------------------------------------------------------------
(* The receive thread. *)

RecvFree == handing = Nobody

(* NetThread::_TryAddNewTasks: what epoll refuses is not kept. *)
Registered(new) == IF cast.refuse THEN SUBSET new ELSE {new}

RecvTryAdd ==
  /\ RecvFree /\ recvNew # {}
  /\ \E added \in Registered(recvNew) :
       recvTasks' = recvTasks \cup added /\ recvPoll' = recvPoll \cup added
  /\ recvNew' = {}
  /\ UNCHANGED <<kernel, sendVars, mainVars, sendNew, mainNew, invalid, inbox, out>>
  /\ UNCHANGED <<cast, accepted, unread, handing>>

(* ListenSocket::OnReadable, one turn of its loop: accept, NewConnection, and *)
(* in NetThreadPool::AddSocket the thread's own queue.                        *)
Accept(c) ==
  /\ RecvFree /\ listener # "closed" /\ c \in backlog
  /\ backlog' = backlog \ {c} /\ accepted' = accepted \cup {c}
  /\ recvNew' = recvNew \cup {c} /\ handing' = <<c, "send">>
  /\ UNCHANGED <<gone, full, sent, listener, unread, recvTasks, recvPoll>>
  /\ UNCHANGED <<cast, sendVars, mainVars, sendNew, mainNew, invalid, inbox, out>>

(* Then the send thread's queue and, last, TaskManager::AddTask, each under a *)
(* lock of its own.                                                           *)
HandToSend(c) ==
  /\ HandedTo(c, "send")
  /\ sendNew' = sendNew \cup {c} /\ handing' = <<c, "main">>
  /\ UNCHANGED <<kernel, sendVars, mainVars, mainNew, invalid, inbox, out>>
  /\ UNCHANGED <<cast, accepted, unread, recvNew, recvTasks, recvPoll>>

HandToMain(c) ==
  /\ HandedTo(c, "main")
  /\ mainNew' = mainNew \cup {c} /\ handing' = Nobody
  /\ UNCHANGED <<kernel, sendVars, mainVars, sendNew, invalid, inbox, out>>
  /\ UNCHANGED <<cast, accepted, unread, recvNew, recvTasks, recvPoll>>

(* accept() fails with an errno that is not in the list: OnReadable returns *)
(* false and OnError marks the listening socket.                            *)
AcceptError ==
  /\ cast.acceptFails /\ RecvFree /\ listener = "bound"
  /\ listener' = "failed"
  /\ UNCHANGED <<backlog, gone, full, sent>>
  /\ UNCHANGED <<cast, recvVars, sendVars, mainVars, sendNew, mainNew, invalid, inbox, out>>

(* StreamSocket::OnReadable takes what is there. *)
RecvRead(c) ==
  /\ RecvFree /\ c \in recvPoll /\ unread[c] > 0
  /\ inbox' = [inbox EXCEPT ![c] = @ + unread[c]]
  /\ unread' = [unread EXCEPT ![c] = 0]
  /\ UNCHANGED <<kernel, sendVars, mainVars, sendNew, mainNew, invalid, out>>
  /\ UNCHANGED <<cast, accepted, handing, recvNew, recvTasks, recvPoll>>

(* Mutant: EOF is taken for "nothing to read". *)
RecvEofIgnored(c) ==
  /\ RecvFree /\ c \in recvPoll /\ c \in gone
  /\ UNCHANGED vars

(* EOF after the last byte, or an error (a reset comes before what is      *)
(* unread): DisableRead, then OnError.                                      *)
RecvEof(c) ==
  /\ RecvFree /\ c \in recvPoll /\ c \in gone
  /\ recvPoll' = recvPoll \ {c} /\ OnError(c)
  /\ UNCHANGED <<kernel, sendVars, mainVars, sendNew, mainNew, inbox, out>>
  /\ UNCHANGED <<cast, accepted, unread, handing, recvNew, recvTasks>>

(* Mutant: erase without DisableRead and RemoveSocket. *)
RecvCleanKeepsPolling ==
  /\ RecvFree
  /\ recvTasks \cap invalid # {} \/ listener = "failed"
  /\ recvTasks' = recvTasks \ invalid
  /\ listener' = IF listener = "failed" THEN "closed" ELSE listener
  /\ UNCHANGED <<backlog, gone, full, sent, recvPoll>>
  /\ UNCHANGED <<sendVars, mainVars, sendNew, mainNew, invalid, inbox, out>>
  /\ UNCHANGED <<cast, accepted, unread, handing, recvNew>>

(* The sweep of RecvThread::Run.  It runs when loopCount reaches 100000, and *)
(* loopCount grows in every turn, so it runs again and again.                *)
RecvClean ==
  /\ RecvFree
  /\ recvTasks \cap invalid # {} \/ listener = "failed"
  /\ recvTasks' = recvTasks \ invalid
  /\ recvPoll' = recvPoll \ (recvTasks \cap invalid)
  /\ listener' = IF listener = "failed" THEN "closed" ELSE listener
  /\ UNCHANGED <<backlog, gone, full, sent>>
  /\ UNCHANGED <<sendVars, mainVars, sendNew, mainNew, invalid, inbox, out>>
  /\ UNCHANGED <<cast, accepted, unread, handing, recvNew>>

-----------------------------------------------------------------------------
(* The send thread. *)

SendFree == todo = {} /\ fired = {}

(* A new turn of SendThread::Run. *)
SendTurn ==
  /\ SendFree /\ ~nOut /\ sendNew \cup sendTasks # {}
  /\ \E added \in Registered(sendNew) :
       /\ sendTasks' = sendTasks \cup added /\ sendPoll' = sendPoll \cup added
       /\ todo' = sendTasks \cup added
  /\ sendNew' = {}
  /\ UNCHANGED <<cast, kernel, recvVars, mainVars, mainNew, invalid, inbox, out, epollOut, nOut, fired>>

(* _Send: everything leaves, or some (or nothing: EAGAIN) and the kernel is  *)
(* full, or an error once the peer is gone.  ProcessBuffer may also offer    *)
(* nothing because the main thread holds the back buffer.                    *)
Write(c) ==
  \/ /\ c \notin full
     /\ out' = out \ {c} /\ epollOut' = epollOut \ {c}
     /\ UNCHANGED <<full, invalid>>
  \/ /\ full' = full \cup {c} /\ epollOut' = epollOut \cup {c}
     /\ UNCHANGED <<out, invalid>>
  \/ /\ c \in gone /\ OnError(c)
     /\ UNCHANGED <<out, full, epollOut>>

(* One turn of the pass: StreamSocket::Send (with EnableWrite after a short *)
(* write), then either the connection is dropped or it is counted.          *)
SendTask(c) ==
  /\ c \in todo
  /\ todo' = todo \ {c}
  /\ \/ c \in out \ epollOut /\ Write(c)
     \/ UNCHANGED <<out, full, epollOut, invalid>>
  /\ IF c \in invalid'
     THEN /\ sendTasks' = sendTasks \ {c} /\ sendPoll' = sendPoll \ {c}
          /\ UNCHANGED nOut
     ELSE /\ nOut' = (nOut \/ c \in epollOut')
          /\ sendPoll' = sendPoll \cup ({c} \cap (epollOut' \ epollOut))
          /\ UNCHANGED sendTasks
  /\ UNCHANGED <<backlog, gone, sent, listener, recvVars, mainVars>>
  /\ UNCHANGED <<cast, sendNew, mainNew, inbox, fired>>

CanWrite == {c \in sendPoll : c \notin full \/ c \in gone}

(* Mutant: the poll of every turn, with epollOut_ set or not. *)
SendPollAlways ==
  /\ SendFree
  /\ fired' \in SUBSET CanWrite
  /\ nOut' = FALSE
  /\ UNCHANGED <<kernel, recvVars, mainVars, sendNew, mainNew, invalid, inbox, out>>
  /\ UNCHANGED <<cast, sendTasks, sendPoll, epollOut, todo>>

(* With some epollOut_ set, the send thread polls everything it registered. *)
SendPoll ==
  /\ SendFree /\ nOut
  /\ fired' \in SUBSET CanWrite
  /\ nOut' = FALSE
  /\ UNCHANGED <<kernel, recvVars, mainVars, sendNew, mainNew, invalid, inbox, out>>
  /\ UNCHANGED <<cast, sendTasks, sendPoll, epollOut, todo>>

(* SendThread::Run calls the virtual OnWritable; StreamSocket defines        *)
(* OnWriteable, which overrides nothing, so the inherited one returns false  *)
(* and OnError follows.                                                      *)
SendEvent(c) ==
  /\ c \in fired /\ fired' = fired \ {c}
  /\ OnError(c)
  /\ UNCHANGED <<kernel, recvVars, mainVars, sendNew, mainNew, inbox, out>>
  /\ UNCHANGED <<cast, sendTasks, sendPoll, epollOut, todo, nOut>>

-----------------------------------------------------------------------------
(* The main thread. *)

(* Client::OnConnect puts the greeting into sendBuf_. *)
OnConnect(new) == welcomed' = welcomed \cup new /\ out' = out \cup new

(* Mutant: a newcomer that is invalid already is not taken in. *)
MainTryAddValid ==
  /\ mainNew # {} /\ mainNew' = {}
  /\ mainTasks' = mainTasks \cup (mainNew \ invalid) /\ OnConnect(mainNew \ invalid)
  /\ UNCHANGED <<cast, kernel, recvVars, sendVars, sendNew, invalid, inbox, dismissed>>

(* The first half of TaskManager::DoMsgParse. *)
MainTryAdd ==
  /\ mainNew # {} /\ mainNew' = {}
  /\ mainTasks' = mainTasks \cup mainNew /\ OnConnect(mainNew)
  /\ UNCHANGED <<cast, kernel, recvVars, sendVars, sendNew, invalid, inbox, dismissed>>

(* Client::_HandlePacket: OK to a login, to the version query; the parser's  *)
(* error; or Executor::Exec, which answers every statement.                  *)
HandlePacket(c) == out' = out \cup {c}

(* Mutants: a lone request waits for company; AdjustReadPtr goes too far. *)
MainServeWhenTwo(c) ==
  /\ c \in mainTasks \ invalid /\ inbox[c] > 1
  /\ inbox' = [inbox EXCEPT ![c] = 0] /\ HandlePacket(c)
  /\ UNCHANGED <<cast, kernel, recvVars, sendVars, mainVars, sendNew, mainNew, invalid>>

MainServeTooMuch(c) ==
  /\ c \in mainTasks \ invalid /\ inbox[c] > 0
  /\ inbox' = [inbox EXCEPT ![c] = @ - (@ + 1)] /\ HandlePacket(c)
  /\ UNCHANGED <<cast, kernel, recvVars, sendVars, mainVars, sendNew, mainNew, invalid>>

(* The second half, one connection: StreamSocket::DoMsgParse hands all the  *)
(* bytes there are to one call of _HandlePacket.  Invalid() is asked before *)
(* it; an answer queued on a connection that turns invalid meanwhile is     *)
(* lost with it, so that order of the two is left out.                      *)
MainServe(c) ==
  /\ c \in mainTasks \ invalid /\ inbox[c] > 0
  /\ inbox' = [inbox EXCEPT ![c] = 0] /\ HandlePacket(c)
  /\ UNCHANGED <<cast, kernel, recvVars, sendVars, mainVars, sendNew, mainNew, invalid>>

(* Mutant: the connection stays in tcpSockets_. *)
MainDropForgets(c) ==
  /\ c \in (mainTasks \cap invalid) \ dismissed
  /\ dismissed' = dismissed \cup {c}
  /\ UNCHANGED <<cast, kernel, recvVars, sendVars, sendNew, mainNew, invalid, inbox, out, mainTasks, welcomed>>

(* ... or the connection is invalid: OnDisconnect and _RemoveTask. *)
MainDrop(c) ==
  /\ c \in mainTasks \cap invalid
  /\ mainTasks' = mainTasks \ {c} /\ dismissed' = dismissed \cup {c}
  /\ UNCHANGED <<cast, kernel, recvVars, sendVars, sendNew, mainNew, invalid, inbox, out, welcomed>>

-----------------------------------------------------------------------------
RecvThread ==
  \/ RecvTryAdd \/ RecvClean \/ AcceptError
  \/ \E c \in Conns :
       \/ Accept(c) \/ HandToSend(c) \/ HandToMain(c)
       \/ RecvRead(c) \/ RecvEof(c)

SendThread == SendTurn \/ SendPoll \/ \E c \in Conns : SendTask(c) \/ SendEvent(c)

MainThread == MainTryAdd \/ \E c \in Conns : MainServe(c) \/ MainDrop(c)

Clients == \E c \in Conns : Connect(c) \/ Request(c) \/ Leave(c) \/ PeerReads(c)

Next == RecvThread \/ SendThread \/ MainThread \/ Clients

(* Each loop of each thread comes round to every socket: the poller is level *)
(* triggered, the passes go over whole containers, the sweep recurs.  Nothing*)
(* is assumed of the clients, nor of AcceptError.                            *)
Fairness ==
  /\ WF_vars(RecvTryAdd) /\ WF_vars(RecvClean)
  /\ WF_vars(SendTurn) /\ WF_vars(SendPoll) /\ WF_vars(MainTryAdd)
  /\ \A c \in Conns :
       /\ WF_vars(HandToSend(c) \/ HandToMain(c))
       /\ WF_vars(RecvRead(c)) /\ WF_vars(RecvEof(c)) /\ WF_vars(Accept(c))
       /\ WF_vars(SendTask(c)) /\ WF_vars(SendEvent(c))
       /\ WF_vars(MainServe(c)) /\ WF_vars(MainDrop(c))

Spec == Init /\ [][Next]_vars /\ Fairness

-----------------------------------------------------------------------------
Held(c) ==
  \/ c \in recvNew \cup recvTasks \cup sendNew \cup sendTasks \cup mainNew \cup mainTasks
  \/ \E step \in {"send", "main"} : HandedTo(c, step)

(* The last shared_ptr is gone: ~Socket closed the descriptor. *)
Released(c) == c \in accepted /\ ~Held(c)

(* Every variable of the three threads has its type. *)
TypeOK ==
  /\ \A s \in {backlog, accepted, gone, full, recvNew, sendNew, mainNew, recvTasks,
               sendTasks, mainTasks, recvPoll, sendPoll, invalid, epollOut, out,
               todo, fired, welcomed, dismissed} : s \subseteq Conns
  /\ \A f \in {sent, unread, inbox} : f \in [Conns -> Nat]
  /\ listener \in {"bound", "failed", "closed"}
  /\ handing \in {Nobody} \cup (Conns \X {"send", "main"})
  /\ nOut \in BOOLEAN

(* The raw Socket pointers in the epoll instances, and those the send thread *)
(* took from its last poll, are to connections the same thread still holds:  *)
(* no event is delivered to a destroyed object, whichever thread raised      *)
(* invalid_ and in whichever order the three drop the connection.            *)
PollersPointToHeld ==
  /\ recvPoll \subseteq recvTasks
  /\ sendPoll \cup fired \cup todo \subseteq sendTasks

(* A connection object is destroyed only after the main thread called        *)
(* OnConnect and OnDisconnect on it, even when it became invalid before the  *)
(* main thread had heard of it.                                              *)
CallbacksArePaired == \A c \in Conns : Released(c) => c \in welcomed /\ c \in dismissed

(* Once some thread met an error all three let the connection go, and its    *)
(* descriptor is closed.                                                     *)
InvalidIsReleased == \A c \in Conns : (c \in invalid) ~> Released(c)

(* A client that goes away does not leave its connection behind, if epoll    *)
(* took the connection (one it refused is never read, and stays).            *)
GonePeerIsReleased == \A c \in Conns : (c \in gone /\ c \in recvPoll) ~> Released(c)

(* A request that arrived is taken by the main thread; what is dropped       *)
(* unparsed is of a client that has left or, once some connection could not  *)
(* take what was sent to it, of one that SendEvent gives up.                 *)
RequestIsServed ==
  \A c \in Conns : (c \in recvPoll /\ unread[c] > 0) ~>
    \/ inbox[c] + unread[c] = 0
    \/ c \in invalid /\ (c \in gone \/ epollOut # {})

(* A connection is given up only because its peer is gone or, at worst,      *)
(* because it could not take the bytes sent to it: one slow client does not  *)
(* cost the others their connections.                                        *)
OnlyOwnTroubleDrops == invalid \subseteq gone \cup epollOut

(* What does hold of the drops: a connection whose peer is there is given up *)
(* by no thread before some connection could not take what was sent to it.   *)
(* As long as every client reads, the event handler that is never reached    *)
(* costs nobody a connection.                                                *)
DropsNeedASlowPeer == invalid \subseteq gone \/ epollOut # {}
=============================================================================
