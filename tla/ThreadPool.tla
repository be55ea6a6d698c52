----------------------------- MODULE ThreadPool -----------------------------
(***************************************************************************)
(* The thread pool (network/thread_pool.cc, thread_pool.h) and the way the *)
(* server starts and ends its two network loops on it                      *)
(* (network/net_thread_pool.cc, server.cc): ExecuteTask, the workers, the  *)
(* monitor that stops idle workers, StopAllThreads and JoinAll.            *)
(*                                                                         *)
(* A step is a critical section of mutex_, or what a thread does between   *)
(* two of them.  A task is one call of ExecuteTask; a worker is named      *)
(* after the task whose ExecuteTask created it.                            *)
(***************************************************************************)
EXTENDS Integers, Sequences, FiniteSets

CONSTANTS
  Tasks,     \* everything that may be given to ExecuteTask
  Uses,      \* how the pool is used: [main |-> tasks in order, other |-> set]
  MaxIdle,   \* maxIdleThread_
  Unsigned   \* 2^32: how far an unsigned int counts before it wraps

Loops == {"recv", "send"}  \* RecvThread::Run, SendThread::Run: end when told

Stop == "stop"     \* the monitor's task: working_ = false
Nothing == "none"

ASSUME TasksAssumption ==
  IsFiniteSet(Tasks) /\ Loops \subseteq Tasks /\ Stop \notin Tasks /\ Nothing \notin Tasks
ASSUME UsesAssumption ==
  /\ Uses \subseteq [main : Seq(Tasks), other : SUBSET Tasks]
  /\ \A use \in Uses : \A i \in 1..Len(use.main) :
       /\ use.main[i] \notin use.other
       /\ \A j \in 1..Len(use.main) : use.main[i] = use.main[j] => i = j
ASSUME MaxIdleAssumption == MaxIdle \in Nat \ {0}
ASSUME UnsignedAssumption == Unsigned \in Nat /\ Unsigned > Cardinality(Tasks) + MaxIdle

VARIABLES
  queue,            \* tasks_
  waiters, pending, \* waiters_, pendingStopSignal_
  shutdown,         \* shutdown_
  state, doing,     \* of each worker: where it is, and the task it took
  monitor,          \* the monitor thread still runs
  plan, others,     \* what the main thread, and other threads, still submit
  accepted, started, finished,  \* history: tasks the pool took, began, ended
  wrapped,          \* history: nw went below 0 in the monitor
  pc,               \* the main thread: StartAllThreads, MainLoop, its end
  alive,            \* runnning_ of the two loops
  set,              \* recvThread_ and sendThread_, the ones that are not null
  using,            \* of a loop: the pointer it tested and is about to use
  crashed           \* it used it after main had reset it

pool == <<queue, waiters, pending, shutdown>>
history == <<accepted, started, finished, wrapped>>
program == <<pc, alive, set, using, crashed>>
vars == <<pool, history, program, state, doing, monitor, plan, others>>

Places == {"none", "start", "blocked", "woken", "busy", "leaving", "exited"}
At(place) == {w \in Tasks : state[w] = place}

Init ==
  /\ queue = <<>> /\ waiters = 0 /\ pending = 0 /\ shutdown = FALSE
  /\ state = [w \in Tasks |-> "none"] /\ doing = [w \in Tasks |-> Nothing]
  /\ monitor = TRUE
  /\ \E use \in Uses : plan = use.main /\ others = use.other
  /\ accepted = {} /\ started = {} /\ finished = {} /\ wrapped = FALSE
  /\ pc = "start" /\ alive = Loops /\ set = Loops
  /\ using = [l \in Loops |-> Nothing] /\ crashed = FALSE

-----------------------------------------------------------------------------
(* cond_.notify_one(), n times: n blocked workers wake, or all there are. *)
Woken(n) ==
  LET k == IF n < Cardinality(At("blocked")) THEN n ELSE Cardinality(At("blocked"))
  IN  {ws \in SUBSET At("blocked") : Cardinality(ws) = k}

Wake(st, ws) == [w \in Tasks |-> IF w \in ws THEN "woken" ELSE st[w]]

(* Mutant: a worker is created only when there is none at all. *)
ExecuteTaskOneWorker(t) ==
  /\ IF shutdown
     THEN UNCHANGED <<queue, state, accepted>>
     ELSE /\ queue' = Append(queue, t) /\ accepted' = accepted \cup {t}
          /\ \E ws \in Woken(1) :
               state' = Wake(IF At("none") = Tasks THEN [state EXCEPT ![t] = "start"] ELSE state, ws)
  /\ UNCHANGED <<waiters, pending, shutdown, doing, monitor, started, finished, wrapped>>

(* ExecuteTask: after JoinAll it returns a future that is not valid. *)
ExecuteTask(t) ==
  /\ IF shutdown
     THEN UNCHANGED <<queue, state, accepted>>
     ELSE /\ queue' = Append(queue, t) /\ accepted' = accepted \cup {t}
          /\ \E ws \in Woken(1) :
               state' = Wake(IF waiters = 0 THEN [state EXCEPT ![t] = "start"] ELSE state, ws)
  /\ UNCHANGED <<waiters, pending, shutdown, doing, monitor, started, finished, wrapped>>

(* Mutant: return on shutdown_ whatever is in the queue. *)
ProceedNoDrain(w, left) ==
  /\ waiters' = left
  /\ IF shutdown
     THEN /\ state' = [state EXCEPT ![w] = "exited"]
          /\ UNCHANGED <<queue, doing, started>>
     ELSE /\ queue' = Tail(queue) /\ doing' = [doing EXCEPT ![w] = Head(queue)]
          /\ state' = [state EXCEPT ![w] = "busy"]
          /\ started' = started \cup ({Head(queue)} \ {Stop})
  /\ UNCHANGED <<pending, shutdown, monitor, plan, others, accepted, finished, wrapped, program>>

(* The end of the wait: what worker w does with the mutex and a true        *)
(* predicate.  left is waiters_ after --waiters_.                           *)
Proceed(w, left) ==
  /\ waiters' = left
  /\ IF queue = <<>>
     THEN /\ state' = [state EXCEPT ![w] = "exited"]
          /\ UNCHANGED <<queue, doing, started>>
     ELSE /\ queue' = Tail(queue) /\ doing' = [doing EXCEPT ![w] = Head(queue)]
          /\ state' = [state EXCEPT ![w] = "busy"]
          /\ started' = started \cup ({Head(queue)} \ {Stop})
  /\ UNCHANGED <<pending, shutdown, monitor, plan, others, accepted, finished, wrapped, program>>

Continue == shutdown \/ queue # <<>>

(* Mutant: no ++waiters_. *)
EnterUncounted(w) ==
  /\ state[w] = "start"
  /\ \/ Continue /\ Proceed(w, waiters)
     \/ /\ ~Continue /\ state' = [state EXCEPT ![w] = "blocked"]
        /\ UNCHANGED <<pool, doing, monitor, plan, others, history, program>>

(* _WorkerRoutine from the top of its loop: ++waiters_, and the first test  *)
(* of the predicate.                                                        *)
Enter(w) ==
  /\ state[w] = "start"
  /\ \/ Continue /\ Proceed(w, waiters)
     \/ /\ ~Continue
        /\ waiters' = waiters + 1 /\ state' = [state EXCEPT ![w] = "blocked"]
        /\ UNCHANGED <<queue, pending, shutdown, doing, monitor, plan, others, history, program>>

(* A worker that was notified: the predicate again. *)
Resume(w) ==
  /\ state[w] = "woken"
  /\ \/ Continue /\ Proceed(w, waiters - 1)
     \/ /\ ~Continue /\ state' = [state EXCEPT ![w] = "blocked"]
        /\ UNCHANGED <<pool, history, program, doing, monitor, plan, others>>

(* task() returns; a loop does when its runnning_ is false. *)
Return(w) ==
  /\ state[w] = "busy"
  /\ doing[w] \in Loops => doing[w] \notin alive /\ using[doing[w]] = Nothing
  /\ state' = [state EXCEPT ![w] = IF doing[w] = Stop THEN "leaving" ELSE "start"]
  /\ finished' = finished \cup ({doing[w]} \ {Stop})
  /\ doing' = [doing EXCEPT ![w] = Nothing]
  /\ UNCHANGED <<pool, monitor, plan, others, accepted, started, wrapped, program>>

(* Mutant: pendingStopSignal_ is not counted down. *)
LeaveUncounted(w) ==
  /\ state[w] = "leaving"
  /\ state' = [state EXCEPT ![w] = "exited"]
  /\ UNCHANGED <<pool, doing, monitor, plan, others, history, program>>

(* working_ is false: --pendingStopSignal_, without the mutex. *)
Leave(w) ==
  /\ state[w] = "leaving"
  /\ pending' = (pending + Unsigned - 1) % Unsigned
  /\ state' = [state EXCEPT ![w] = "exited"]
  /\ UNCHANGED <<queue, waiters, shutdown, doing, monitor, plan, others, history, program>>

Worker(w) == Enter(w) \/ Resume(w) \/ Return(w) \/ Leave(w)

(* Mutant: stop signals on their way are not counted. *)
StopsIgnoringPending == IF waiters > MaxIdle THEN waiters - MaxIdle ELSE 0

(* The stop tasks of one round: nw is unsigned, so waiters_ below            *)
(* pendingStopSignal_ makes it huge.                                         *)
Stops ==
  LET nw == (waiters + Unsigned - pending) % Unsigned
  IN  IF nw > MaxIdle THEN nw - MaxIdle ELSE 0

(* One round of _MonitorRoutine, a second after the last. *)
MonitorRound ==
  /\ monitor
  /\ IF shutdown
     THEN monitor' = FALSE /\ UNCHANGED <<queue, pending, state, wrapped>>
     ELSE /\ queue' = queue \o [i \in 1..Stops |-> Stop]
          /\ pending' = (pending + Stops) % Unsigned
          /\ \E ws \in Woken(Stops) : state' = Wake(state, ws)
          /\ wrapped' = (wrapped \/ waiters < pending)
          /\ UNCHANGED monitor
  /\ UNCHANGED <<waiters, shutdown, doing, plan, others, accepted, started, finished, program>>

-----------------------------------------------------------------------------
(* The main thread, and other users of the pool. *)

(* StartAllThreads: recvThread_ and sendThread_ are set before. *)
Submit ==
  /\ pc = "start" /\ plan # <<>>
  /\ ExecuteTask(Head(plan)) /\ plan' = Tail(plan)
  /\ UNCHANGED <<others, program>>

SubmitOther(t) ==
  /\ t \in others /\ others' = others \ {t}
  /\ ExecuteTask(t)
  /\ UNCHANGED <<plan, program>>

(* MainLoop runs until a signal sets bTerminate_, or not at all when _Init  *)
(* cannot bind; then StopAllThreads, one loop after the other.              *)
EndOfLoop ==
  /\ pc = "start" /\ plan = <<>>
  /\ pc' = "stopping"
  /\ UNCHANGED <<pool, history, state, doing, monitor, plan, others, alive, set, using, crashed>>

(* Stop() on the object, then reset() of the pointer main holds. *)
StopLoop(l) ==
  /\ pc = "stopping" /\ l \in set /\ (l = "send" => "recv" \notin set)
  /\ \/ l \in alive /\ alive' = alive \ {l} /\ UNCHANGED set
     \/ l \notin alive /\ set' = set \ {l} /\ UNCHANGED alive
  /\ UNCHANGED <<pool, history, state, doing, monitor, plan, others, pc, using, crashed>>

(* JoinAll, up to the joins. *)
JoinAll ==
  /\ pc = "stopping" /\ set = {}
  /\ pc' = "joining" /\ shutdown' = TRUE
  /\ state' = Wake(state, At("blocked"))
  /\ UNCHANGED <<queue, waiters, pending, doing, monitor, plan, others, history>>
  /\ UNCHANGED <<alive, set, using, crashed>>

(* Every worker it swapped out of workers_, then the monitor. *)
Joined ==
  /\ pc = "joining" /\ ~monitor
  /\ \A w \in Tasks : state[w] \in {"none", "exited"}
  /\ pc' = "joined"
  /\ UNCHANGED <<pool, history, state, doing, monitor, plan, others, alive, set, using, crashed>>

Running(l) == ~crashed /\ \E w \in Tasks : state[w] = "busy" /\ doing[w] = l

(* NetThreadPool::AddSocket and DisableRead, called by the receive loop, and *)
(* EnableWrite and DisableWrite, called by the send loop: if (recvThread_)...*)
TestPointer(l, p) ==
  /\ Running(l) /\ using[l] = Nothing /\ p \in set
  /\ p = "recv" => l = "recv"
  /\ using' = [using EXCEPT ![l] = p]
  /\ UNCHANGED <<pool, history, state, doing, monitor, plan, others, pc, alive, set, crashed>>

(* ... recvThread_->ModSocket(...).  Main may reset the pointer in between,  *)
(* a data race: the value read before is used, or the null of now.           *)
UsePointer(l) ==
  /\ Running(l) /\ using[l] # Nothing
  /\ using' = [using EXCEPT ![l] = Nothing]
  /\ crashed' \in {FALSE, using[l] \notin set}
  /\ UNCHANGED <<pool, history, state, doing, monitor, plan, others, pc, alive, set>>

Main == Submit \/ JoinAll \/ Joined \/ \E l \in Loops : StopLoop(l)

Live ==
  \/ Main \/ EndOfLoop \/ MonitorRound
  \/ \E w \in Tasks : Worker(w) \/ SubmitOther(w)
  \/ \E l \in Loops : UsePointer(l) \/ \E p \in Loops : TestPointer(l, p)

Next == ~crashed /\ Live

(* All threads are scheduled, the monitor wakes every second, and tasks     *)
(* other than the loops end.  A signal need not come.                        *)
Fairness ==
  /\ WF_vars(~crashed /\ Main) /\ WF_vars(~crashed /\ MonitorRound)
  /\ \A w \in Tasks : WF_vars(~crashed /\ Worker(w))
  /\ \A l \in Loops : WF_vars(~crashed /\ UsePointer(l))

Spec == Init /\ [][Next]_vars /\ Fairness

-----------------------------------------------------------------------------
(* Properties. *)

(* The variables of the pool and of the program have their types. *)
TypeOK ==
  /\ queue \in Seq(Tasks \cup {Stop}) /\ waiters \in Nat /\ pending \in 0..(Unsigned - 1)
  /\ state \in [Tasks -> Places] /\ doing \in [Tasks -> Tasks \cup {Stop, Nothing}]
  /\ {shutdown, monitor, wrapped, crashed} \subseteq BOOLEAN
  /\ plan \in Seq(Tasks) /\ others \subseteq Tasks
  /\ \A s \in {accepted, started, finished} : s \subseteq Tasks
  /\ pc \in {"start", "stopping", "joining", "joined"}
  /\ alive \subseteq Loops /\ set \subseteq Loops /\ using \in [Loops -> Loops \cup {Nothing}]

StopsIn(q) == Cardinality({i \in 1..Len(q) : q[i] = Stop})
Waiting == At("blocked") \cup At("woken")
Stopping == At("leaving") \cup {w \in At("busy") : doing[w] = Stop}
Lasting == At("start") \cup At("blocked") \cup At("woken") \cup {w \in At("busy") : doing[w] # Stop}

(* waiters_ counts the workers in cond_.wait, also those notified but not    *)
(* yet running; pendingStopSignal_ counts the stop tasks in the queue and    *)
(* the workers that took one and did not yet count it, although it is        *)
(* changed outside the mutex.                                                *)
CountersAreExact ==
  /\ waiters = Cardinality(Waiting)
  /\ pending = (StopsIn(queue) + Cardinality(Stopping)) % Unsigned

(* nw has wrapped, which takes another use of the pool than the server's: the *)
(* two loops alone do not bring it about, not even with one processor.        *)
Flooded == wrapped /\ ~(accepted \subseteq Loops)

(* The monitor does not stop the last worker: until nw wraps, there are more *)
(* workers than stop tasks for them, so a queued task has somebody to run it.*)
LastWorkerStays ==
  ~Flooded /\ ~shutdown /\ accepted # {} => StopsIn(queue) < Cardinality(Lasting)

(* Every accepted task gets a worker.  For the two loops, which do not end,  *)
(* this says that neither waits behind the other.  The race of a loop with   *)
(* reset() can end the server, but not before the shut-down.                 *)
EveryTaskRuns ==
  \A t \in Tasks :
    t \in accepted ~> (t \in started \/ Flooded \/ (crashed /\ pc # "start"))

(* The shut-down comes to its end with everything done: JoinAll returns,     *)
(* whatever workers and monitor were doing when shutdown_ was set, and each  *)
(* task that was accepted has run (or a loop has met a null pointer).        *)
ShutdownEnds ==
  pc = "stopping" ~>
    (crashed \/ (pc = "joined" /\ (accepted \subseteq finished \/ Flooded)))
=============================================================================
