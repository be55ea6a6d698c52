-------------------------- MODULE ThreadPoolProofs --------------------------
(***************************************************************************)
(* Proofs about ThreadPool, for every set of tasks, every use of the pool, *)
(* every number of idle workers and every width of the counters.           *)
(***************************************************************************)
EXTENDS ThreadPool, FiniteSetTheorems, SequenceTheorems, TLAPS

(* Each task is submitted once, so that it has no worker before. *)
FreshInv ==
  /\ \A w \in Tasks : state[w] # "none" => w \in accepted
  /\ \A i \in 1..Len(plan) :
       /\ plan[i] \notin others /\ plan[i] \notin accepted
       /\ \A j \in 1..Len(plan) : plan[i] = plan[j] => i = j
  /\ others \cap accepted = {}

(* A busy worker has a task. *)
DoingInv == \A w \in Tasks : state[w] = "busy" => doing[w] # Nothing

(* The stop tasks that pendingStopSignal_ has counted up and not yet down. *)
StopTotal == StopsIn(queue) + Cardinality(Stopping)

(* The monitor leaves a worker as long as nw does not wrap. *)
WorkerInv ==
  ~shutdown /\ ~wrapped =>
    IF accepted = {} THEN StopTotal = 0 ELSE StopsIn(queue) < Cardinality(Lasting)

(* With the two loops alone there is one stop task at a time, and only when *)
(* both loops have ended: nw cannot wrap.                                   *)
LoopsInv ==
  ~shutdown /\ accepted \subseteq Loops =>
    /\ ~wrapped /\ StopTotal <= 1
    /\ StopTotal = 1 => /\ Loops \subseteq Waiting \cup Stopping
                       /\ \A i \in 1..Len(queue) : queue[i] = Stop
    /\ (\E i \in 1..Len(queue) : queue[i] # Stop) => Cardinality(Waiting) <= 1

PoolInv == TypeOK /\ FreshInv /\ DoingInv /\ CountersAreExact /\ WorkerInv /\ LoopsInv

-----------------------------------------------------------------------------
(* Arithmetic of the unsigned counters. *)

(* The remainder of u * q + r is r. *)
LEMMA ModUnique ==
  ASSUME NEW u \in Nat \ {0}, NEW q \in Nat, NEW r \in 0..(u - 1)
  PROVE  (u * q + r) % u = r
OBVIOUS

(* A sum may be reduced before or after the addition. *)
LEMMA ModSum ==
  ASSUME NEW x \in Nat, NEW k \in Nat, NEW u \in Nat \ {0}
  PROVE  ((x % u) + k) % u = (x + k) % u
<1> DEFINE a == x \div u
           r == x % u
           b == (r + k) \div u
           s == (r + k) % u
<1>1. a \in Nat /\ r \in 0..(u - 1) /\ x = u * a + r
  OBVIOUS
<1>2. b \in Nat /\ s \in 0..(u - 1) /\ r + k = u * b + s
  BY <1>1
<1> HIDE DEF a, r, b, s
<1>3. x + k = u * (a + b) + s
  BY <1>1, <1>2
<1> DEFINE c == a + b
<1>4. c \in Nat
  BY <1>1, <1>2
<1> HIDE DEF c
<1>5. (u * c + s) % u = s
  BY <1>2, <1>4, ModUnique
<1> QED
  BY <1>3, <1>5 DEF r, s, c

(* A small number is its own remainder. *)
LEMMA SmallMod ==
  ASSUME NEW u \in Nat \ {0}, NEW x \in 0..(u - 1)
  PROVE  x % u = x
OBVIOUS

(* Once around the unsigned range changes nothing. *)
LEMMA ModBack ==
  ASSUME NEW u \in Nat \ {0}, NEW x \in Nat
  PROVE  (x + u) % u = x % u
<1>1. (u % u) = 0
  OBVIOUS
<1>2. ((u % u) + x) % u = (u + x) % u
  BY ModSum
<1> QED BY <1>1, <1>2
-----------------------------------------------------------------------------
(* Stop tasks in a queue. *)

(* A queue has finitely many stop tasks, none exactly when no entry is one. *)
LEMMA StopsType ==
  ASSUME NEW q \in Seq(Tasks \cup {Stop})
  PROVE  /\ IsFiniteSet({i \in 1..Len(q) : q[i] = Stop})
         /\ StopsIn(q) \in Nat
         /\ StopsIn(q) = 0 <=> \A i \in 1..Len(q) : q[i] # Stop
<1> DEFINE stops == {i \in 1..Len(q) : q[i] = Stop}
<1>1. IsFiniteSet(1..Len(q)) /\ stops \in SUBSET (1..Len(q))
  BY FS_Interval, 1 \in Int, Len(q) \in Int
<1>2. stops = {} <=> \A i \in 1..Len(q) : q[i] # Stop
  OBVIOUS
<1>3. StopsIn(q) = Cardinality(stops)
  BY DEF StopsIn
<1> HIDE DEF stops
<1>4. IsFiniteSet(stops)
  BY <1>1, FS_Subset
<1>5. Cardinality(stops) \in Nat /\ (Cardinality(stops) = 0 <=> stops = {})
  BY <1>4, FS_CardinalityType, FS_EmptySet
<1> QED
  BY <1>2, <1>3, <1>4, <1>5 DEF stops

(* An empty queue has none. *)
LEMMA StopsEmpty == StopsIn(<<>>) = 0
<1>1. {i \in 1..Len(<<>>) : <<>>[i] = Stop} = {}
  BY Len(<<>>) = 0
<1> QED
  BY <1>1, FS_EmptySet DEF StopsIn

(* ExecuteTask's push adds none. *)
LEMMA StopsAppend ==
  ASSUME NEW q \in Seq(Tasks \cup {Stop}), NEW t \in Tasks
  PROVE  StopsIn(Append(q, t)) = StopsIn(q)
<1>1. {i \in 1..Len(Append(q, t)) : Append(q, t)[i] = Stop} = {i \in 1..Len(q) : q[i] = Stop}
  BY TasksAssumption, AppendProperties
<1> QED
  BY <1>1 DEF StopsIn

(* The monitor's k pushes add k. *)
LEMMA StopsMore ==
  ASSUME NEW q \in Seq(Tasks \cup {Stop}), NEW k \in Nat
  PROVE  /\ q \o [i \in 1..k |-> Stop] \in Seq(Tasks \cup {Stop})
         /\ StopsIn(q \o [i \in 1..k |-> Stop]) = StopsIn(q) + k
         /\ (\A i \in 1..Len(q) : q[i] = Stop) =>
              LET r == q \o [i \in 1..k |-> Stop] IN \A i \in 1..Len(r) : r[i] = Stop
<1> DEFINE z == [i \in 1..k |-> Stop]
           r == q \o z
           old == {i \in 1..Len(q) : q[i] = Stop}
           new == (Len(q) + 1)..(Len(q) + k)
<1>1. z \in Seq(Tasks \cup {Stop}) /\ Len(z) = k /\ \A i \in 1..k : z[i] = Stop
  OBVIOUS
<1> HIDE DEF z
<1>2. /\ r \in Seq(Tasks \cup {Stop}) /\ Len(r) = Len(q) + k
      /\ \A i \in 1..Len(r) : r[i] = IF i <= Len(q) THEN q[i] ELSE z[i - Len(q)]
  BY <1>1, ConcatProperties
<1>3. \A i \in 1..Len(r) : i > Len(q) => r[i] = Stop
  BY <1>1, <1>2
<1> HIDE DEF r
<1>4. {i \in 1..Len(r) : r[i] = Stop} = old \cup new
  BY <1>2, <1>3
<1>5. IsFiniteSet(new) /\ Cardinality(new) = k
  BY FS_Interval, Len(q) + 1 \in Int, Len(q) + k \in Int
<1>6. IsFiniteSet(old) /\ Cardinality(old) \in Nat
  BY StopsType, FS_CardinalityType
<1>7. old \cap new = {}
  OBVIOUS
<1> HIDE DEF old, new
<1>8. Cardinality(old \cup new) = Cardinality(old) + k
  <2>1. Cardinality(old \cup new) = Cardinality(old) + Cardinality(new) - Cardinality(old \cap new)
    BY <1>5, <1>6, FS_Union
  <2>2. Cardinality(old \cap new) = 0
    BY <1>7, FS_EmptySet
  <2> QED
    BY <2>1, <2>2, <1>5, <1>6
<1>9. StopsIn(r) = StopsIn(q) + k
  BY <1>4, <1>8 DEF StopsIn, old
<1>10. (\A i \in 1..Len(q) : q[i] = Stop) => \A i \in 1..Len(r) : r[i] = Stop
  BY <1>2, <1>3
<1> QED
  BY <1>2, <1>9, <1>10 DEF r, z

(* A pop takes one if the front is one. *)
LEMMA StopsTail ==
  ASSUME NEW q \in Seq(Tasks \cup {Stop}), q # <<>>
  PROVE  StopsIn(q) = StopsIn(Tail(q)) + (IF Head(q) = Stop THEN 1 ELSE 0)
<1> DEFINE rest == {i \in 1..Len(Tail(q)) : Tail(q)[i] = Stop}
           later == {i \in 2..Len(q) : q[i] = Stop}
           all == {i \in 1..Len(q) : q[i] = Stop}
           f == [i \in rest |-> i + 1]
<1>1. /\ Tail(q) \in Seq(Tasks \cup {Stop}) /\ Len(Tail(q)) = Len(q) - 1 /\ Len(q) > 0
      /\ \A i \in 1..Len(Tail(q)) : Tail(q)[i] = q[i + 1]
  BY HeadTailProperties, EmptySeq
<1>2. IsFiniteSet(rest) /\ IsFiniteSet(all)
  BY <1>1, StopsType
<1>3. ExistsBijection(rest, later)
  <2>1. f \in [rest -> later]
    BY <1>1
  <2>2. \A a, b \in rest : f[a] = f[b] => a = b
    OBVIOUS
  <2>3. \A t \in later : \E s \in rest : f[s] = t
    <3> TAKE t \in later
    <3>1. t - 1 \in rest /\ f[t - 1] = t
      BY <1>1
    <3> QED BY <3>1
  <2> HIDE DEF f, rest, later
  <2> QED
    BY <2>1, <2>2, <2>3 DEF ExistsBijection, Bijection, Injection, Surjection, IsInjective
<1>4. IsFiniteSet(later) /\ Cardinality(later) = Cardinality(rest)
  BY <1>2, <1>3, FS_Bijection
<1>5. all = IF Head(q) = Stop THEN later \cup {1} ELSE later
  BY <1>1
<1>6. 1 \notin later
  OBVIOUS
<1>7. Cardinality(rest) \in Nat
  BY <1>2, FS_CardinalityType
<1> HIDE DEF rest, later, all
<1>8. Cardinality(all) = Cardinality(rest) + (IF Head(q) = Stop THEN 1 ELSE 0)
  <2>1. Cardinality(later \cup {1}) = Cardinality(later) + 1
    BY <1>4, <1>6, FS_AddElement
  <2> QED
    BY <1>4, <1>5, <1>7, <2>1
<1> QED
  BY <1>8 DEF StopsIn, rest, all

-----------------------------------------------------------------------------
(* The sets of workers that the counters count. *)
LEMMA Counting ==
  ASSUME TypeOK
  PROVE  /\ IsFiniteSet(Waiting) /\ IsFiniteSet(Stopping) /\ IsFiniteSet(Lasting)
         /\ Cardinality(Waiting) \in Nat /\ Cardinality(Stopping) \in Nat
         /\ Cardinality(Lasting) \in Nat
         /\ Cardinality(Waiting) <= Cardinality(Lasting)
         /\ Cardinality(Lasting) + Cardinality(Stopping) <= Cardinality(Tasks)
         /\ StopsIn(queue) \in Nat /\ StopTotal \in Nat
         /\ Cardinality(Tasks) \in Nat /\ Unsigned \in Nat \ {0} /\ MaxIdle \in Nat \ {0}
<1>1. /\ Waiting \in SUBSET Lasting /\ Lasting \in SUBSET Tasks /\ Stopping \in SUBSET Tasks
      /\ Lasting \cap Stopping = {} /\ Lasting \cup Stopping \in SUBSET Tasks
  BY DEF Waiting, Lasting, Stopping, At
<1>2. IsFiniteSet(Tasks)
  BY TasksAssumption
<1>3. IsFiniteSet(Lasting) /\ IsFiniteSet(Stopping)
  BY <1>1, <1>2, FS_Subset
<1>4. IsFiniteSet(Waiting) /\ Cardinality(Waiting) <= Cardinality(Lasting)
  BY <1>1, <1>3, FS_Subset
<1>5. Cardinality(Lasting \cup Stopping) <= Cardinality(Tasks)
  BY <1>1, <1>2, FS_Subset
<1>6. Cardinality(Lasting \cup Stopping)
        = Cardinality(Lasting) + Cardinality(Stopping) - Cardinality(Lasting \cap Stopping)
  BY <1>3, FS_Union
<1>7. Cardinality(Lasting \cap Stopping) = 0
  BY <1>1, FS_EmptySet
<1>8. /\ Cardinality(Waiting) \in Nat /\ Cardinality(Stopping) \in Nat
      /\ Cardinality(Lasting) \in Nat /\ Cardinality(Tasks) \in Nat
  BY <1>2, <1>3, <1>4, FS_CardinalityType
<1>9. StopsIn(queue) \in Nat
  BY StopsType DEF TypeOK
<1>10. Unsigned \in Nat \ {0} /\ MaxIdle \in Nat \ {0}
  BY <1>8, UnsignedAssumption, MaxIdleAssumption
<1> QED
  BY <1>3, <1>4, <1>5, <1>6, <1>7, <1>8, <1>9, <1>10 DEF StopTotal

(* Until nw wraps, pendingStopSignal_ and waiters_ are true counts. *)
LEMMA NotWrapped ==
  ASSUME PoolInv, ~shutdown, ~wrapped
  PROVE  /\ pending = StopTotal /\ waiters = Cardinality(Waiting)
         /\ waiters < Unsigned /\ StopTotal < Unsigned
<1>1. StopTotal < Unsigned /\ Cardinality(Waiting) < Unsigned
  <2>1. CASE accepted = {}
    BY <2>1, Counting, UnsignedAssumption DEF PoolInv, WorkerInv
  <2>2. CASE accepted # {}
    BY <2>2, Counting, UnsignedAssumption DEF PoolInv, WorkerInv, StopTotal
  <2> QED BY <2>1, <2>2
<1>2. pending = StopTotal % Unsigned /\ waiters = Cardinality(Waiting)
  BY DEF PoolInv, CountersAreExact, StopTotal
<1>3. StopTotal \in 0..(Unsigned - 1) /\ Unsigned \in Nat \ {0}
  BY <1>1, Counting DEF PoolInv
<1> HIDE DEF StopTotal
<1>4. StopTotal % Unsigned = StopTotal
  BY <1>3, SmallMod
<1> QED
  BY <1>1, <1>2, <1>4

(* A step that leaves the sets, the queue and the counters alone. *)
LEMMA SameCounts ==
  ASSUME PoolInv, UNCHANGED <<queue, waiters, pending, accepted, wrapped>>,
         shutdown' = shutdown \/ shutdown' = TRUE,
         Waiting' = Waiting, Stopping' = Stopping, Lasting' = Lasting
  PROVE  CountersAreExact' /\ WorkerInv' /\ LoopsInv'
BY DEF PoolInv, CountersAreExact, WorkerInv, LoopsInv, StopTotal

-----------------------------------------------------------------------------
(* The initial state: no workers, nothing queued, every task still to come. *)
LEMMA PoolInit == Init => PoolInv
<1> SUFFICES ASSUME Init PROVE PoolInv
  OBVIOUS
<1>1. TypeOK /\ FreshInv /\ DoingInv
  <2>1. PICK use \in Uses : plan = use.main /\ others = use.other
    BY DEF Init
  <2>2. plan \in Seq(Tasks) /\ others \subseteq Tasks
    BY <2>1, UsesAssumption
  <2>3. 0 \in 0..(Unsigned - 1)
    BY UnsignedAssumption, MaxIdleAssumption, FS_CardinalityType, TasksAssumption
  <2>4. queue \in Seq(Tasks \cup {Stop})
    BY EmptySeq DEF Init
  <2>5. TypeOK
    BY <2>2, <2>3, <2>4 DEF Init, TypeOK, Places
  <2>6. FreshInv /\ DoingInv
    BY <2>1, UsesAssumption DEF Init, FreshInv, DoingInv
  <2> QED BY <2>5, <2>6
<1>2. Waiting = {} /\ Stopping = {} /\ Lasting = {}
  BY DEF Init, Waiting, Stopping, Lasting, At
<1>3. Cardinality(Waiting) = 0 /\ Cardinality(Stopping) = 0 /\ StopsIn(queue) = 0
  BY <1>2, FS_EmptySet, StopsEmpty DEF Init
<1>4. 0 % Unsigned = 0
  BY <1>1, Counting, SmallMod
<1>5. CountersAreExact
  BY <1>3, <1>4 DEF Init, CountersAreExact
<1>6. WorkerInv /\ LoopsInv
  BY <1>3, EmptySeq DEF Init, WorkerInv, LoopsInv, StopTotal
<1> QED
  BY <1>1, <1>5, <1>6 DEF PoolInv

(* ExecuteTask keeps the counters; a first worker, or one more, is started. *)
LEMMA ExecuteTaskStep ==
  ASSUME PoolInv, NEW t \in Tasks, ExecuteTask(t), t \notin accepted
  PROVE  /\ CountersAreExact' /\ WorkerInv' /\ LoopsInv'
         /\ queue' \in Seq(Tasks \cup {Stop}) /\ state' \in [Tasks -> Places]
         /\ accepted' \subseteq accepted \cup {t}
         /\ \A w \in Tasks : state'[w] # "none" => w \in accepted'
         /\ DoingInv'
<1> USE DEF PoolInv
<1>1. CASE shutdown
  <2>1. UNCHANGED <<queue, state, accepted, waiters, pending, shutdown, doing, wrapped>>
    BY <1>1 DEF ExecuteTask
  <2>2. Waiting' = Waiting /\ Stopping' = Stopping /\ Lasting' = Lasting
    BY <2>1 DEF Waiting, Stopping, Lasting, At
  <2> QED
    BY <2>1, <2>2, SameCounts DEF TypeOK, FreshInv, DoingInv
<1>2. CASE ~shutdown
  <2>1. /\ queue' = Append(queue, t) /\ accepted' = accepted \cup {t}
        /\ UNCHANGED <<waiters, pending, shutdown, doing, wrapped>>
    BY <1>2 DEF ExecuteTask
  <2> DEFINE st == IF waiters = 0 THEN [state EXCEPT ![t] = "start"] ELSE state
  <2>2. PICK ws \in Woken(1) : state' = Wake(st, ws)
    BY <1>2 DEF ExecuteTask
  <2>3. ws \subseteq At("blocked")
    BY DEF Woken
  <2>4. state[t] = "none"
    BY DEF FreshInv
  <2>5. state' \in [Tasks -> Places] /\ \A w \in Tasks : state'[w] # "none" => w \in accepted'
    BY <2>1, <2>2, <2>3 DEF Wake, TypeOK, Places, FreshInv, At
  <2>6. Waiting' = Waiting /\ Stopping' = Stopping
    BY <2>1, <2>2, <2>3, <2>4 DEF Waiting, Stopping, At, Wake, TypeOK
  <2>7. /\ t \notin Lasting
        /\ IF waiters = 0 THEN Lasting' = Lasting \cup {t} ELSE Lasting' = Lasting
    BY <2>1, <2>2, <2>3, <2>4 DEF Lasting, At, Wake, TypeOK
  <2>8. /\ queue' \in Seq(Tasks \cup {Stop})
        /\ StopsIn(queue)' = StopsIn(queue) /\ StopTotal' = StopTotal
    <3>1. queue \in Seq(Tasks \cup {Stop}) /\ t \in Tasks \cup {Stop}
      BY DEF TypeOK
    <3>2. queue' \in Seq(Tasks \cup {Stop})
      BY <2>1, <3>1, AppendProperties
    <3>3. StopsIn(queue') = StopsIn(queue)
      BY <2>1, <3>1, StopsAppend
    <3> QED
      BY <2>6, <3>2, <3>3 DEF StopTotal
  <2>9. CountersAreExact'
    BY <2>1, <2>6, <2>8 DEF CountersAreExact
  <2>10. IF waiters = 0 THEN Cardinality(Lasting') = Cardinality(Lasting) + 1
                        ELSE Cardinality(Lasting') = Cardinality(Lasting)
    BY <2>7, Counting, FS_AddElement
  <2>11. WorkerInv'
    <3> SUFFICES ASSUME ~wrapped PROVE StopsIn(queue)' < Cardinality(Lasting')
      BY <2>1 DEF WorkerInv
    <3>1. CASE accepted = {}
      <4>1. Waiting = {}
        BY <3>1 DEF FreshInv, Waiting, At
      <4>2. waiters = 0
        BY <4>1, FS_EmptySet DEF CountersAreExact
      <4> QED
        BY <1>2, <3>1, <4>2, <2>8, <2>10, Counting DEF WorkerInv, StopTotal
    <3>2. CASE accepted # {}
      BY <1>2, <3>2, <2>8, <2>10, Counting DEF WorkerInv
    <3> QED BY <3>1, <3>2
  <2>12. LoopsInv'
    <3> SUFFICES ASSUME accepted \cup {t} \subseteq Loops
                 PROVE  /\ ~wrapped /\ StopTotal <= 1 /\ StopTotal # 1
                        /\ Cardinality(Waiting) <= 1
      BY <2>1, <2>6, <2>8 DEF LoopsInv
    <3>1. ~wrapped /\ StopTotal <= 1
      BY <1>2 DEF LoopsInv
    <3>2. t \notin Waiting \cup Stopping
      BY <2>4 DEF Waiting, Stopping, At
    <3>3. StopTotal # 1
      BY <1>2, <3>2 DEF LoopsInv
    <3>4. Waiting \in SUBSET (Loops \ {t}) /\ t \in Loops
      BY <3>2 DEF FreshInv, Waiting, At
    <3>5. IsFiniteSet(Loops \ {t}) /\ Cardinality(Loops \ {t}) = 1
      <4>1. Loops \ {t} = {"recv"} \/ Loops \ {t} = {"send"}
        BY <3>4 DEF Loops
      <4> QED BY <4>1, FS_Singleton
    <3>6. Cardinality(Waiting) <= 1
      BY <3>4, <3>5, FS_Subset
    <3> QED BY <3>1, <3>3, <3>6
  <2>13. DoingInv'
    BY <2>1, <2>2, <2>4 DEF DoingInv, Wake, TypeOK
  <2> QED
    BY <2>1, <2>5, <2>8, <2>9, <2>11, <2>12, <2>13
<1> QED
  BY <1>1, <1>2

(* A worker leaves the wait, or comes to it with work to do. *)
LEMMA ProceedStep ==
  ASSUME PoolInv, NEW w \in Tasks, Continue,
         \/ state[w] = "start" /\ Proceed(w, waiters)
         \/ state[w] = "woken" /\ Proceed(w, waiters - 1)
  PROVE  PoolInv'
<1> USE DEF PoolInv
<1>1. /\ UNCHANGED <<pending, shutdown, monitor, plan, others, accepted, finished, wrapped>>
      /\ UNCHANGED program
  BY DEF Proceed
<1> DEFINE woken == state[w] = "woken"
<1>2. waiters' = Cardinality(Waiting') /\ waiters' \in Nat /\ Cardinality(Waiting') <= Cardinality(Waiting)
  <2>1. CASE woken
    <3>1. w \in Waiting /\ Waiting' = Waiting \ {w}
      BY <2>1 DEF Proceed, Waiting, At, TypeOK
    <3>2. Cardinality(Waiting') = Cardinality(Waiting) - 1 /\ IsFiniteSet(Waiting')
      BY <3>1, Counting, FS_RemoveElement
    <3>3. Cardinality(Waiting') \in Nat
      BY <3>2, FS_CardinalityType
    <3>4. waiters' = waiters - 1
      BY <2>1 DEF Proceed
    <3> QED BY <3>2, <3>3, <3>4, Counting DEF CountersAreExact
  <2>2. CASE ~woken
    <3>1. Waiting' = Waiting
      BY <2>2 DEF Proceed, Waiting, At, TypeOK
    <3>2. waiters' = waiters
      BY <2>2 DEF Proceed
    <3> QED BY <3>1, <3>2, Counting DEF CountersAreExact
  <2> QED BY <2>1, <2>2
<1>3. CASE queue = <<>>
  <2>1. shutdown /\ shutdown'
    BY <1>1, <1>3 DEF Continue
  <2>2. /\ UNCHANGED <<queue, doing, started>>
        /\ state' = [state EXCEPT ![w] = "exited"]
    BY <1>3 DEF Proceed
  <2>3. Stopping' = Stopping
    BY <2>2 DEF Stopping, At, TypeOK
  <2>4. TypeOK'
    BY <1>1, <1>2, <2>2 DEF TypeOK, Places, program
  <2>5. FreshInv' /\ DoingInv'
    BY <1>1, <2>2 DEF FreshInv, DoingInv, TypeOK
  <2>6. CountersAreExact'
    BY <1>1, <1>2, <2>2, <2>3 DEF CountersAreExact
  <2> QED
    BY <2>1, <2>4, <2>5, <2>6 DEF WorkerInv, LoopsInv
<1>4. CASE queue # <<>>
  <2>1. /\ queue' = Tail(queue) /\ doing' = [doing EXCEPT ![w] = Head(queue)]
        /\ state' = [state EXCEPT ![w] = "busy"]
        /\ started' = started \cup ({Head(queue)} \ {Stop})
    BY <1>4 DEF Proceed
  <2>2. /\ Head(queue) \in Tasks \cup {Stop} /\ Tail(queue) \in Seq(Tasks \cup {Stop})
        /\ Len(Tail(queue)) = Len(queue) - 1 /\ Len(queue) \in Nat
        /\ \A i \in 1..Len(Tail(queue)) : Tail(queue)[i] = queue[i + 1]
    BY <1>4, HeadTailProperties, LenProperties DEF TypeOK
  <2>3. TypeOK'
    BY <1>1, <1>2, <2>1, <2>2 DEF TypeOK, Places, program
  <2>4. FreshInv' /\ DoingInv'
    BY <1>1, <2>1, <2>2, TasksAssumption DEF FreshInv, DoingInv, TypeOK, Stop, Nothing
  <2>5. /\ StopsIn(queue) = StopsIn(queue') + (IF Head(queue) = Stop THEN 1 ELSE 0)
        /\ StopsIn(queue') \in Nat
    BY <1>4, <2>1, <2>2, StopsTail, StopsType DEF TypeOK
  <2>6. /\ w \in Lasting /\ w \notin Stopping
        /\ Lasting' = IF Head(queue) = Stop THEN Lasting \ {w} ELSE Lasting
        /\ Stopping' = IF Head(queue) = Stop THEN Stopping \cup {w} ELSE Stopping
    BY <2>1 DEF Lasting, Stopping, At, TypeOK
  <2>7. /\ Cardinality(Lasting') = Cardinality(Lasting) - (IF Head(queue) = Stop THEN 1 ELSE 0)
        /\ Cardinality(Stopping') = Cardinality(Stopping) + (IF Head(queue) = Stop THEN 1 ELSE 0)
    <3>1. /\ Cardinality(Lasting \ {w}) = Cardinality(Lasting) - 1
          /\ Cardinality(Stopping \cup {w}) = Cardinality(Stopping) + 1
      BY <2>6, Counting, FS_AddElement, FS_RemoveElement
    <3> QED BY <2>6, <3>1, Counting
  <2>8. StopTotal' = StopTotal
    BY <2>5, <2>7, Counting DEF StopTotal
  <2>9. CountersAreExact'
    BY <1>1, <1>2, <2>8 DEF CountersAreExact, StopTotal
  <2>10. WorkerInv'
    BY <1>1, <2>5, <2>7, <2>8, Counting DEF WorkerInv
  <2>11. LoopsInv'
    <3> SUFFICES ASSUME ~shutdown, accepted \subseteq Loops
                 PROVE  /\ ~wrapped /\ StopTotal <= 1
                        /\ StopTotal = 1 => /\ Loops \subseteq Waiting' \cup Stopping'
                                            /\ \A i \in 1..Len(Tail(queue)) : Tail(queue)[i] = Stop
                        /\ (\E i \in 1..Len(Tail(queue)) : Tail(queue)[i] # Stop) => Cardinality(Waiting') <= 1
      BY <1>1, <2>1, <2>8 DEF LoopsInv
    <3>1. /\ ~wrapped /\ StopTotal <= 1
          /\ StopTotal = 1 => /\ Loops \subseteq Waiting \cup Stopping
                              /\ \A i \in 1..Len(queue) : queue[i] = Stop
          /\ (\E i \in 1..Len(queue) : queue[i] # Stop) => Cardinality(Waiting) <= 1
      BY DEF LoopsInv
    <3>2. StopTotal = 1 => \A i \in 1..Len(Tail(queue)) : Tail(queue)[i] = Stop
      BY <3>1, <2>2
    <3>3. ASSUME StopTotal = 1 PROVE Loops \subseteq Waiting' \cup Stopping'
      <4>1. Head(queue) = Stop
        BY <3>1, <3>3, <1>4, HeadTailProperties, EmptySeq, <2>2 DEF TypeOK
      <4>2. Waiting \ {w} \subseteq Waiting' /\ Stopping' = Stopping \cup {w}
        BY <2>1, <2>6, <4>1 DEF Waiting, At, TypeOK
      <4> QED BY <3>1, <3>3, <4>2
    <3>4. (\E i \in 1..Len(Tail(queue)) : Tail(queue)[i] # Stop) => Cardinality(Waiting') <= 1
      <4>1. (\E i \in 1..Len(Tail(queue)) : Tail(queue)[i] # Stop) => \E i \in 1..Len(queue) : queue[i] # Stop
        BY <2>2
      <4>2. Cardinality(Waiting) \in Nat /\ Cardinality(Waiting') \in Nat
        BY <1>2, Counting
      <4> QED BY <1>2, <3>1, <4>1, <4>2
    <3> QED BY <3>1, <3>2, <3>3, <3>4
  <2> QED
    BY <2>3, <2>4, <2>9, <2>10, <2>11
<1> QED
  BY <1>3, <1>4

(* _WorkerRoutine, from the top of its loop. *)
LEMMA EnterStep ==
  ASSUME PoolInv, NEW w \in Tasks, Enter(w)
  PROVE  PoolInv'
<1> USE DEF PoolInv
<1>1. CASE Continue
  BY <1>1, ProceedStep DEF Enter
<1>2. CASE ~Continue
  <2>1. /\ state[w] = "start" /\ waiters' = waiters + 1
        /\ state' = [state EXCEPT ![w] = "blocked"]
        /\ UNCHANGED <<queue, pending, shutdown, doing, monitor, plan, others, history, program>>
    BY <1>2 DEF Enter
  <2>2. queue = <<>>
    BY <1>2 DEF Continue
  <2>3. /\ w \notin Waiting /\ Waiting' = Waiting \cup {w}
        /\ Stopping' = Stopping /\ Lasting' = Lasting
    BY <2>1 DEF Waiting, Stopping, Lasting, At, TypeOK
  <2>4. Cardinality(Waiting') = Cardinality(Waiting) + 1
    BY <2>3, Counting, FS_AddElement
  <2>5. TypeOK'
    BY <2>1 DEF TypeOK, Places, program, history
  <2>6. FreshInv' /\ DoingInv'
    BY <2>1 DEF FreshInv, DoingInv, TypeOK, history
  <2>7. CountersAreExact'
    BY <2>1, <2>3, <2>4 DEF CountersAreExact
  <2>8. StopTotal' = StopTotal /\ WorkerInv'
    BY <2>1, <2>3 DEF WorkerInv, StopTotal, history
  <2>9. LoopsInv'
    BY <2>1, <2>2, <2>3, <2>8 DEF LoopsInv, history
  <2> QED
    BY <2>5, <2>6, <2>7, <2>8, <2>9
<1> QED
  BY <1>1, <1>2

(* A notified worker. *)
LEMMA ResumeStep ==
  ASSUME PoolInv, NEW w \in Tasks, Resume(w)
  PROVE  PoolInv'
<1> USE DEF PoolInv
<1>1. CASE Continue
  BY <1>1, ProceedStep DEF Resume
<1>2. CASE ~Continue
  <2>1. /\ state[w] = "woken" /\ state' = [state EXCEPT ![w] = "blocked"]
        /\ UNCHANGED <<pool, history, program, doing, monitor, plan, others>>
    BY <1>2 DEF Resume
  <2>2. Waiting' = Waiting /\ Stopping' = Stopping /\ Lasting' = Lasting
    BY <2>1 DEF Waiting, Stopping, Lasting, At, TypeOK
  <2>3. TypeOK' /\ FreshInv' /\ DoingInv'
    BY <2>1 DEF TypeOK, FreshInv, DoingInv, Places, program, history, pool
  <2> QED
    BY <2>1, <2>2, <2>3, SameCounts DEF pool, history
<1> QED
  BY <1>1, <1>2

(* A task ends. *)
LEMMA ReturnStep ==
  ASSUME PoolInv, NEW w \in Tasks, Return(w)
  PROVE  PoolInv'
<1> USE DEF PoolInv
<1>1. /\ state[w] = "busy"
      /\ state' = [state EXCEPT ![w] = IF doing[w] = Stop THEN "leaving" ELSE "start"]
      /\ finished' = finished \cup ({doing[w]} \ {Stop})
      /\ doing' = [doing EXCEPT ![w] = Nothing]
      /\ UNCHANGED <<pool, monitor, plan, others, accepted, started, wrapped, program>>
  BY DEF Return
<1>2. Waiting' = Waiting /\ Stopping' = Stopping /\ Lasting' = Lasting
  BY <1>1 DEF Waiting, Stopping, Lasting, At, TypeOK
<1>3. TypeOK'
  <2>1. finished' \subseteq Tasks
    BY <1>1 DEF TypeOK, DoingInv
  <2> QED
    BY <1>1, <2>1 DEF TypeOK, Places, program, pool
<1>4. FreshInv' /\ DoingInv'
  BY <1>1 DEF FreshInv, DoingInv, TypeOK
<1> QED
  BY <1>1, <1>2, <1>3, <1>4, SameCounts DEF pool

(* A worker that took a stop task counts it down. *)
LEMMA LeaveStep ==
  ASSUME PoolInv, NEW w \in Tasks, Leave(w)
  PROVE  PoolInv'
<1> USE DEF PoolInv
<1>1. /\ state[w] = "leaving" /\ pending' = (pending + Unsigned - 1) % Unsigned
      /\ state' = [state EXCEPT ![w] = "exited"]
      /\ UNCHANGED <<queue, waiters, shutdown, doing, monitor, plan, others, history, program>>
  BY DEF Leave
<1>2. /\ w \in Stopping /\ Stopping' = Stopping \ {w}
      /\ Waiting' = Waiting /\ Lasting' = Lasting
  BY <1>1 DEF Waiting, Stopping, Lasting, At, TypeOK
<1>3. Cardinality(Stopping') = Cardinality(Stopping) - 1 /\ Cardinality(Stopping') \in Nat
  <2>1. IsFiniteSet(Stopping') /\ Cardinality(Stopping') = Cardinality(Stopping) - 1
    BY <1>2, Counting, FS_RemoveElement
  <2> QED BY <2>1, FS_CardinalityType
<1>4. StopTotal' = StopTotal - 1 /\ StopTotal' \in Nat /\ StopsIn(queue)' = StopsIn(queue)
  BY <1>1, <1>3, Counting DEF StopTotal
<1>5. pending' = StopTotal' % Unsigned
  <2> DEFINE x == StopTotal'
  <2>1. x \in Nat /\ x + 1 = StopTotal /\ Unsigned \in Nat \ {0} /\ Unsigned - 1 \in Nat
    BY <1>4, Counting
  <2>2. pending = (x + 1) % Unsigned
    BY <2>1 DEF CountersAreExact, StopTotal
  <2> HIDE DEF x
  <2>3. (pending + (Unsigned - 1)) % Unsigned = ((x + 1) + (Unsigned - 1)) % Unsigned
    BY <2>1, <2>2, ModSum, x + 1 \in Nat
  <2>4. (x + Unsigned) % Unsigned = x % Unsigned
    BY <2>1, ModBack
  <2>5. (x + 1) + (Unsigned - 1) = x + Unsigned /\ pending + (Unsigned - 1) = pending + Unsigned - 1
    BY <2>1 DEF TypeOK
  <2> QED
    BY <1>1, <2>3, <2>4, <2>5 DEF x
<1>6. TypeOK'
  <2>1. pending' \in 0..(Unsigned - 1)
    BY <1>4, <1>5, Counting
  <2> QED
    BY <1>1, <2>1 DEF TypeOK, Places, program, history
<1>7. FreshInv' /\ DoingInv'
  BY <1>1 DEF FreshInv, DoingInv, TypeOK, history
<1>8. CountersAreExact'
  BY <1>1, <1>2, <1>5 DEF CountersAreExact, StopTotal
<1>9. WorkerInv'
  BY <1>1, <1>2, <1>4, Counting DEF WorkerInv, history
<1>10. LoopsInv'
  BY <1>1, <1>2, <1>4, Counting DEF LoopsInv, history
<1> QED
  BY <1>6, <1>7, <1>8, <1>9, <1>10

(* One round of the monitor: as many stop tasks as there are idle workers   *)
(* too many, or, when nw wraps, very many.                                   *)
LEMMA MonitorStep ==
  ASSUME PoolInv, MonitorRound
  PROVE  PoolInv'
<1> USE DEF PoolInv
<1>1. CASE shutdown
  <2>1. UNCHANGED <<queue, waiters, pending, shutdown, state, doing, plan, others, history, program>>
        /\ monitor' = FALSE
    BY <1>1 DEF MonitorRound, history
  <2>2. Waiting' = Waiting /\ Stopping' = Stopping /\ Lasting' = Lasting
    BY <2>1 DEF Waiting, Stopping, Lasting, At
  <2>3. TypeOK' /\ FreshInv' /\ DoingInv'
    BY <2>1 DEF TypeOK, FreshInv, DoingInv, program, history
  <2> QED
    BY <2>1, <2>2, <2>3, SameCounts DEF history
<1>2. CASE ~shutdown
  <2>1. /\ queue' = queue \o [i \in 1..Stops |-> Stop]
        /\ pending' = (pending + Stops) % Unsigned
        /\ wrapped' = (wrapped \/ waiters < pending)
        /\ UNCHANGED <<waiters, shutdown, doing, monitor, plan, others, accepted, started, finished, program>>
    BY <1>2 DEF MonitorRound
  <2>2. PICK ws \in Woken(Stops) : state' = Wake(state, ws)
    BY <1>2 DEF MonitorRound
  <2>3. ws \subseteq At("blocked")
    BY DEF Woken
  <2>4. /\ Waiting' = Waiting /\ Stopping' = Stopping /\ Lasting' = Lasting
        /\ state' \in [Tasks -> Places]
    BY <2>1, <2>2, <2>3 DEF Waiting, Stopping, Lasting, At, Wake, TypeOK, Places
  <2>5. Stops \in Nat /\ Unsigned \in Nat \ {0} /\ pending \in Nat
    <3>1. Unsigned \in Nat \ {0} /\ MaxIdle \in Nat /\ waiters \in Nat /\ pending \in 0..(Unsigned - 1)
      BY Counting DEF TypeOK
    <3>2. (waiters + Unsigned - pending) % Unsigned \in Nat
      BY <3>1
    <3> QED BY <3>1, <3>2 DEF Stops
  <2>6. /\ queue' \in Seq(Tasks \cup {Stop}) /\ StopsIn(queue') = StopsIn(queue) + Stops
        /\ (\A i \in 1..Len(queue) : queue[i] = Stop) => \A i \in 1..Len(queue') : queue'[i] = Stop
    BY <2>1, <2>5, StopsMore DEF TypeOK
  <2>7. StopTotal' = StopTotal + Stops
    BY <2>4, <2>5, <2>6, Counting DEF StopTotal
  <2>8. pending' = StopTotal' % Unsigned /\ pending' \in 0..(Unsigned - 1)
    <3>1. pending = StopTotal % Unsigned /\ StopTotal \in Nat
      BY Counting DEF CountersAreExact, StopTotal
    <3> HIDE DEF StopTotal, Stops
    <3>2. (pending + Stops) % Unsigned = (StopTotal + Stops) % Unsigned
      BY <2>5, <3>1, ModSum
    <3> QED BY <2>1, <2>5, <2>7, <3>1, <3>2
  <2>9. TypeOK'
    BY <2>1, <2>4, <2>6, <2>8 DEF TypeOK, program
  <2>10. FreshInv' /\ DoingInv'
    BY <2>1, <2>2, <2>3 DEF FreshInv, DoingInv, Wake, At, TypeOK
  <2>11. CountersAreExact'
    BY <2>1, <2>4, <2>8 DEF CountersAreExact, StopTotal
  <2>12. ASSUME ~wrapped, ~(waiters < pending)
         PROVE  /\ waiters = Cardinality(Waiting) /\ pending = StopTotal
                /\ Stops = IF waiters - StopTotal > MaxIdle THEN waiters - StopTotal - MaxIdle ELSE 0
    <3>1. /\ pending = StopTotal /\ waiters = Cardinality(Waiting)
          /\ waiters < Unsigned /\ StopTotal \in Nat
      BY <1>2, <2>12, NotWrapped, Counting
    <3> DEFINE d == waiters - pending
    <3>2. d \in 0..(Unsigned - 1) /\ d \in Nat /\ waiters + Unsigned - pending = d + Unsigned
      BY <2>5, <2>12, <3>1 DEF TypeOK
    <3> HIDE DEF d
    <3>3. (d + Unsigned) % Unsigned = d
      BY <2>5, <3>2, ModBack, SmallMod
    <3> QED BY <3>1, <3>2, <3>3 DEF Stops, d
  <2>13. WorkerInv'
    <3> SUFFICES ASSUME ~wrapped, ~(waiters < pending)
                 PROVE  IF accepted = {} THEN StopTotal' = 0
                        ELSE StopsIn(queue') < Cardinality(Lasting)
      BY <2>1, <2>4 DEF WorkerInv
    <3>1. IF accepted = {} THEN StopTotal = 0 ELSE StopsIn(queue) < Cardinality(Lasting)
      BY <1>2 DEF WorkerInv
    <3>2. CASE accepted = {}
      <4>1. Waiting = {}
        BY <3>2 DEF FreshInv, Waiting, At
      <4>2. waiters = 0
        BY <4>1, FS_EmptySet DEF CountersAreExact
      <4> QED BY <2>7, <2>12, <3>1, <3>2, <4>2, Counting
    <3>3. CASE accepted # {}
      <4>1. Stops = 0 \/ Stops = Cardinality(Waiting) - StopTotal - MaxIdle
        BY <2>12
      <4> QED
        BY <2>6, <3>1, <3>3, <4>1, Counting DEF StopTotal
    <3> QED BY <3>2, <3>3
  <2>14. LoopsInv'
    <3> SUFFICES ASSUME accepted \subseteq Loops
                 PROVE  /\ ~(waiters < pending) /\ ~wrapped /\ StopTotal + Stops <= 1
                        /\ StopTotal + Stops = 1 => /\ Loops \subseteq Waiting \cup Stopping
                                                    /\ \A i \in 1..Len(queue) : queue[i] = Stop
                        /\ (\E i \in 1..Len(queue) : queue[i] # Stop) => Cardinality(Waiting) <= 1
      BY <2>1, <2>4, <2>6, <2>7 DEF LoopsInv
    <3>1. /\ ~wrapped /\ StopTotal <= 1
          /\ StopTotal = 1 => /\ Loops \subseteq Waiting \cup Stopping
                              /\ \A i \in 1..Len(queue) : queue[i] = Stop
          /\ (\E i \in 1..Len(queue) : queue[i] # Stop) => Cardinality(Waiting) <= 1
      BY <1>2 DEF LoopsInv
    <3>2. pending = StopTotal /\ waiters = Cardinality(Waiting)
      BY <1>2, <3>1, NotWrapped
    <3>3. Waiting \in SUBSET Loops /\ Stopping \in SUBSET Loops /\ Waiting \cap Stopping = {}
      BY DEF FreshInv, Waiting, Stopping, At
    <3>4. IsFiniteSet(Loops) /\ Cardinality(Loops) = 2
      <4>1. Loops = {"recv"} \cup {"send"} /\ "send" \notin {"recv"}
        BY DEF Loops
      <4>2. IsFiniteSet({"recv"}) /\ Cardinality({"recv"}) = 1
        BY FS_Singleton
      <4>3. /\ IsFiniteSet({"recv"} \cup {"send"})
            /\ Cardinality({"recv"} \cup {"send"}) = Cardinality({"recv"}) + 1
        BY <4>1, <4>2, FS_AddElement
      <4> QED BY <4>1, <4>2, <4>3
    <3>5. Cardinality(Waiting) <= 2 /\ (Cardinality(Waiting) = 2 => Waiting = Loops)
      BY <3>3, <3>4, FS_Subset
    <3>6. CASE StopTotal = 1
      <4>1. Cardinality(Waiting) + Cardinality(Stopping) = 2
        <5>1. Waiting \cup Stopping = Loops
          BY <3>1, <3>3, <3>6
        <5>2. Cardinality(Waiting \cup Stopping)
                = Cardinality(Waiting) + Cardinality(Stopping) - Cardinality(Waiting \cap Stopping)
          BY Counting, FS_Union
        <5>3. Cardinality(Waiting \cap Stopping) = 0
          BY <3>3, FS_EmptySet
        <5>4. Cardinality(Waiting \cup Stopping) = 2
          BY <3>4, <5>1
        <5>5. Cardinality(Waiting) \in Nat /\ Cardinality(Stopping) \in Nat
          BY Counting
        <5> QED BY <5>2, <5>3, <5>4, <5>5
      <4>2. Cardinality(Waiting) >= 1
        BY <3>6, <4>1, Counting DEF StopTotal
      <4>3. ~(waiters < pending)
        BY <3>2, <3>6, <4>2, Counting
      <4>4. Stops = 0
        BY <2>12, <3>1, <3>2, <3>5, <3>6, <4>3, Counting
      <4> QED BY <3>1, <3>6, <4>3, <4>4
    <3>7. CASE StopTotal = 0
      <4>1. ~(waiters < pending)
        BY <3>2, <3>7, Counting
      <4>2. Stops = IF waiters > MaxIdle THEN waiters - MaxIdle ELSE 0
        BY <2>12, <3>1, <3>2, <3>7, <4>1, Counting
      <4>3. Stops <= 1
        BY <3>2, <3>5, <4>2, Counting
      <4>4. ASSUME Stops = 1
            PROVE  Loops \subseteq Waiting \cup Stopping /\ \A i \in 1..Len(queue) : queue[i] = Stop
        <5>1. Cardinality(Waiting) = 2
          BY <3>2, <3>5, <4>2, <4>4, Counting
        <5> QED BY <3>1, <3>5, <5>1
      <4> QED BY <2>5, <3>1, <3>7, <4>1, <4>3, <4>4
    <3> QED BY <3>1, <3>6, <3>7, Counting
  <2> QED
    BY <2>9, <2>10, <2>11, <2>13, <2>14
<1> QED
  BY <1>1, <1>2

(* The main thread and the loops' use of the two pointers. *)
LEMMA ProgramStep ==
  ASSUME PoolInv,
         \/ Submit \/ JoinAll \/ Joined \/ EndOfLoop
         \/ \E t \in Tasks : SubmitOther(t)
         \/ \E l \in Loops : StopLoop(l) \/ UsePointer(l) \/ \E p \in Loops : TestPointer(l, p)
  PROVE  PoolInv'
<1> USE DEF PoolInv
<1>1. CASE Submit
  <2>1. /\ plan # <<>> /\ ExecuteTask(Head(plan)) /\ plan' = Tail(plan)
        /\ UNCHANGED <<others, program>>
    BY <1>1 DEF Submit
  <2>2. /\ Head(plan) = plan[1] /\ Head(plan) \in Tasks /\ Tail(plan) \in Seq(Tasks)
        /\ Len(plan) \in Nat /\ Len(plan) >= 1 /\ Len(Tail(plan)) = Len(plan) - 1
        /\ \A i \in 1..Len(Tail(plan)) : Tail(plan)[i] = plan[i + 1]
    BY <2>1, HeadTailProperties, EmptySeq, LenProperties DEF TypeOK
  <2>3. Head(plan) \notin accepted /\ Head(plan) \notin others
    BY <2>2 DEF FreshInv
  <2>4. /\ CountersAreExact' /\ WorkerInv' /\ LoopsInv' /\ DoingInv'
        /\ queue' \in Seq(Tasks \cup {Stop}) /\ state' \in [Tasks -> Places]
        /\ accepted' \subseteq accepted \cup {Head(plan)}
        /\ \A w \in Tasks : state'[w] # "none" => w \in accepted'
    BY <2>1, <2>2, <2>3, ExecuteTaskStep
  <2>5. UNCHANGED <<waiters, pending, shutdown, doing, monitor, started, finished, wrapped>>
    BY <2>1 DEF ExecuteTask
  <2>6. TypeOK'
    BY <2>1, <2>2, <2>4, <2>5 DEF TypeOK, program
  <2>7. FreshInv'
    <3>1. \A i \in 1..Len(plan') : i + 1 \in 1..Len(plan) /\ plan'[i] = plan[i + 1] /\ plan[i + 1] # plan[1]
      BY <2>1, <2>2 DEF FreshInv
    <3>2. \A i \in 1..Len(plan') : /\ plan'[i] \notin others /\ plan'[i] \notin accepted'
                                   /\ \A j \in 1..Len(plan') : plan'[i] = plan'[j] => i = j
      BY <2>2, <2>4, <3>1 DEF FreshInv
    <3> QED BY <2>1, <2>3, <2>4, <3>2 DEF FreshInv
  <2> QED BY <2>4, <2>6, <2>7
<1>2. CASE \E t \in Tasks : SubmitOther(t)
  <2>1. PICK t \in Tasks : /\ t \in others /\ others' = others \ {t}
                           /\ ExecuteTask(t) /\ UNCHANGED <<plan, program>>
    BY <1>2 DEF SubmitOther
  <2>2. t \notin accepted /\ \A i \in 1..Len(plan) : plan[i] # t
    BY <2>1 DEF FreshInv
  <2>3. /\ CountersAreExact' /\ WorkerInv' /\ LoopsInv' /\ DoingInv'
        /\ queue' \in Seq(Tasks \cup {Stop}) /\ state' \in [Tasks -> Places]
        /\ accepted' \subseteq accepted \cup {t}
        /\ \A w \in Tasks : state'[w] # "none" => w \in accepted'
    BY <2>1, <2>2, ExecuteTaskStep
  <2>4. UNCHANGED <<waiters, pending, shutdown, doing, monitor, started, finished, wrapped>>
    BY <2>1 DEF ExecuteTask
  <2>5. TypeOK'
    BY <2>1, <2>3, <2>4 DEF TypeOK, program
  <2>6. FreshInv'
    BY <2>1, <2>2, <2>3 DEF FreshInv
  <2> QED BY <2>3, <2>5, <2>6
<1>3. CASE JoinAll
  <2>1. /\ pc' = "joining" /\ shutdown' = TRUE /\ state' = Wake(state, At("blocked"))
        /\ UNCHANGED <<queue, waiters, pending, doing, monitor, plan, others, history>>
        /\ UNCHANGED <<alive, set, using, crashed>>
    BY <1>3 DEF JoinAll
  <2>2. Waiting' = Waiting /\ Stopping' = Stopping /\ Lasting' = Lasting
    BY <2>1 DEF Waiting, Stopping, Lasting, At, Wake, TypeOK
  <2>3. TypeOK' /\ FreshInv' /\ DoingInv'
    BY <2>1 DEF TypeOK, FreshInv, DoingInv, history, Wake, At, Places
  <2> QED BY <2>1, <2>2, <2>3, SameCounts DEF history
<1>4. CASE \/ Joined \/ EndOfLoop
           \/ \E l \in Loops : StopLoop(l) \/ UsePointer(l) \/ \E p \in Loops : TestPointer(l, p)
  <2>1. UNCHANGED <<pool, history, state, doing, monitor, plan, others>>
    BY <1>4 DEF Joined, EndOfLoop, StopLoop, UsePointer, TestPointer
  <2>2. /\ pc' \in {"start", "stopping", "joining", "joined"} /\ crashed' \in BOOLEAN
        /\ alive' \subseteq Loops /\ set' \subseteq Loops /\ using' \in [Loops -> Loops \cup {Nothing}]
    BY <1>4 DEF Joined, EndOfLoop, StopLoop, UsePointer, TestPointer, TypeOK
  <2>3. Waiting' = Waiting /\ Stopping' = Stopping /\ Lasting' = Lasting
    BY <2>1 DEF Waiting, Stopping, Lasting, At
  <2>4. TypeOK' /\ FreshInv' /\ DoingInv'
    BY <2>1, <2>2 DEF TypeOK, FreshInv, DoingInv, pool, history
  <2> QED BY <2>1, <2>3, <2>4, SameCounts DEF pool, history
<1> QED
  BY <1>1, <1>2, <1>3, <1>4

(* Nothing happens to PoolInv when nothing changes. *)
LEMMA PoolStutter ==
  ASSUME PoolInv, UNCHANGED vars
  PROVE  PoolInv'
<1>1. UNCHANGED <<pool, history, program, state, doing, monitor, plan, others>>
  BY DEF vars
<1>2. Waiting' = Waiting /\ Stopping' = Stopping /\ Lasting' = Lasting
  BY <1>1 DEF Waiting, Stopping, Lasting, At
<1>3. TypeOK' /\ FreshInv' /\ DoingInv'
  BY <1>1 DEF PoolInv, TypeOK, FreshInv, DoingInv, pool, history, program
<1> QED
  BY <1>1, <1>2, <1>3, SameCounts DEF PoolInv, pool, history

-----------------------------------------------------------------------------
(* The inductive invariant holds in every reachable state. *)
LEMMA PoolInvHolds == Spec => []PoolInv
<1>1. PoolInv /\ [Next]_vars => PoolInv'
  <2> SUFFICES ASSUME PoolInv, [Next]_vars PROVE PoolInv'
    OBVIOUS
  <2>1. CASE UNCHANGED vars
    BY <2>1, PoolStutter
  <2>2. CASE Next
    <3>1. CASE \E w \in Tasks : Worker(w)
      BY <3>1, EnterStep, ResumeStep, ReturnStep, LeaveStep DEF Worker
    <3>2. CASE MonitorRound
      BY <3>2, MonitorStep
    <3>3. CASE ~(\E w \in Tasks : Worker(w)) /\ ~MonitorRound
      BY <2>2, <3>3, ProgramStep DEF Next, Live, Main
    <3> QED BY <3>1, <3>2, <3>3
  <2> QED BY <2>1, <2>2
<1> QED
  BY <1>1, PoolInit, PTL DEF Spec

(* The variables of the pool keep their types: in particular waiters_ is     *)
(* never counted below 0, whoever wakes first (thread_pool.cc:80).           *)
THEOREM PoolTypesHold == Spec => []TypeOK
BY PoolInvHolds, PTL DEF PoolInv

(* waiters_ and pendingStopSignal_ are exact, although pendingStopSignal_ is *)
(* changed outside the mutex and both are unsigned (thread_pool.cc:73-113).  *)
THEOREM CountersStayExact == Spec => []CountersAreExact
BY PoolInvHolds, PTL DEF PoolInv

(* The monitor never stops the last worker: until nw wraps there are more    *)
(* workers than stop tasks, and with the server's two loops nw never wraps   *)
(* (thread_pool.cc:105-112).                                                 *)
THEOREM AWorkerStays == Spec => []LastWorkerStays
<1>1. PoolInv => LastWorkerStays
  BY DEF PoolInv, WorkerInv, LoopsInv, LastWorkerStays, Flooded
<1> QED
  BY <1>1, PoolInvHolds, PTL
=============================================================================
