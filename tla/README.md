# UHP-SQL in TLA+

UHP-SQL is a small MySQL-speaking server in C++ that keeps its tables in
persistent memory, behind a key-value server that speaks the redis protocol.
This directory holds TLA+ models of it: the network threads and their lock-free
buffers, the thread pool, the life of a connection, the protocol on the wire,
the SQL parser and its scanner, and the executor over the key-value store. TLC
checks them on small instances, and TLAPS proves the main safety properties of
the network part for all values of the constants. Paths are relative to the
root of the repository.

## 1. The system

Three threads serve all clients:

```
            clients
     bytes |       ^ packets
           v       |
   receive thread  send thread         (network/net_thread_pool.cc,
    epoll, accept   epoll for EPOLLOUT  as two tasks of thread_pool.cc)
           | recvBuf_      ^ sendBuf_  (network/buffer.h, async_buffer.cc)
           v               |
           main thread: TaskManager, Client, SQLParser, Executor
                           |
                           v  SET GET DEL SCAN
                    pmemkv (redis protocol)
```

The receive thread accepts a connection and gives a `shared_ptr` of it to
itself, to the send thread and to the main thread. From then on the threads
share, per connection: the ring `recvBuf_` (receive to main), `sendBuf_` (main
to send) and the atomic flag `invalid_`.

| Component | State | Operations | Hard about it | Correct when |
|---|---|---|---|---|
| Send path: `AsyncBuffer`, `UnboundedBuffer`, `StreamSocket::Send` | ring `buffer_`, `tmpBuf_`, `backBuf_` with lock and counter, `epollOut_` | `Write`, `ProcessBuffer`, `Skip`, `Send`, `OnWriteable` | double-checked test without the lock, `try_lock`, short writes, memory that grows, moves and is swapped | assertions hold, packets leave whole, once, in order, all of them |
| Receive buffer: `CircularBuffer` | `readPos_`, `writePos_`, the bytes | `GetSpace`, `AdjustWritePtr`, `GetDatum`, `AdjustReadPtr` | no lock, each side reads the other's position several times | the two areas are disjoint, bytes arrive in order, none is lost |
| Connections: `NetThread`s, `TaskManager`, `ListenSocket`, `Server` | three containers with their queues of newcomers, two epoll instances with raw pointers, `invalid_`, `epollOut_` | accept, hand over, poll, sweep, drop | any thread may give a connection up at any time, epoll and accept fail | no event for a destroyed object, callbacks in pairs, descriptors closed, clients independent |
| Thread pool, start and shut-down | queue, `waiters_`, `pendingStopSignal_`, `shutdown_`, the pointers to the two loops | `ExecuteTask`, worker loop, monitor, `StopAllThreads`, `JoinAll` | lost wake-ups, unsigned counters, pointers reset while in use | every task runs, `JoinAll` returns with all done |
| Session: `Client` | login done or not | `OnConnect`, `_HandlePacket` | a command is whatever one read returned | the client reads the reply that was meant |
| Packet formats | - | `Pack` and `UnPack` of greeting, login, OK, ERR, EOF, column, row | lengths that change their form, one-byte lengths | what is written is what a client reads |
| SQL parser: bison driver, actions, tree, flex scanner | stack of values, the tree, the parameter list, `strbuf` | shift, reduce, the error paths, `reset` | an error at any token with some sixty types of values on the stack | every object is released once, the text is read as written |
| Executor | - | CREATE, INSERT, UPDATE, DELETE, SELECT | read-modify-write, lost storage connection, undefined behaviour at row indexes | an answer tells the truth, tables do not interfere |
| Catalog: `DBMS`, `DataBase`, `DataTable` | tables and columns in memory, and stored | create, look up, recover | recovery parses keys that were put together with `_` | memory and storage agree, also after a restart |
| Storage | keys and values | SET, GET, DEL, SCAN | outside of the repository | |
| `ProtoParser`, `Config`, hiredis | | | unused or third-party | not modelled |

`PROJECT.json` lists them with their files, and under `hazards` every place in
the code where one of the hard things bites.

## 2. The modules

| Module | Models | Checked by |
|---|---|---|
| `AsyncBuffer` | the send path of one connection | `MCAsyncBuffer`, proofs in `AsyncBufferProofs` |
| `BackBuffers` | the memory of `tmpBuf_` and `backBuf_`, on top of `AsyncBuffer` | `MCAsyncBuffer`, proofs in `BackBuffersProofs` |
| `TwoLaneStream` | what the send path promises | refinement in `AsyncBufferLanes` |
| `RingBuffer` | `recvBuf_` between receive and main thread | itself, proofs in `RingBufferProofs` |
| `NetThreads` | connections across the three threads | `MCNetThreads`, proofs in `NetThreadsProofs` |
| `ThreadPool` | the pool, start and end of the two loops | `MCThreadPool`, proofs in `ThreadPoolProofs` |
| `WireFormat` | every packet format, byte for byte | through `Session`, read-back lemmas in `SessionProofs` |
| `Session` | greeting, login, commands and replies against a client of the protocol | `MCSession`, proofs in `SessionProofs` |
| `SqlTree` | allocation, constructors and destructors of the parse tree | through `SqlParser` |
| `SqlGrammar` | the rules of the grammar with their semantic actions | through `SqlParser` |
| `SqlParser` | one call of `SQLParser::parse` | `MCSqlParser` |
| `SqlScanner` | `yylex` | `MCSqlParser` |
| `SqlEngine` | executor, catalog and storage | `MCSqlEngine`, proofs in `SqlEngineProofs` |
| `TableStore` | what the database promises | refinement in `SqlEngineTables`, proofs in `SqlEngineProofs` |
| `NatLemmas` | least and greatest elements, induction and recursion over naturals, for the proofs | `tlapm` |

The modules meet where the code does. `NetThreads` abstracts the two buffers
to "how many requests" and "is there something to send"; `AsyncBuffer` looks
into the second and `RingBuffer` into the first. `AsyncBuffer` in turn takes its
ring as the sequence of unread bytes. The two tasks that `ThreadPool` runs are
the receive and the send thread of `NetThreads`. `Session` is `HandlePacket` of
`NetThreads` in detail: it cuts the stream of `RingBuffer` into commands, and
its replies are the packets of `AsyncBuffer`. In between stand the parser
(`SqlScanner`, then `SqlParser`) and a statement of `SqlEngine`, whose answer is
one of the replies of `Session`.

### AsyncBuffer and BackBuffers

State: `buffer_`, `tmpBuf_`, `backBuf_` as sequences of bytes (a byte is its
packet, its position and the packet's length), `backBytes_`, the holder of
`backBufLock_`, `epollOut_`, `invalid_`, where each of the two threads is, and
the bytes that left (a history variable).

A step is one access to something that both threads use. The main thread's
`Write` is `SendPacket` (the test without the lock), `LockBack`, `PushBack` (the
test again), `CountBack`, `UnlockBack` and `PushRing`. The send thread's
`ProcessBuffer` is `ProcessBuffer`, `CheckBack`, `TryLockBack`, `ResetBack` and
`SwapBack`; `Writev` is the system call with the `Skip` that follows, and takes
any number of the bytes offered, none included (EAGAIN).

`Wirings` is the set of builds a run looks at, and `wired` the one of a
behaviour: the code as built (FALSE) or as its comments describe it (TRUE).
`SendThread::Run` calls the virtual function `OnWritable` (`network/socket.h`);
`StreamSocket` defines `OnWriteable`, which overrides nothing. As built, every
write event therefore reaches the inherited function, which returns false, and
the connection is marked invalid. The send thread looks at `invalid_` only after
`Send()`, so such a connection is sent to once more before it is let go
(`AfterSend`).

`BackBuffers` adds to each step what it does to the two `UnboundedBuffer`s:
`PushData` with `_AssureSpace` (which grows by half and moves the contents to
the front), `AdjustReadPtr` and `Swap`. `MemoryIsSound` relates them to the
sequences of `AsyncBuffer`, which are thereby justified.

### RingBuffer

State: the two positions, the bytes, and what each thread has read so far.
`GetSpace` is two steps, since it reads `readPos_` for its test and again for
the areas; `DoMsgParse` is `Look`, `GetDatum` (which reads `writePos_` anew),
`HandlePacket` and `AdjustReadPtr`. `& (maxSize_ - 1)` is `% Capacity`:
`InitCapacity` rounds the size up to a power of two, which is an assumption of
the module.

### NetThreads

State: the listen queue, which clients are gone, the three containers and their
`newTasks_`, the two epoll sets, `invalid_`, `epollOut_`, where the send thread
is in its pass, and which callbacks were made. The hand-over is three steps
because each queue has a lock of its own. `invalid_` is raised by any thread and
acted on by each when it next looks: `RecvClean` (every 100000 turns), `SendTask`
and `MainDrop`. `Casts` is the set of situations a run looks at: which clients
come, how much they ask, and whether epoll may refuse a descriptor and `accept`
fail in a way that `OnReadable` gives up on. A write event is what the build
makes of it: `SendEvent` ends in `OnError`.

### ThreadPool

State: the queue, the three counters and flags under `mutex_`, where each worker
is and what it runs, the monitor, and the main thread from `StartAllThreads` to
the end of `JoinAll`. A worker is named after the task whose `ExecuteTask`
created it, since each call creates at most one. A step is a critical section of
the mutex or what lies between two; a worker that was notified and does not run
yet is a state of its own ("woken"), because `waiters_` still counts it.
`pendingStopSignal_` is counted down outside of the mutex.

`nw` in the monitor is unsigned: with fewer waiters than stop signals it wraps,
and the monitor floods the queue with stop tasks. The model has the wrap
(modulo `Unsigned`), and the properties except the behaviours in which it
happened (`Flooded`) only for other users of the pool than the server: that the
server's two loops never get there is part of what is checked.

`StopAllThreads` resets `recvThread_` and `sendThread_` while the loops test and
use the same pointers (`TestPointer`, `UsePointer`). That is a data race: the
loop uses the object it saw or the null of now, which ends the server.

### Session and WireFormat

`WireFormat` has each `Pack` and `UnPack` with the readers and writers under
them, with the widths of the code: `ReadU24` returns 16 bits, `ReadLenEncode`
returns an address for 0xfb, `AuthPacket::UnPack` skips the password's bytes
twice, a packet's length is one byte and two zeros.

`Session` joins three parties. The client (not part of the repository) speaks
the protocol in lock step and decodes with definitions of its own. TCP delivers
its bytes in pieces (`Recv`). The server takes what is in the receive buffer for
one command: `HandleLogin` if the fourth byte is 1, `HandleCommand` otherwise
(the command byte is not looked at), `HandleShort` with fewer than five bytes,
where the string constructor throws. The outcome of a text that no client wrote
(half a command, two at once) is a guess. `trouble` records what has happened
that the server is not made for: a read that is not one whole command, several
statements in one command, a packet of 256 bytes or more, a row that is shorter
or longer than the list of columns (`Ragged`: a row has as many cells as its
INSERT listed columns), a number of columns that is no count in the one byte
written for it (`Crowded`), a client that honours the DEPRECATE_EOF the greeting
announces (the repository's README asks for clients of version 5.1.70 or older),
another command than a query. The properties say that the client gets out of step
after one of these and not otherwise. Nothing is assumed of the shape of a result:
the quick start of the repository's README makes a ragged one.

### SqlTree, SqlGrammar, SqlParser, SqlScanner

The subject is memory. An object of the tree is a class with the pointers it
owns; `SqlTree` has `Alloc`, `Release` and, per class, what its destructor
releases and with which function. `SqlGrammar` has every rule with its semantic
action as data: what it builds from which operands, what it releases, what it
moves. `SqlParser` is the driver: `Shift`, `Reduce`, `ReduceInput`, `Accept`,
`SyntaxError`, `Exhausted` (the stack is full), YYERROR, then `Unwind` with
the `%destructor` of each symbol and `SQLParserResult::reset`. After every step
what no owner reaches any more is a leak, filed under the action it happened in.

The LALR tables are generated and not modelled. The behaviours are derivations
of the grammar instead, generated from the left while the parser goes on, which
an error may cut off at any token. These include all texts the tables accept;
where the tables resolve a conflict, the derivations include both readings.

`SqlScanner` has the rules of `flex_lexer.l` in place of the generated
automaton: the longest match in the present start condition, the first of
several. `COMMENT` is an inclusive start condition, `singlequotedstring` an
exclusive one, and `strbuf` is static and thus survives an earlier text.
`MCSqlParser` puts both halves side by side, and checks that each token of the
grammar is one the scanner returns.

### SqlEngine

State: the tables in memory, the two kinds of stored keys, whether the server
runs (`headless` is the server whose `Executor::Init` failed, a result that
`_Init` ignores), whether the storage connection is usable, an UPDATE between
its GET and its SET, and the last answer. A key is the sequence of its
`_`-separated tokens and a stored row the sequence of the values that `$$`
joins, so `StringSplit` is modelled by what it loses: one empty value at the end.
A null reply (no connection) is ignored by INSERT and CREATE, and dereferenced
by the rest, as in the code. An index outside of a row is undefined behaviour:
either the server crashes or the value goes nowhere.

## 3. The runs

| Run | Bounds | What it shows |
|---|---|---|
| `async` | ring of 4, packets of 1, 2 and 4 bytes, 4 packets, back buffers from 8 bytes on; both builds | assertions, whole packets, sound memory, refinement of `TwoLaneStream`, every packet leaves or the connection is given up |
| `async_order` | same, as built | violated: a packet overtakes an earlier one |
| `ring` | 8 positions, 18 bytes | assertions, disjoint areas, order, every byte is handled; deadlock is checked |
| `threads` | 2 clients, or 1 with 3 requests while epoll and accept fail | pointers in epoll are to held connections, callbacks come in pairs, invalid and abandoned connections are released; until a client falls behind with reading, connections are dropped only when their clients left, and requests are handled |
| `threads_dropped` | 2 clients | violated: one slow client costs others their connections |
| `pool` | the two loops, or 4 short tasks from 2 threads; 1 idle worker; unsigned modulo 8 | exact counters, the last worker stays, every task runs, the shut-down ends with all done |
| `session` | 9 sessions, reads that end at 5 places of a packet or at its end, 2 salts | the client reads the answer that was meant, stays in step, and gets one; the repository's `UnPack` inverts `Pack` |
| `parser` | one rule in focus and one other choice; texts of up to 6 characters | one owner per object, leaks and faults only where listed, parameters point into the tree, texts are read as written |
| `engine_faults` | tables `a` and `a_b` of 1 and 2 columns, 2 rows, empty values, column lists too short, too long and reordered, lost connection | catalog and storage agree, no statement touches two tables, UPDATE writes one row |
| `engine_tables` | tables `a` and `b`, 2 columns, 2 rows, LIMIT | the engine implements `TableStore` through crashes |
| `engine_restart` | tables `a` and `a_b` | violated: `a_b` cannot be used after a restart |
| `engine_ack` | 1 table, lost connection | violated: an INSERT is acknowledged and not stored |

Why the bounds are enough.

- `async`: a packet of 4 never fits the ring (one position stays unused), one of
  2 fits unless the ring is half full, and four packets are enough for one in
  each of the three buffers with one in the writer's hand. With a first size of
  8 a back buffer is reused, moved to the front and grown within them.
- `ring`: 18 bytes go more than twice round the 8 positions, so each area wraps,
  with every number of bytes that `readv` may return.
- `threads`: two clients are one that has trouble and one that has not; three
  requests are one parsed, one in the buffer and one in the kernel.
- `pool`: four tasks and one idle worker allow a worker that stops, one that is
  woken, one that waits and one that begins; four short tasks do make `nw` wrap.
  The server itself has two tasks.
- `session`: cells of 0, 250, 251 and 252 bytes are both sides of the change of
  a length's form, the last one in the longest packet possible; 260 rows
  take the sequence number past its wrap; one row is shorter than its columns, and
  251 columns are the first number that means something else to a client. The cuts are before and after the
  sequence number and the command byte, in the text and in a login's body.
- `parser`: each of the rules is used in a shortest text, with one other choice
  anywhere in it (two for the rules of `literal_list`, which need an element
  more), so each action meets each
  kind of each of its operands. The code's stack has 200 places and never grows
  (`HSQL_LTYPE_IS_TRIVIAL` is not defined, so the code that copies it to a larger
  one is not compiled in), and a parse that needs more ends with "memory
  exhausted". `YYINITDEPTH` is 11, the smallest size looked at: one run has
  all sizes from there on, as the parse may end at every depth from 11 or go on. The scanner's texts are all of up to
  three characters over eleven that cover every rule, all of up to six over the
  characters of strings and over those of comments, words that begin like `OR`,
  and numbers over `0`, `1`, `8` and the point, with 99 for the largest integer.
- `engine_*`: two tables, one a prefix of the other, and two rows are what it
  takes for one statement to hit the wrong table or row. In `engine_faults` the
  tables have one column and two, so that the same lists are complete, too short
  and too long; the code checks none of this.

`MaxPackets`, `MaxBytes` and `MaxRows` are the bounds in guards; `Detours` bounds
the derivations; `Unsigned`, `LLONG_MAX`, `YYINITDEPTH` and `SmallestSize` are
numbers of the code made small. The theorems hold for all values of the constants
of their modules.

Deadlock is checked where the system cannot stop (`ring` with its main thread's
empty look, the engine with its statements, the parser with its explicit end).
In `async*`, `threads*`, `pool` and `session` it is not: when all packets are
sent, all clients served, all tasks joined, nothing is left to do.

### Fairness

Only weak fairness is used. In `AsyncBuffer` both threads take steps while they
can (each runs an endless loop over all connections), and a client with a short
write pending reads on, as otherwise nothing can be promised. In `RingBuffer`
the same, for the two threads. In `NetThreads` it is assumed per action and
connection: epoll is level-triggered, so what is not handled is reported again;
each pass goes over the whole container; the sweep comes again after 100000
turns because `loopCount` grows in each of them. In `ThreadPool` each worker, the
main thread and the monitor (a timed wait of a second) are scheduled, and tasks
other than the loops end; a signal that ends the server need not come. In
`Session` the kernel delivers, the server's loops go on, and a client that waits
reads; weak fairness of `ClientTakes` is written out with its enabling condition
as `[]<>~(Waits /\ FrameReady) \/ []<><<ClientTakes>>_vars`, since TLC would
decode each packet again to evaluate ENABLED. Nothing is assumed of clients that
are idle or of errors. `SqlEngine` and `SqlParser` have no liveness property: a
statement is a function call.

### Liveness and the environment

`EveryPacketLeaves` and `EveryByteHandled` say that nothing stays in a buffer;
`InvalidIsReleased`, `GonePeerIsReleased` and `RequestIsServed` that no
connection is kept for ever and no request forgotten; `EveryTaskRuns` and
`ShutdownEnds` that the pool loses no wake-up; `EveryCommandAnswered` that a
client does not wait for ever. `GonePeerIsReleased` asks that the receive thread
has registered the descriptor: if epoll has refused it, nobody sees that the peer
leaves.

## 4. What is proved

All theorems hold for every value of the constants under the named assumptions
of the modules: a ring of at least one position, positive packet sizes, a first
back buffer of at least two bytes, a power of two as `Capacity` of the receive
ring, well-formed `Wirings`, `Casts`, names and lists, finitely many tasks. Where
a theorem needs more, that is a hypothesis of its statement. Each component's
proof follows the same line: an inductive invariant, one lemma per action (or per
group of actions that disturb the same part), and the theorems as consequences.

`AsyncBufferProofs`:
- `Bounds`, `BufferTypesHold`: `BoundsInv` is invariant. It is `TypeOK`,
  `AssertsHold`, `LockInv` (who holds the lock where) and `CountInv` (what
  `backBytes_` counts at each step of either thread, and that `tmpBuf_` is empty
  while the send thread looks at `backBuf_`). `AssertsHold` alone is not
  inductive: that the ring has room at the push depends on the counter staying 0
  while the sender resets it.
- `AssertsNeverFail`: no assertion of `async_buffer.cc` fails.
- `PacketsStayWhole`: `PacketsIntact`. The strengthening `ChainInv` says that
  what left, `tmpBuf_` and the ring form one chain of whole packets, and that
  the swap puts `backBuf_` in between only at a packet boundary. It rests on
  lemmas that chains can be joined at a boundary and cut anywhere.
- `LanesAreImplemented`: the refinement of `TwoLaneStream`. The mapping counts the
  packets that are complete in each part (`Complete`, a recursive function); its
  lemmas (it is additive at a packet boundary, 0 or 1 on a piece of one packet)
  are proved by induction, with the least counterexample of `NatLemmas`.

`BackBuffersProofs`:
- `MemoryOnlyFollows`: the module with the memory implements `AsyncBuffer`, so
  every theorem above holds of it; `LanesWithMemory` is the one on the lanes.
- `MemoryStaysSound`: `MemoryIsSound`, from `MemInv`: each buffer holds its
  sequence between its two positions, inside of what is allocated, and its size is
  one of the sizes that growth from nothing goes through, with the size before it
  below the largest content ever held. That last part is what makes the bound on
  growth inductive. It rests on the sizes being increasing (`SizeGrows`).

`RingBufferProofs`, from `RingInv`: the readable bytes are the next ones of the
stream (`ContentInv`), the area of `readv` lies in the free part, also after the
reader moved on (`SpaceInv`), the area of the parser lies in the readable part,
also after the writer moved on (`DatumInv`). Lemmas on positions modulo
`Capacity` carry the argument.
- `RingTypesHold`, `BufferAssertsHold`, `NoOverlap`, `BytesInOrder`.

`NetThreadsProofs`:
- `ThreadTypesHold`: `TypeOK`.
- `PollersSafe`: `PollersPointToHeld`, with what the send thread still has to
  visit in its pass as the strengthening.
- `CallbacksPaired`: `CallbacksArePaired`, from an invariant on where a
  connection is in the hand-over: before the main thread welcomed it somebody
  holds it.
- `DropsNeedSlowPeers`: `DropsNeedASlowPeer`, the other side of
  `threads_dropped`: until some client has fallen behind with reading, nobody is
  dropped whose client is still there. (`epollOut_` is cleared only by the handler
  that is never called, so it stays set from then on.) `QuietInv` adds that the
  send thread has no events in hand until then and will not poll.

`ThreadPoolProofs`, from `PoolInv`: types, each task submitted once, a busy worker
has a task, and
- `PoolTypesHold`, `CountersStayExact`: `CountersAreExact` is inductive with the
  above: the counter that is changed outside of the mutex is exact when the
  workers between the two are counted.
- `AWorkerStays`: `LastWorkerStays`. Needs `WorkerInv` (before the first task
  there is no stop task at all; afterwards there are fewer than workers that
  stay) and, for the server's use, `LoopsInv`: with the two loops alone there is at
  most one stop task, and only when both loops have ended, so `nw` cannot wrap.

`SqlEngineProofs`, from `EngineInv`: what is stored under a key is what the code
puts there, and an UPDATE between GET and SET still has its row.
- `EngineTypesHold`, `UpdateStaysInItsRow`.
- `TablesAreApart`: `OneTableAtATime`, if no table's name is another one's
  followed by `_p`. The hypothesis is what the key format leaves open: the rows
  of `a_p_b` would be found by a scan of `a`. The lemmas compare keys token by
  token.
- `CatalogIsStored`: `CatalogAgrees`, if a name is always created with the same
  columns (`DataBase::CreateTable` overwrites the stored list and keeps the one in
  memory).
- `TablesAreImplemented`: the refinement of `TableStore`, under `PlainUse`: the
  storage connection lasts, names have no `_`, a name is created with one list of
  different columns, every INSERT lists all of them with the first one first, and
  no literal is empty. Each is needed: `engine_restart` and `engine_ack` show what
  happens without the second and the first, a partial INSERT has a key that is
  not its first column or a row that is too short, and an empty last value is lost
  by `StringSplit`. The constants of `engine_tables` satisfy `PlainUse`.
  `TablesInv` says that a running server knows exactly the stored tables, every
  row belongs to one and is complete, and an UPDATE in progress holds the row as
  it is stored. Start and Crash map to `PowerChange`, the GET of an UPDATE to
  nothing and its SET to `Amend`, the other statements to the one of their name or
  to `Decline`.
- `OneTokenTablesStayUsable` and `AckedInsertsAreStored` are the other side of the
  runs `engine_restart` and `engine_ack`. If no name contains `_`,
  `StoredTablesAreUsable` holds through any number of restarts, crashes and lost
  connections, with no condition on the columns: the `_` alone is what loses tables.
  If the connection is never lost in use, `AckedInsertIsStored` holds of every
  INSERT, whatever it lists: a null reply is the only way to lose a row that was
  answered OK.

`SessionProofs`, in three parts. The first shows that the formats of `WireFormat`
are read back: what `WriteLenEncode` wrote is read by the client's own reader as
the same number at each of its widths up to 2^24, a row as the same cells, and so
for OK, ERR, EOF, the count, the columns, the greeting and the login. `Stands(p, at, s)`
(the bytes s are in p from place `at` on) carries these lemmas; a row, a fold
over its cells, is done by induction on the number of cells. The second is the
exchange:
- `SessionInvHolds`: the inductive invariant. As long as `trouble` is empty,
  exactly one side has the word (`Lockstep`): the client's packet is on its way,
  part received and part still to come, and nothing comes back (`Asking`); or the
  server has answered, the client has taken k of its packets and nothing goes up
  (`Underway`). In a result set k determines the rest: the sequence number
  expected next, the columns left and the rows read (`Progress`). None of the
  properties below is inductive; `AnswerIsTheServers` speaks only of the moment
  when the whole answer is there.
- `AnswersAreTheServers`: `AnswerIsTheServers`.
- `ClientStaysInStep`: `InStepWithoutTrouble`. What the proof needs of a result's
  shape comes from `trouble` being empty (`FitShape`) and not from an assumption.
- `NamesAreRead`: `LoginNamesRead`.

The third is about the repository's own readers of its packets, which the server
does not run but its code offers:
- `PacketsAreUnPacked`: `UnPackInvertsPack`. Whenever the client has a packet in
  hand, the `UnPack` function of that packet gives what `Pack` was given: the greeting
  with every salt (its capabilities are sent in two halves with other fields in between), a
  column of each of the 30 types with any names, the end marks, and the rows with
  cells of any bytes. `SessionInv` says which packet it is. Then the readers are
  followed part by part: `StringsStand` and `GreetingPlaces` give the place where each
  part stands, `PartAt` that a reader which has consumed the parts before stands
  there, and one lemma per kind of part (numbers of 1, 2 and 4 bytes, lengths,
  strings up to their length or to a zero byte) that it is read back.
  `ReadLenEncode` is shown to invert `WriteLenEncode` below 2^16, one byte and two;
  lengths of three bytes do not occur in packets of less than 256 bytes, and `ReadU24`
  would drop the third. The type is not
  sent but computed on both sides, from code and flags: `TypeReadBack` goes through
  the 30 types, in groups by the flags they set (`PlainType`, `UnsignedType`,
  `BinaryType`, `CharTypes`).

`PlansAssumption` and `SaltsAssumption` say which sessions these theorems are
about: names and cells are bytes, those of a login without a zero byte (they end in one); a
result set has any columns and rows of any width; fewer than 2^24 affected rows and
2^16 warnings; every command has an outcome; a salt is 20 numbers. A result whose
rows do not fit a packet, are not as wide as the list of columns, or whose columns
do not fit the byte that counts them is the trouble `oversize`, `ragged` or
`crowded`. `MCSession`'s constants
satisfy both, and TLC has checked `SessionInv` on all states of the run `session`.

Model-checked only:
- Liveness (`EveryPacketLeaves`, `EveryByteHandled`, `RequestIsServed`,
  `GonePeerIsReleased`, `InvalidIsReleased`, `EveryTaskRuns`, `ShutdownEnds`,
  `EveryCommandAnswered`): out of the prover's reach. `StoreSpec` and the lanes have
  no fairness, so the refinements are proved whole.
- The parser's invariants (`TypeOK`, `OneOwner`, `LeaksAreKnown`, `FaultsAreKnown`,
  `ParametersPointIntoTree`). They are about what destructors and semantic actions
  do to a tree (`Release`, `Reach`, `Build` in `SqlTree`), which is recursion over
  data: what such a definition computes for every tree cannot be proved here, and
  the operators exclude the SMT solver. They are also properties of the rules as
  they are and not of a parameter, so a proof would be a case for each rule, which
  is what TLC does: every rule is reduced in the run `parser`, and the text breaks
  off at every token.
- `ScannerReadsText`: the longest match of the rules, a fold over the text, against
  a definition of the tokens that reads it in another way.

## 5. What the models show about the code

Runs that are expected to fail:
- `async_order`: `ProcessBuffer` finds the ring empty; the main thread puts a
  packet into the ring and the next one, which does not fit any more, into
  `backBuf_`; `ProcessBuffer` then sees `backBytes_` and sends the later one
  first.
- `threads_dropped`: one connection with a short write makes the send thread
  poll, and every writable connection gets `OnWritable`, which fails it.
- `engine_restart`: `RecoverFromPmemKV` takes the last token of
  `table_default_a_b` for the table's name.
- `engine_ack`: INSERT does not look at the reply of SET.

Seen while modelling, and part of the models as the code has them:
- Threads. `Epoller::Poll` never reports an error event: it compares where it
  should set the bit (`network/epoller.cc:107`); `GonePeerIsReleased` holds all
  the same, since the receive thread's read fails. `nw` can wrap for a pool with
  other tasks than the server's (`network/thread_pool.cc:105`). A loop can meet
  a null pointer during the shut-down (`network/net_thread_pool.cc:171`).
- Session. A command that arrives in two reads, or two in one, is taken for
  another one, and fewer than five bytes end the server
  (`network/client.cc:45`). Several statements get replies with the same
  sequence number, a row of 256 bytes or more is announced with its length
  modulo 256 (`executor/select_executor.cpp:251`), and any command byte is taken
  for a query, so COM_PING is answered by an error. The greeting announces
  MULTI_STATEMENTS and DEPRECATE_EOF, neither of which the server follows. Behind a
  password the names of a login are read from the wrong place
  (`network/auth.cc:133`).
- Parser. What the `LeaksAreKnown` list says: the literal of an array index; the
  schema of CREATE INDEX; CREATE TABLE ... FROM when it leaves through YYERROR;
  values of `column_constraint_vec`, `with_description_vec` and `update_vec` when
  the parser gives up; the first message when there is a second one. The names of a
  column list come from `malloc` and are released by `delete` when the parser
  gives up (`parser/bison_parser.cpp:2744`). JOIN ... USING (*) copies a null
  name (`parser/bison_parser.cpp:4951`).
- Scanner. A comment goes on into the next line if its newline is followed by a
  blank or an empty line, or if the comment is only blanks, because the rule for
  blanks matches longer than the one that ends the comment
  (`parser/flex_lexer.cpp:2475`). An integer with a leading 0 is octal; one that
  is out of range returns what `fprintf` returned, the token `@`; after a
  character that no rule knows the rest of the text is ignored, so
  `SELECT ...; # ...` is accepted.
- Executor. DELETE without WHERE scans for a pattern without `*`, finds nothing,
  and deletes the row with key `1` (`executor/delete_executor.cpp:60`). UPDATE
  of a column that the INSERT left out writes behind the row
  (`executor/update_executor.cpp:72`); `test_sql/test_v0_1.sql` does this.
  An INSERT that lists fewer columns stores a row of that length
  (`executor/insert_executor.cpp:62`), which SELECT decodes and sends as it is
  (`executor/select_executor.cpp:59`, `:243`), so the client gets a row packet with
  fewer cells than columns; the README's quick start does this and shows the row
  `Tom` with an empty cell (`README.md:143`). LIMIT n returns up to n + 1 rows
  (`executor/select_executor.cpp:164`); without WHERE the limit is read
  uninitialized. CREATE TABLE of a table that exists replaces the stored columns and
  keeps the ones in memory (`meta/database.cc:38`); `CatalogAgrees` holds as long as
  each name is created with one list of columns. A server whose storage is not there at the start
  runs on without a catalog.

## 6. Not modelled

- The LALR tables of `bison_parser.cpp` and the automaton of `flex_lexer.cpp`:
  generated; modelled by the rules they were made from. Of a tree only pointers
  are kept, not names, types and flags. `SQLParser::tokenize` has no caller, and
  `sqlhelper.cpp` prints trees.
- Databases other than the one created at the first start: no statement makes
  one. `DropTable`, `OpenDataBase` and the like have no caller.
- SCAN in several replies: the code asks once and ignores the cursor; how the
  storage splits a scan is not in the repository.
- The characters within a value: one that contains `$$`, or blanks at its ends,
  is cut or trimmed when the row is read again (`network/string_utils.h:26`).
- `ProtoParser` (only its `Reset` is called), `Config` with the vendored
  `toml.h` (the server never reads a configuration), the redis-style `Format`
  functions of `common.cc` (no caller), hiredis, benchmarks and build scripts.

## 7. Plan

Done, in this order: the send path, the receive ring, the threads, the engine,
the thread pool with the shut-down, the packet formats and the session, the
memory of the back buffers, the parser, the scanner; then the proofs of section
4, component by component, with both refinements and the packets' own readers.
Every safety property of the passing runs is proved but those of the parser and
the scanner (section 4 says why). Worth adding when the code changes: SCAN in
several replies, once `select_executor.cpp` follows the cursor, and the characters
of values, once `StringsJoin` escapes them.
