# A TLA+ model of CommonUtils

CommonUtils is a collection of C++20 libraries: a message queue, a thread pool,
an asynchronous logger, a TCP server and client on Boost.Asio, an HTTP server
and client, a JSON wrapper and an SQLite wrapper. The modules in this directory
model them from the source (`src/`), TLC checks them on small instances, and
TLAPS proves theorems about all of them for every size.

## The system

| Component | Files (under `src/`) | State | Operations |
|---|---|---|---|
| MessageQueue | `MessageQueue/include/Utils/MessageQueue.hpp` | `queue_`, a hand-kept count, a capacity, a mode | `push`, `pop` (blocks), `empty` |
| ThreadPool | `ThreadPool/src/ThreadPool.cpp` | task queue, count, stop flag, one condition variable | worker loop, `enqueue` (blocks), destructor |
| Logger | `Logger/src/Logger.cpp`, `Logger.hpp` | policies, queue, stop flag | `Log`, `AddPolicy`, `Flush`, processing thread, timer thread, destructor |
| ConsoleLogPolicy | `Logger/src/ConsoleLogPolicy.cpp` | queue, stop flag | `Write`, `Flush`, printing thread, destructor |
| FileLogPolicy | `Logger/src/FileLogPolicy.cpp` | 16 buffers in a ring, the current one, a queue of full ones, 17 mutexes | `Write`, `Flush`, `NextBuffer`, file thread, destructor |
| TCP Session, SessionManager | `TCP/src/Session.cpp` | read buffer, write queue, last activity; table of sessions | read and write chains, `Close`, `CheckTimeout`; add, remove, unicast, broadcast, clean |
| Acceptor, IOContextPool | `TCP/src/Acceptor.cpp` | contexts, threads, round-robin index | `Start`, `Stop`, `GetIOContext`, accept loop |
| TCPServer | `TCP/src/Server.cpp` | the above and a MessageQueue | start, stop, receive, send, close |
| TCPClient | `TCP/src/Client.cpp` | an io_context, a session, a MessageQueue | connect, receive, send, close, destructor |
| HTTP server | `Network/src/HTTPS/*.cpp` | route table, one request per connection | `AddRoute`, `Start`, `Stop`, request handling |
| HTTP requests, UrlParser | `Network/src/Request/*.cpp`, `UrlParser.cpp` | none | one request and its error paths; splitting a URL |
| WebSocket | `Network/include/Utils/Network/WebSocket/` | | declared, not defined |
| JsonManager | `JSON/include/Utils/JSON.hpp` | a tree and a pointer into it | access that creates nodes, load, save |
| SQLite wrapper | `DataBase/src/*.cpp` | a connection | statements put together from strings |

They interact as follows. A TCPServer owns an IOContextPool, an Acceptor, a
SessionManager and a MessageQueue: a session's read handler, in an I/O thread,
pushes to the queue what `GetMessage` polls with `empty` and `pop`; a TCPClient
does the same with one session. A Logger owns two threads and hands each
message to its policies, which each have a queue and a thread of their own; the
timer calls their `Flush` under the logger's mutex. An HTTP server's I/O thread
looks routes up in a table that `AddRoute` changes from outside; a request parses
its URL and talks to a server over a connection of its own. SQLite wrappers meet
in the locks of a file. JsonManager stands alone.

What is hard to test is in the hand-overs between threads: which waiter a
notification reaches, what is read before a lock and used under it, what a
destructor does to threads in the middle of something. The list, line by line,
is under "hazards" in `PROJECT.json`.

What makes each component correct:

- MessageQueue: FIFO; bounded; only the documented end loses messages; no
  message is left while a consumer sleeps.
- ThreadPool: every accepted task runs exactly once, in the order of acceptance;
  bounded backlog; blocked producers and the destructor get back.
- Logger and policies: every message reaches every policy and its output once,
  in order, all of it before destruction ends; callers are not held up for ever.
- TCP: every message received is delivered once and in order; writes go out in
  order, one at a time; a session is in the table exactly while it lives.
- HTTP: each request gets the answer of its route or 404, from a handler no older
  than the call, and every call returns.
- UrlParser: the parts give the text back. JsonManager: an access keeps what is
  there. Database: a query returns what it selects, as far as it comes, and
  leaves no lock (where the code keeps neither, the module says exactly when).

## Modules

| Module | Models or states |
|---|---|
| `CondVar` | `std::condition_variable` as a set of blocked threads (external) |
| `MessageQueue` | the queue; `LossyFifo` is what it promises |
| `ThreadPool` | the pool; `TaskExecutor` is what it promises |
| `ConsoleLogPolicy` | the policy; `OrderedLog` is what it promises |
| `Logger` | the logger over abstract policies |
| `LogPipeline` | `Logger` composed with a `ConsoleLogPolicy`; implements `OrderedLog` |
| `FileLogPolicy` | the ring of buffers and its file thread |
| `Session` | connections: read chain, write chain, close, idle time |
| `SessionManager` | the table of sessions over `Session` |
| `TCPServer` | acceptor, context pool and handlers over `SessionManager` and a `MessageQueue` |
| `TCPClient` | connects, detached threads and the io_context over `Session` and a `MessageQueue` |
| `UrlParser` | the parser as a function, and what URLs look like |
| `HttpServer` | accept loop, sessions, router, start and stop |
| `HttpRequest` | calls of `Get` and `Post` over `HttpServer` and `UrlParser` |
| `JsonManager` | a document, the views into it, what accesses make and drop |
| `Database` | statements, query loops and file locks of several wrappers |
| `Inbox` | sessions that fill a `MessageQueue` and the thread that empties it, as server and client have it |
| `MessageQueueProofs`, `ThreadPoolProofs`, `LogPipelineProofs`, `FileLogPolicyProofs` | theorems about the modules they are named for, and about `Logger` |
| `SessionProofs` | theorems about the write chain and the read chain of `Session`, and about `Inbox` |
| `TCPServerProofs`, `TCPClientProofs` | theorems about server and client, from those about sessions |
| `ServicesProofs` | theorems about `HttpServer` and `HttpRequest`, `UrlParser`, `JsonManager`, `Database`, and all of them together |
| `MCMessageQueue`, `MCThreadPool`, `MCLogPipeline`, `MCFileLogPolicy`, `MCTCPServer`, `MCTCPClient`, `MCServices` | instances for TLC, with their definitions of constants and symmetry |

Variables and actions carry the names of the members and functions they model;
`PROJECT.json` maps each definition to its lines.

### How much is one step

A critical section of a mutex is one action, with the wait at its head: a
thread that finds its predicate false joins the set of waiters, a thread taken
out of that set evaluates the predicate again. What a thread does after an
unlock (notify, run a task, print, call a policy) is another action. The
standard lets a waiter return unasked, and `Spurious` does so at any time.

`FileLogPolicy` is finer. `Write` and `Flush` read the atomic `current_buffer_`
again and again while they hold one mutex or another, so each such read is a
step: together with the access that uses it at once (`buffers_[current_buffer_]` in
a test), by itself where there is work in between. The buffer of a `push_back` is
chosen before the message is formatted (`ChooseBuffer`, `AppendTo`), and the conditional
expression in `NextBuffer` reads the index twice. Where the C++ standard leaves the meaning open (the file thread
reads a vector while another thread appends, an index past the array) the model
is as kind as it can be: the read is atomic, and a behaviour ends at the first
index out of range. The faults it shows do not depend on more than that.

Queues hold numbers: a message or task is the number of its `push`, `Log` or
`enqueue`. Order, loss and duplication are all visible in them, and contents
play no part in the control. Formatting, levels, colours and the printed
warnings are left out. The flags `stop_`, `stop_thread_` and `current_buffer_` are
sequentially consistent atomics in the code; the plain array `buffer_is_empty_`
is read as if it were one.

### MessageQueue

Producers keep no state, so `Push` may happen at any time. Consumers are idle,
inside `pop()`, or (`"checked"`) between an `empty()` that returned false and
the `pop()` that the READMEs, `TCPServer::GetMessage` and `TCPClient::RecData`
put behind it. `NoLostWakeup` is the property the design stands on: while a
consumer sleeps there are at least as many woken consumers as messages.

### ThreadPool

`Workers` loop through `Fetch`, `Execute`, `Announce`; `Clients` (and, with
`TasksMayEnqueue`, tasks) go through `Enqueue`, perhaps `Resume` after a wait,
and `Notify`. The destructor is `Stop`, `NotifyStop`, `Join`. The README of the
pool forbids adding tasks while it is being destroyed, so clients do not; a task
that does so throws out of a worker, which ends the program (`terminated`).

The single condition variable decides what can be promised. With room for all
tasks only workers wait on it and every task runs (`tp_ample`). Where producers
wait too, a wakeup can reach a thread that cannot use it, and `tp_stranded_task`
shows a worker asleep beside its task.

### Logger, ConsoleLogPolicy, LogPipeline

`Flush` keeps `mutex_` through all policies: a thread in state `"flush"` is the
holder of the mutex. The processing thread goes through the policies without it
(`"deliver"`). `AddPolicy` takes no lock; in the model it happens only while no
thread visits the policies, which is what a caller has to arrange by itself (by
adding them before the first message and before the timer's first flush). A call
at any other time changes a `std::vector` under its readers, and the model does
not follow the program into that. `since` remembers how many messages there were
when a policy was added; the code has no such variable, and no action depends on
it.

`LogPipeline` runs the two components together: the logger's processing thread
is the console policy's only writer, its `policy->Write()` is the policy's
`Push` and then `Notify`, and the policy is destroyed after the logger. From
`Log()` to the console the two queues in a row are one `OrderedLog`.

### FileLogPolicy

`Writers` and `Flushers` call the policy; in a logger these are the processing
thread and the timer (and whoever calls `Logger::Flush`). `MaxBacklog` lets a call
begin only while at most so many buffers wait for the file thread. That
restriction separates what holds from what does not:

- one caller, any backlog (`fl_single`): nothing is lost, the file is in order,
  and `Write` gets a free buffer again, because it has released `mutex_queue_`
  while it waits for one. `Flush` has not: when it has queued the last free buffer
  of the ring, it waits for one inside the mutex that the file thread needs to take
  one out of the queue, and both wait for ever. The run goes through these states,
  and `FlushReturnsOrSticks` says that `Flush` returns in all others;
- a writer and the timer, buffers that do not fill, one buffer pending
  (`fl_timer`): what is flushed gets into the file;
- a writer that fills a buffer while the timer flushes it (`fl_full_loss`): the
  buffer is queued twice and messages are lost.

### Session, SessionManager, TCPServer

A `Session` is a read chain (`async_read_until`, its handler, the next read), a
write chain over `writeQueue_` and `Close`. An asynchronous operation completes in
one step and its handler runs in a later one: `reading` is `"ok"` and an outcome is
in `outcomes` in between, and other threads may close the socket, send or poll
there. What a peer sends is a stream of numbered pieces, every second of which
ends with the delimiter; a read returns any number of those that have come, so a
message may come in halves or with the beginning of the next. `ReadOk` does with
the buffer what `AsyncRead` does: it empties it, and passes on what precedes the
first delimiter. `Paced` says that a peer starts a message only when the one
before has been handled; without it pieces are lost (`tcp_pipelined`).

`SessionManager` is the table. All its members hold `sessionMutex_`; `Broadcast` is
one step for each session it serves, with the mutex held (`sending`), and
`CleanExpiredSession` one step that collects the ids and one for each id removed.

`TCPServer` adds the accept loop with its round robin over the contexts, the
message handler, the application's calls and `Stop()`. A handler is one step of
the thread of its context. Between two locks of a handler another thread may come
in, but what it does there (close the socket, take the message) commutes with the
rest of the handler: it would be the same after it. The handler asks the socket
for its address before it pushes, which throws when the connection is gone;
nothing catches it in the I/O thread, and the model ends there (`terminated`). The
queue of the server is an instance of `MessageQueue`, and `GetMessage` its
`Empty` and `Pop`. Pairing `origin` with the numbers in the queue tells from which
session a message is and which pieces it is made of, so that half a message is
seen to be one; `got` has the messages that the application was given, piece by piece. After `Stop()` the contexts are destroyed
while acceptor and sessions still refer to them, and `GetIOContext` divides by
zero: whatever the application calls then, except `GetMessage`, ends the behaviour
(`AfterStop`).

Races on plain members (`isStarted_`, `lastActiveTime_`, the socket object that
`Close` and the handlers share) are modelled as if the accesses were atomic.

### TCPClient

`ConnectToServer` makes a session, starts its read chain and sends a detached
thread into `ioContext_.run()`. The context has no work guard: when no operation
and no handler is left it is stopped (`stopped`), its threads leave `run()`, and
since nothing calls `restart()` a thread that comes later leaves at once. The
session of a connect after that moment is `deaf`: what it reads is never passed
on, what is sent goes no further than the first message, which `async_write` may
hand to the socket in the call itself. `ServedWhileOpen` states both sides. A call
before the first connect dereferences a null pointer, and the destructor does not
wait for the threads: `undefined` marks both, and ends the behaviour.

### HttpServer, HttpRequest, UrlParser

The server has one io_context and one thread. A connection is accepted, read,
answered and closed, each by a handler of that thread; `HandleRequest` looks its
route up in one step (`Lookup`) and calls it in another (`CallHandler`), so that
`AddRoute`, which holds no lock, may come in between. Look-up, call and storing are
atomic here; in the code they are a data race on an `unordered_map` and on the
`std::function` that is called, with no defined outcome. A handler that throws
(`HandlerThrows`) ends the program, since nothing in the I/O thread catches it. Handlers are numbered in the
order they were stored, which makes it visible how old an answer is. `Stop` is three
steps (the flag, the context, the join); the acceptor stays open, so connections
are still taken up by the system and wait in the backlog.

A call of `Get` or `Post` parses its URL and goes through `stage`. Every stage may
fail, which gives status -1. The URLs of the instance include one without a
protocol, one without a target, one for a port where nobody listens and one that
asks for TLS of a server that does not speak it. `FreshAnswer` and `CallsReturn`
are about server and calls together. The network loses nothing and takes any
time; a break of the connection appears as the failure of a stage at either end.

`UrlParser` reads sequences of symbols. `Spellings` says, in the other direction,
which texts may stand for given parts; `SplitsBack` compares the two for a text.

### JsonManager

A document is a function from paths to kinds of nodes. The operators `[]` that are
not const make a container of whatever they are applied to, those that are const
leave that to nlohmann::json, which does it for null only and throws otherwise.
Assignment drops what was below; a growing array may move its elements, and views
of them are then not used again. `saveToFile` writes the manager's own document,
which in a view is null.

### Database

`sqlite3_exec` takes the one write lock, and commits unless a reader is at work or
an error occurs; `DROP TABLE` is also an error while a statement of the same
connection is open. `ExecuteQuery` prepares, counts the columns, steps and finalizes:
it holds a shared lock from its first row to the end, and the loop ends in the same
way whether the rows are at an end or a step fails (`StepEnds`).

Between preparation and first step the table may be dropped or made anew. SQLite
then prepares a `SELECT *` again, for the columns there are, and the loop goes on with
the columns it counted. If there are more of them, each row lacks the last ones
(`ColumnsRead`). If there are fewer, `sqlite3_column_name` returns a null pointer, and
`row[columnName]` makes a `std::string` of it, which throws in libstdc++ (elsewhere it is
undefined). `StepThrows` is this second way out of the loop: it passes by
`sqlite3_finalize`, so the statement stays open with its shared lock. `abandoned` has
the wrappers this has happened to; their `sqlite3_close` fails as well, and no other
connection ever writes to the file again. Nothing waits for a lock: a call that does
not get one returns `false`, or an empty result.

## Runs and bounds

Each run is listed with its properties in `PROJECT.json`. All of them set
`CHECK_DEADLOCK FALSE`: the programs may stop, when nobody calls them again, when
the bound on calls is reached or when they have been destroyed; that they do not
stop where they should go on is what the liveness properties say.

| Run | Instance | Why it is enough |
|---|---|---|
| `mq_coverage` | capacity 3, 3 consumers, 7 pushes, coverage mode | the queue fills, overwrites and empties; three consumers let one sleep, one be woken and one overtake |
| `tp_safety` | 2 workers, 2 clients, backlog 2, 6 calls | both ends block, tasks enqueue tasks, the pool stops in every state |
| `tp_ample` | the same with backlog 4 and 4 calls | nobody waits for room |
| `tp_stranded_task` | 1 worker, 2 clients, backlog 1 | the least instance of a mixed wait |
| `lp_pipeline` | 2 callers of which one flushes, 2 policies, 2 messages, the timer | two flushers and the processor contend for the mutex, the console lags, teardown begins in every state |
| `fl_single` | 3 buffers of 2 messages, 6 messages, one caller | every buffer becomes pending, by `Write` and by `Flush`, the ring wraps |
| `fl_timer` | 3 buffers of 9, 4 messages, writer and timer | the two race for one buffer, none becomes full |
| `fl_full_loss` | 3 buffers of 2, 5 messages, writer and timer | the two race for a buffer that becomes full |
| `tcp_server` | 2 sessions on 2 contexts; one whose peer sends 2 messages of 2 pieces and may vanish, one that may become idle; 3 sends in all | messages come in pieces and one after another, two writes queue up on one session while broadcast and clean-up go through the table; every point of `Stop()` |
| `tcp_pipelined` | the same, peers that do not wait | the least stream with two messages in one read |
| `tcp_client` | 2 connects, one whose peer sends 2 messages of 2 pieces and one that is sent 2; receive queue of 1 | connects follow each other or overlap, the context stops before, between and after them, the queue drops a message. Two peers that send at once have more states than a run can visit; the theorem covers them |
| `services` | `url`: all texts of up to 5 of 6 symbols; `http`: 2 calls with 3 choices of URLs, 1 route stored up to twice, 2 starts; `json`: paths of length 2, 2 keys, 2 indices, 2 views; `database`: 2 wrappers, 2 columns, 2 rows | texts hold every separator twice; a route changes during a call, the server stops and starts again; arrays grow under views, objects become arrays; a query meets a write, a dropped table, and a new one with the same columns, fewer or more |

`services` has one variable `subject` that says which of its four parts moves in a
behaviour; the others keep their initial values. They share nothing, so running
them side by side would show no more.

What the safety properties say, in a word each: the queue loses what it may lose
and strands nobody; each task runs once, in order, before the pool is gone; from
`Log()` to the console nothing is missing, doubled or out of order
(`NothingMissing`, `PipelineImplementsLog`, `CompleteAtDestroy`), and a thread sleeps
only when there is nothing for it to do (`SleepsAreSafe`); the file gets what was
written, in order (`FileIntact`), and a buffer the file thread has in hand is not
changed (`PendingIsFrozen`); a server's messages reach `GetMessage` once, whole and in order
(`EndToEnd`, for peers that wait), its writes go out one at a time in order (`OneWriteInOrder`), none is
left with nobody to send it unless the socket is closed (`WriterKeepsGoing`), and
no open session is missing from the table (`TableAgrees`); a client's `RecData` gets
the messages of a connection in order, although the queue drops some, and whole when
the peer waits (`ReturnedInOrder`: one peer sends in the run, any number in the theorem,
which also says what is left of the order when peers do not wait), and an open
connection has a thread (`ServedWhileOpen`); a text is split into parts that
give it back (`UrlSplitsBack`), an HTTP answer is no older than its call
(`FreshAnswer`), a `[]` keeps what is in the document (`AccessKeepsData`), and the rows
of a query are the first ones of what it selects, each whole but in the one case of a
table with more columns (`QueryIsPrefix`). A type invariant has a part of this kind, too:
`LocksInCalls`, in `ServicesTypeOK`, says that only the exception leaves a lock behind.

`MaxPush`, `MaxCalls`, `MaxMessages`, `MaxPieces`, `MaxSends` bound what happens in a
behaviour; `NBuf`, `buffer_size_` and `QueueCapacity` stand for the code's 16, 65536 and 1024; the code does not depend on the
values, only on buffers filling and the ring wrapping (the server's queue does
not become full in these runs, the client's does). `MaxAdded`, `MaxStarts`,
`MaxDepth`, `MaxIndex`, `MaxViews` and `MaxRows` bound the services. Symmetry is
used in `tp_safety` only, which has no liveness property.

## Fairness

Weak fairness for each thread's next step: a scheduled thread goes on, a task
returns, a policy returns, 500 ms pass. Nothing obliges anyone to call a
function or to destroy an object, and no spurious wakeup is ever owed. The
TCP server is checked without fairness. In the client the detached threads are
scheduled and an operation that a thread waits for takes effect when it can; no
peer has to send. In HTTP the I/O thread is scheduled, handlers return, and a call
goes on and notices that the other end is gone; `CallsReturn` adds the condition
that from some time on the server is running, or has been destroyed. Strong
fairness is asked for in two places, both for locking a mutex that others hold
only now and then: `mutex_` of the logger, which the timer gives up for 500 ms
between flushes, and `mutex_queue_` of the file policy, which the file thread
holds for one look at the queue before it sleeps.

## What is proved

Proofs are checked by TLAPS, for all values of the constants that satisfy the
assumptions of the modules: any finite set of threads, any positive capacity,
either mode, any sessions and policies, any number of calls. Every safety property
of a passing run, invariant or action property, has its theorem. Where a
run restricts its instance to let a property hold, the theorem has the restriction
as a hypothesis, which the constants of the run satisfy:

| Hypothesis | What it says | Where the code stands |
|---|---|---|
| `SingleCaller` (`FileLogPolicyProofs`) | one thread calls the policy and destroys it | a program that owns the policy itself; with a second caller messages are lost (`fl_full_loss`) |
| `Paced` (`Session`) | a peer starts a message when the one before has been handled | request and response; otherwise pieces are dropped (`tcp_pipelined`) |
| `RoomOnPush`, `LargeInbox` (`SessionProofs`) | no push finds the queue full; it has room for all that comes | a queue of 1024 that the application empties; else the queue drops messages, as it says |
| `NobodyBlocked`, `MaxCalls <= max_task_num` (`ThreadPoolProofs`) | no `enqueue` waits for room; there is room for all calls | otherwise a worker may be left asleep (`tp_stranded_task`) |

Two assumptions are about more than the range of a constant: `TextsAssumption`, that
the JSON parser (external) delivers trees, and `WordsAssumption`, that words are not
separators.

**MessageQueue** (`MessageQueueProofs`): type correctness, `CountAgrees`,
`NoLostWakeup`, `FifoOrder`, `KeepsNewest`, `GuardedPopNeverBlocks` for one
consumer, and that the queue implements `LossyFifo`. The counter is what the
code tests and the length is what the queue has, so `CountAgrees` comes first
and everything else uses it. `NoLostWakeup` is inductive with it: a push raises
both sides by one (or wakes the last sleeper), a woken consumer that takes a
message lowers both, one that finds nothing sleeps when the left side is 0; a
consumer that was never asleep only lowers the left side. Refinement maps the
queue to the set of its numbers: by `FifoOrder` the head is the least of them.

**ThreadPool** (`ThreadPoolProofs`): type correctness, `BacklogCounted`, `Phases`,
`EachTaskOnce`, `DrainedAtDestroy`, and that the pool implements `TaskExecutor`.
`BacklogCounted` says that the queue is the run of latest numbers, so a task is
queued if and only if its number is above `accepted - Len(tasks)`; with that,
`EachTaskOnce` is inductive. `Phases` has the fact `DrainedAtDestroy` needs: the
workers have all left only if the queue is empty, since the last one looked at
it, and after the stop only workers add tasks. `SleepersCovered` needs that nobody
waits for room. Then only workers sleep, and `CoverStep` counts: a task that is
inserted brings a `notify_one` with it; that either wakes a worker or finds nobody
asleep; a worker takes a task when it looks, and goes to sleep only when there
is none. `Ample` is the invariant by which room for every call is room for each of
them: no more tasks have been accepted than calls were made.

**Logger** (`LogPipelineProofs`): type correctness and `CompleteAtDestroy`. A `Run`
is a sequence of consecutive numbers with a given last one. The logger's queue
is the run that ends with the latest message, and what a policy has been given
is the run up to `Reached(i)`, which is the message in hand, or the one before it
while the processing thread has not come to the i-th policy. `PoliciesOK` says
so, and that the run starts no later than with the first message since the
policy was added. `CompleteAtDestroy` follows with `PhasesOK`: the processing
thread leaves an empty queue, and nobody logs after the stop. `VisitsOK` has what
keeps an index of the policies in range, and that `mutex_` has one holder. A step
moves one thread (`Threading`), so each part of the invariant is kept for the thread
that moved and needs no look at the others.

**Pipeline** (`LogPipelineProofs`): `PipeTypeOK`, `NothingMissing`, `SleepsAreSafe`, and
that the logger with its console policy implements `OrderedLog`. `ConsoleInv` is
about the policy alone: printed, in hand and queued are one run of `Write()`s. `LinkInv`
joins the two halves: the policy's `Write()`s are as many as the messages the logger
has given it, or one more while the processing thread is between the push and the
notification, and it was added before the first message. Neither half knows what
the other does with its numbers; `ShownInOrder` puts them together, and
`GivenAllAtDestroy` says that none is left on the way when the policy is gone.

**FileLogPolicy** (`FileLogPolicyProofs`), with a single caller: `TypeOK`, `FileIntact` and
`PendingIsFrozen`. `HandedOnce`: the buffers in the queue and the one in the file thread's
hand are all different. `MarkedRight`: exactly these are marked as not empty, and the
one that the caller fills is none of them, except from the moment it is queued
to the moment the index moves on. So the buffer that `NextBuffer` finds has
nothing in it (`OthersEmpty`). `InOrder`: the file, the buffer in hand, those in the
queue in their order and the current one follow each other, each increasing.
`Saved`: what the file thread is about to clear is in the file. From
these, too, that the file has no gap at any moment (`FileIsPrefix`). None of the three
properties is inductive alone: that the current buffer is not a pending one is
what keeps an append from it, and that is known only because the flags are
right. The proof has a lemma for each kind of step (the caller moves, appends,
queues, marks; the file thread takes, writes, clears, rests). A second caller
breaks the third of them: it may queue what is queued already.

**Session**, write chain (`SessionProofs`): `OneWriteInOrder` and `WriterKeepsGoing`. The code
has no flag for a write in progress: `SentData` starts one if the queue was
empty, the handler of a write starts the next if the queue is not. `Chain`
states, for each session, why that is enough. `Sent`: `out` holds the first
numbers and the queue the rest, with the head in both while a write has
succeeded and its handler has not run. `Attended`: at most one write is in
progress or completed, it is that of the head of a queue that is not empty, and
only a closed socket has a queue without one. Neither property is inductive by
itself: that the next write begins with the right message needs `Sent`, that
there is only one needs to know that an empty queue has none. The lemmas follow
the events of a chain (a message is sent, a write completes, its handler runs),
each for the values of one session; `ChainElsewhere` says that the other
sessions keep theirs.

**Session**, read chain (`SessionProofs`): `ReceivedInOrder`, for peers that wait and for peers
that do not: pieces may be dropped, but what the handler is given is in the
order it was sent, without a repetition. `Ordered` says that what was given, what
is in the buffer and what is still to be read follow each other, and each is
increasing. The step of the handler needs to know that `FirstMessage` is a
beginning of the buffer, that is, that a buffer with a delimiter has a first
one; `Least` (every nonempty set of naturals has a least member) gives it.
When peers wait, `PacedInv` adds what `NothingDropped` needs: a message is not begun while
the one before is not handled, so a buffer with a delimiter holds that one message
and nothing behind it, and what `FirstMessage` gives is the whole buffer.

**Inbox** (`SessionProofs`): `ReturnedInOrder` and `EndToEnd`, for server and client alike,
because `InboxMove` describes what either does to the queue. `OriginOK`: what has been
pushed ends in a delimiter, for each session in order, none later than what its
handler has been given. `Unbroken`, for peers that wait: what is given in a step of the
handler is the message that ends there, with its first piece (`UnbrokenStep`), so what is
queued and what the application has got are whole messages. `QueueOK` and `GotOK`: the queue and what the application has
got are parts of that, with the queue behind what was popped. So order needs
neither room nor peers that wait. `Whole` is the rest, under both: the queue is all
that was pushed and not yet popped, and of each session the application and the queue
together have every message that was handled.

**TCPServer** (`TCPServerProofs`): the properties of sessions and queue in the composed
system, `TableAgrees` and `ServerTypeOK`. `ServerMoves` shows that each step of the server is a step of
one session or of none, so that the proofs for sessions are used again and not
repeated.
`TableOK` is the inductive form of `TableAgrees`: ids in the table are below the
next id (so a new one overwrites nothing), each session has its own id and the
table leads back to it, and `Broadcast`, which keeps the lock, goes through ids
that stay in the table. `StaysClosed` shows that no step opens a socket again.

**TCPClient** (`TCPClientProofs`): order of writes, reads and messages as in the server,
`ClientTypeOK` and `ServedWhileOpen`. `ClientInv` says that the open session of a connect has a read
outstanding, its own read chain being the only thing that could end it without
closing the socket. So the io_context has work, it does not stop, and the thread
that was sent into it is there. Of a session that came too late no handler ever
runs: every write that took effect waits for its handler, and with one write at
a time (`SessionProofs`) there is one at most.

**HTTP** (`ServicesProofs`): `FreshAnswer`. `RoutesOK` says that the table holds what
was stored last. `CallOK` orders what a call sees: what had been stored when it
began, what had been stored when its handler was called, and what has been stored
by now, each no older than the one before; and the route looked up is that of the
call's own method and target. The table may change between look-up and call
because nothing here depends on the handler being the same in both. `ExchangeTypeOK` has
one part that is more than a type: the I/O thread is with one request at a
time, and with none when `Stop` has returned.

**Database** (`ServicesProofs`): `QueryIsPrefix`, and `LocksInCalls`, which is a part of
`ServicesTypeOK`. A query has collected rows only while it holds a shared lock.
The lock keeps every writer from committing, so the
selection and the columns stand still while rows are collected, and each row appended
is the next one (`RowAdded`), read in the columns that were counted. A lock outside a
call belongs to a wrapper in `abandoned`, and nothing takes a wrapper out of that set. `DatabaseTypeOK` says that every row has the columns of the table.
The rows that a `DELETE` leaves are picked by a recursive function, and that they are
rows of the table is an induction, done as a search for a least counterexample
(`PickedRows`): the least number for which the function would not exist, then the
least at which it would leave the rows.

**UrlParser** (`ServicesProofs`): `EveryUrlSplitsBack`, of every text of any length. Each
`find` returns the first occurrence or none (`FoundFirst`, by the least member of a
set of positions); a cut at it loses nothing (`Pieces`, `CutAtChar`, `CutAtSeparator`), and
what precedes it holds no such character, nor does a separator begin there and
end in what is put behind it (`ProtocolEnds`). The rest is to put the pieces together in
the order in which `Spellings` does.

**JsonManager** (`ServicesProofs`): `AccessKeepsData`, from the definitions, and `JsonTypeOK`.
A document is a tree (`IsDocument`), and that is inductive by itself, but each
operation has to be shown to leave one. An assignment removes all that is strictly
below a node: whatever stays has a parent that stays, with its kind, and so do
its siblings in an array (`NotBelow`). An access adds children of one node, with every
smaller index (`ChildrenDocument`).


The types of the whole are those of the parts side by side (`ServicesTypeOK`): a step of
one part leaves the others as they are.

## What is only model-checked

- Liveness (`HeadIsTaken`, `EveryTaskRuns`, `DestructorReturns`, `WriteReturns`, `FlushReturnsOrSticks`,
  `FlushedReachesFile`, `EveryMessageShown`, `TeardownEnds`, `SentGoesOut`, `ThreadsLeave`,
  `CallsReturn`): the prover does not handle `ENABLED`, so nothing under fairness is
  proved.
- `FileLogPolicy` with a writer and the timer: the theorems have one caller, and
  what the runs check of two (`fl_timer`) is liveness.
- The three counterexamples: what the code fails to do is shown by a run.

## What disagrees with its documentation

Three runs end in a counterexample, on purpose; each quotes the line of the
repository it contradicts (see "findings" in `PROJECT.json`):

- `tp_stranded_task`: a `notify_one` meant for a worker wakes a producer
  (`ThreadPool.cpp:56`), and the task stays queued beside a sleeping worker;
- `fl_full_loss`: `Write` and `Flush` queue one buffer twice (`FileLogPolicy.cpp:39`),
  and what is appended between the file thread's write and its clear is erased;
- `tcp_pipelined`: what follows a delimiter in the read buffer is dropped
  (`Session.cpp:44`).

Others were met in the same models and are not kept as runs:

- `ThreadPool.cpp:28`: the same confusion the other way round leaves a producer
  asleep beside an empty queue.
- `Logger.cpp:19`: `AddPolicy` changes `policies_` under its readers.
- `Logger.cpp:21`: `Flush` does not cover the messages in the logger's own queue,
  though `Logger/README.md:88` calls it a flush of all logs.
- `FileLogPolicy.cpp:34`: with several buffers pending and two callers in
  `NextBuffer`, the index can pass the end of the ring, because it is read twice.
- `FileLogPolicy.cpp:60`: when it has queued the last free buffer, `Flush` spins for
  another inside `mutex_queue_`, which the file thread needs to take one from the queue.
  One caller suffices: `fl_single` reaches the state (`RingQueued` while in `Flush`).
- `FileLogPolicy.cpp:21`: the file thread may see `stop_thread_` before the last
  buffer is queued and leave without it, or miss the notification, which is sent
  without the mutex, and keep the destructor in `join`.
- `Session.cpp:168`: a session that was idle when it was collected and has become
  active since is closed all the same.
- `Session.cpp:91`: after a failed write the head of the queue stays where it is;
  the socket is closed, and every later `SentData` adds to a queue nobody empties.
- `Acceptor.cpp:44`: `Stop` destroys the contexts while the acceptor and the sessions
  refer to them; a second `Start` takes a number modulo 0 (line 22).
- `Client.cpp:27`: a connect after a connection has ended returns `true` and is deaf.
- `Client.cpp:28`: nobody waits for the detached threads before the io_context goes;
  destroying a client whose connection is open races with them.
- `Client.cpp:48`: `CloseConnection`, and with it the destructor, needs a session
  that exists only after a successful connect; so does `SendData`.
- `Server.cpp:22` (HTTPS): nothing restarts the stopped context, so a server started
  again accepts nobody; one that is stopped and kept leaves its callers hanging,
  since the acceptor stays open and a request has no time limit.
- `Request/Client.cpp:21`: TLS is chosen by the port 443, not by `https`.
- `Request/Client.cpp:87`: an error of the shutdown replaces a complete response,
  under a comment that says that such errors do not matter.
- `JSON.hpp:133`: saved through a view, the file holds `null`; `JSON/README.md:13`
  promises the whole tree. `JSON/README.md:28` also shows a constructor that does
  not exist.
- `JSON.hpp:75`: reading through `[]` of a manager that is not const replaces a node
  of another kind by an empty container.
- `JSON.hpp:30`: after a parse error `FromFile` keeps what was read so far, `FromString`
  nothing.
- `Model.cpp:50`: the columns of a query are counted before its first step. If the
  table has been made anew with fewer, a `SELECT *` throws past `sqlite3_finalize` and the
  file stays locked against writers; with more, its rows lack the last ones.
- `Router.cpp:35`: `AddRoute` changes the table of routes under its readers, and a handler
  that throws ends the program.
- `Model.cpp:51`: a query that fails after it has been prepared returns fewer rows,
  and the caller is not told.

## What is not modelled, and the plan

Every component that has code is modelled, and every safety property the runs check
is proved. To come are theorems that no run states: that the server and the
client, under `Paced` and with room, implement a channel from peers to application; that
the file policy with a single caller implements `OrderedLog`, as the console policy
does; and safety halves of liveness properties (a thread that has to move can).

Left out for good:

- the WebSocket classes, which are declared only;
- vendored SQLite and nlohmann/json, except for what the code relies on: locks,
  failing steps, nodes made by access;
- TLS, DNS and the socket layer, which appear as outcomes of a call;
- formatting of log lines, header fields and bodies, the text of SQL statements;
- `maxSessionCount_` of TCPServer, which nothing reads; a second `Start` of a running
  TCPServer; `Router::GetRoute`, `SQLiteSyntax` and the second constructor of the HTTP
  session, which nothing uses.

The induction theorems of the library take operators as parameters, which the
prover cannot instantiate. A least counterexample replaces them (`Least`,
`LeastMember`, `PickedRows`).
