------------------------------ MODULE ThreadPool ------------------------------
(* Utils::ThreadPool::ThreadPool (ThreadPool.cpp). Workers and the threads    *)
(* that call enqueue() wait on the one condition variable `condition`. Every  *)
(* critical section of task_mutex is one action; what a thread does between   *)
(* two of them (running the task, notifying after the unlock) is another.     *)
(* Tasks are numbered as they enter the queue.                                *)
EXTENDS Integers, Sequences, FiniteSets, CondVar

CONSTANTS
    Workers,
    Clients,            \* threads outside the pool that call enqueue()
    max_task_num,
    TasksMayEnqueue,    \* whether a running task may call enqueue() itself
    MaxCalls            \* bound: calls of enqueue() in a behaviour

ASSUME PoolAssumption ==
    /\ IsFiniteSet(Workers) /\ Workers # {}
    /\ IsFiniteSet(Clients) /\ Workers \cap Clients = {}
    /\ max_task_num \in Nat \ {0}
    /\ TasksMayEnqueue \in BOOLEAN
    /\ MaxCalls \in Nat

VARIABLES
    tasks,
    cur_task_num,
    stop_pool,
    waiting,     \* threads blocked in condition.wait
    pc,          \* where each thread is
    job,         \* the task a worker runs, 0 for none
    accepted,    \* tasks that entered the queue so far
    finished,    \* tasks whose function returned
    dtor,        \* the destructor: "no", "stopped", "joining", "done"
    terminated,  \* std::terminate: an exception left a worker's function
    called       \* calls of enqueue() so far

vars == <<tasks, cur_task_num, stop_pool, waiting, pc, job, accepted, finished,
          dtor, terminated, called>>

Threads == Workers \cup Clients

Init == /\ tasks = <<>>
        /\ cur_task_num = 0
        /\ stop_pool = FALSE
        /\ waiting = {}
        /\ pc = [t \in Threads |-> IF t \in Workers THEN "fetch" ELSE "idle"]
        /\ job = [w \in Workers |-> 0]
        /\ accepted = 0
        /\ finished = {}
        /\ dtor = "no"
        /\ terminated = FALSE
        /\ called = 0

Goto(t, label) == pc' = [pc EXCEPT ![t] = label]

-------------------------------------------------------------------------------
(* The worker loop. *)

TakeLast == tasks[Len(tasks)]
TakenTask == Head(tasks)

\* cur_task_num-- belongs to taking the task, not to finishing it.
Uncounted == cur_task_num - 1

Take(w) == /\ tasks # <<>>
           /\ job' = [job EXCEPT ![w] = TakenTask]
           /\ tasks' = Tail(tasks)
           /\ cur_task_num' = Uncounted
           /\ Goto(w, "running")
           /\ UNCHANGED waiting

MayExit == stop_pool /\ tasks = <<>>

Exit(w) == /\ MayExit
           /\ Goto(w, "exited")
           /\ UNCHANGED <<tasks, cur_task_num, waiting, job>>

NothingToDo == ~stop_pool /\ tasks = <<>>

Sleep(w) == /\ NothingToDo
            /\ waiting' = waiting \cup {w}
            /\ UNCHANGED <<tasks, cur_task_num, pc, job>>

Fetch(w) == /\ pc[w] = "fetch" /\ w \notin waiting
            /\ Take(w) \/ Exit(w) \/ Sleep(w)
            /\ UNCHANGED <<stop_pool, accepted, finished, dtor, terminated, called>>

\* task() returns.
Execute(w) == /\ pc[w] = "running"
              /\ finished' = finished \cup {job[w]}
              /\ job' = [job EXCEPT ![w] = 0]
              /\ Goto(w, "announce")
              /\ UNCHANGED <<tasks, cur_task_num, stop_pool, waiting, accepted,
                             dtor, terminated, called>>

\* notify_one meant for a producer that waits for room.
NotifyProducer == waiting' \in NotifyOne(waiting)

Announce(w) == /\ pc[w] = "announce"
               /\ NotifyProducer
               /\ Goto(w, "fetch")
               /\ UNCHANGED <<tasks, cur_task_num, stop_pool, job, accepted,
                              finished, dtor, terminated, called>>

-------------------------------------------------------------------------------
(* enqueue(). *)

RoomOffByOne == cur_task_num <= max_task_num
Room == cur_task_num < max_task_num

Insert(t) == /\ Room
             /\ tasks' = Append(tasks, accepted + 1)
             /\ cur_task_num' = cur_task_num + 1
             /\ accepted' = accepted + 1
             /\ Goto(t, "notify")
             /\ UNCHANGED <<waiting, terminated>>

Block(t) == /\ ~Room
            /\ waiting' = waiting \cup {t}
            /\ Goto(t, "enqueue")
            /\ UNCHANGED <<tasks, cur_task_num, accepted, terminated>>

\* "Enqueue on stopped ThreadPool": only a task can meet it (see CanCall), and
\* an exception that leaves a thread's function ends the program.
Throw(t) == /\ terminated' = TRUE
            /\ UNCHANGED <<tasks, cur_task_num, waiting, pc, accepted>>

\* README.md: no task is added while the pool is being destroyed.
CanCall(t) == \/ t \in Clients /\ pc[t] = "idle" /\ dtor = "no"
              \/ TasksMayEnqueue /\ t \in Workers /\ pc[t] = "running"

Enqueue(t) == /\ CanCall(t) /\ called < MaxCalls
              /\ called' = called + 1
              /\ \/ stop_pool /\ Throw(t)
                 \/ ~stop_pool /\ (Insert(t) \/ Block(t))
              /\ UNCHANGED <<stop_pool, job, finished, dtor>>

\* Back from condition.wait: stop_pool is not looked at again.
Resume(t) == /\ pc[t] = "enqueue" /\ t \notin waiting
             /\ Insert(t) \/ Block(t)
             /\ UNCHANGED <<stop_pool, job, finished, dtor, called>>

NotifyIfSingle == IF Len(tasks) = 1 THEN waiting' \in NotifyOne(waiting)
                                    ELSE waiting' = waiting
NotifyWorker == waiting' \in NotifyOne(waiting)

Notify(t) == /\ pc[t] = "notify"
             /\ NotifyWorker
             /\ Goto(t, IF t \in Workers THEN "running" ELSE "idle")
             /\ UNCHANGED <<tasks, cur_task_num, stop_pool, job, accepted,
                            finished, dtor, terminated, called>>

-------------------------------------------------------------------------------
(* ~ThreadPool(), run by the owner of the pool. *)

Stop == /\ dtor = "no" /\ \A t \in Clients : pc[t] = "idle"
        /\ stop_pool' = TRUE
        /\ dtor' = "stopped"
        /\ UNCHANGED <<tasks, cur_task_num, waiting, pc, job, accepted, finished,
                       terminated, called>>

WakeOne == waiting' \in NotifyOne(waiting)
WakeEveryone == waiting' \in NotifyAll(waiting)

NotifyStop == /\ dtor = "stopped"
              /\ WakeEveryone
              /\ dtor' = "joining"
              /\ UNCHANGED <<tasks, cur_task_num, stop_pool, pc, job, accepted,
                             finished, terminated, called>>

JoinedOne == \E w \in Workers : pc[w] = "exited"
Joined == \A w \in Workers : pc[w] = "exited"

Join == /\ dtor = "joining" /\ Joined
        /\ dtor' = "done"
        /\ UNCHANGED <<tasks, cur_task_num, stop_pool, waiting, pc, job, accepted,
                       finished, terminated, called>>

-------------------------------------------------------------------------------
Spurious(t) == /\ t \in waiting
               /\ waiting' = waiting \ {t}
               /\ UNCHANGED <<tasks, cur_task_num, stop_pool, pc, job, accepted,
                              finished, dtor, terminated, called>>

WorkerStep(w) == Fetch(w) \/ Execute(w) \/ Announce(w)

CallerStep(t) == Resume(t) \/ Notify(t)

DestructorStep == NotifyStop \/ Join

Next == /\ ~terminated
        /\ \/ \E w \in Workers : WorkerStep(w)
           \/ \E t \in Threads : Enqueue(t) \/ CallerStep(t) \/ Spurious(t)
           \/ Stop
           \/ DestructorStep

Spec == Init /\ [][Next]_vars

\* Threads are scheduled and tasks return; nobody has to call enqueue() or to
\* destroy the pool, and no wakeup comes unasked.
Fairness == /\ \A w \in Workers : WF_vars(~terminated /\ WorkerStep(w))
            /\ \A t \in Threads : WF_vars(~terminated /\ CallerStep(t))
            /\ WF_vars(~terminated /\ DestructorStep)

FairSpec == Spec /\ Fairness

-------------------------------------------------------------------------------
\* The variables keep their types; the backlog never exceeds max_task_num.
TypeOK ==
    /\ tasks \in Seq(Nat \ {0})
    /\ cur_task_num \in 0..max_task_num
    /\ stop_pool \in BOOLEAN /\ terminated \in BOOLEAN
    /\ waiting \subseteq Threads
    /\ pc \in [Threads -> {"idle", "fetch", "running", "announce", "exited",
                           "enqueue", "notify"}]
    /\ job \in [Workers -> Nat]
    /\ accepted \in Nat /\ called \in 0..MaxCalls
    /\ finished \subseteq Nat \ {0}
    /\ dtor \in {"no", "stopped", "joining", "done"}

\* cur_task_num, by which producers are held back, is the length of the queue,
\* and the queue is the run of latest accepted tasks, in order.
BacklogCounted ==
    /\ cur_task_num = Len(tasks)
    /\ \A i \in 1..Len(tasks) : tasks[i] = accepted - Len(tasks) + i

Busy == {w \in Workers : job[w] # 0}

\* Every accepted task is in exactly one place: queued, with one worker, or
\* finished. None is lost, run twice or forgotten by a worker that moves on.
EachTaskOnce ==
    /\ \A k \in 1..accepted :
          k \in finished \/ (\E w \in Workers : job[w] = k) \/ k > accepted - Len(tasks)
    /\ \A w \in Busy : job[w] \notin finished /\ job[w] <= accepted - Len(tasks)
    /\ \A k \in finished : k <= accepted - Len(tasks)
    /\ \A v, w \in Busy : job[v] = job[w] => v = w

\* Who may be where: a worker holds a task exactly while that task has not
\* returned; workers leave only after the stop, the last of them only with the
\* queue empty; no client is inside enqueue() after the stop.
Phases ==
    /\ \A w \in Workers :
          /\ pc[w] # "idle"
          /\ job[w] # 0 <=> pc[w] \in {"running", "enqueue", "notify"}
          /\ pc[w] = "exited" => stop_pool
    /\ \A t \in Clients : /\ pc[t] \in {"idle", "enqueue", "notify"}
                          /\ stop_pool => pc[t] = "idle"
    /\ \A t \in waiting : pc[t] \in {"fetch", "enqueue"}
    /\ stop_pool <=> dtor # "no"
    /\ (\A w \in Workers : pc[w] = "exited") => tasks = <<>>
    /\ dtor = "done" => \A w \in Workers : pc[w] = "exited"

\* When the destructor returns every accepted task has run to its end and no
\* thread of the pool is left.
DrainedAtDestroy ==
    dtor = "done" => /\ finished = 1..accepted
                     /\ \A w \in Workers : pc[w] = "exited"

\* As long as only workers sleep, each queued task has a worker or a pending
\* notify_one of its own: nothing is left behind in the queue.
Attending == {w \in Workers : pc[w] = "fetch"} \ waiting
Notifying == {t \in Threads : pc[t] = "notify"}

SleepersCovered ==
    waiting # {} /\ waiting \subseteq Workers
        => Len(tasks) <= Cardinality(Attending) + Cardinality(Notifying)

\* Every accepted task is executed.
EveryTaskRuns == \A k \in 1..MaxCalls : accepted >= k ~> (k \in finished \/ terminated)

\* ~ThreadPool() returns once it has begun.
DestructorReturns == stop_pool ~> (dtor = "done" \/ terminated)

\* The pool implements the abstract executor.
Executor == INSTANCE TaskExecutor WITH
                Backlog <- max_task_num, Parallelism <- Cardinality(Workers),
                submitted <- accepted,
                pending <- {tasks[i] : i \in 1..Len(tasks)},
                running <- {job[w] : w \in Busy},
                done <- finished, destroyed <- dtor = "done"

ImplementsExecutor == Executor!ExecSpec
===============================================================================
