--------------------------- MODULE ThreadPoolProofs ---------------------------
(* Theorems about ThreadPool for any number of workers and clients, any       *)
(* max_task_num, and with or without tasks that enqueue further tasks.        *)
EXTENDS ThreadPool, FiniteSetTheorems, SequenceTheorems, TLAPS

\* The first of a sequence, and the rest.
LEMMA TailFacts ==
    ASSUME NEW S, NEW q \in Seq(S), q # <<>>
    PROVE  /\ Head(q) \in S
           /\ Head(q) = q[1]
           /\ Len(q) \in Nat \ {0}
           /\ Tail(q) \in Seq(S)
           /\ Len(Tail(q)) = Len(q) - 1
           /\ \A i \in 1..(Len(q) - 1) : Tail(q)[i] = q[i + 1]
  BY HeadTailProperties, EmptySeq, LenProperties

\* A sequence made longer by one.
LEMMA AppendFacts ==
    ASSUME NEW S, NEW q \in Seq(S), NEW m \in S
    PROVE  /\ Append(q, m) \in Seq(S)
           /\ Append(q, m) # <<>>
           /\ Len(q) \in Nat
           /\ Len(Append(q, m)) = Len(q) + 1
           /\ \A i \in 1..Len(q) : Append(q, m)[i] = q[i]
           /\ Append(q, m)[Len(q) + 1] = m
  <1>1. /\ Append(q, m) \in Seq(S)
        /\ Len(q) \in Nat
        /\ Len(Append(q, m)) = Len(q) + 1
        /\ \A i \in 1..Len(q) : Append(q, m)[i] = q[i]
        /\ Append(q, m)[Len(q) + 1] = m
    BY AppendProperties, LenProperties
  <1> QED
    BY <1>1, EmptySeq

-------------------------------------------------------------------------------
\* What a step does to the queue, its counter and the count of accepted tasks:
\* a worker takes the head, a caller appends the next number, or nothing.
Taking(w) == /\ tasks # <<>>
             /\ tasks' = Tail(tasks)
             /\ cur_task_num' = cur_task_num - 1
             /\ accepted' = accepted
             /\ job' = [job EXCEPT ![w] = Head(tasks)]
             /\ pc' = [pc EXCEPT ![w] = "running"]
             /\ pc[w] = "fetch"
             /\ UNCHANGED <<finished, waiting, stop_pool, dtor, terminated, called>>

Inserting(t) == /\ cur_task_num < max_task_num
                /\ tasks' = Append(tasks, accepted + 1)
                /\ cur_task_num' = cur_task_num + 1
                /\ accepted' = accepted + 1
                /\ pc' = [pc EXCEPT ![t] = "notify"]
                /\ pc[t] = "enqueue" \/ CanCall(t)
                /\ t \notin waiting \/ CanCall(t)
                /\ called' \in {called, called + 1}
                /\ called' # called => called < MaxCalls
                /\ UNCHANGED <<job, finished, waiting, stop_pool, dtor, terminated>>

QueueStill == UNCHANGED <<tasks, cur_task_num, accepted>>

\* A step takes a task, inserts one, or leaves the queue alone.
LEMMA StepKinds ==
    ASSUME [Next]_vars, MaxCalls \in Nat, called \in Nat
    PROVE  \/ \E w \in Workers : Taking(w)
           \/ \E t \in Threads : Inserting(t)
           \/ QueueStill
  <1>1. ASSUME NEW w \in Workers, Fetch(w)
        PROVE  Taking(w) \/ QueueStill
    BY <1>1 DEF Fetch, Take, TakenTask, Uncounted, Goto, Exit, Sleep, Taking, QueueStill
  <1>2. ASSUME NEW w \in Workers, Execute(w) \/ Announce(w)
        PROVE  QueueStill
    BY <1>2 DEF Execute, Announce, QueueStill
  <1>3. ASSUME NEW t \in Threads, Enqueue(t)
        PROVE  Inserting(t) \/ QueueStill
    BY <1>3 DEF Enqueue, Insert, Block, Throw, Room, Goto, Inserting, QueueStill
  <1>4. ASSUME NEW t \in Threads, Resume(t)
        PROVE  Inserting(t) \/ QueueStill
    BY <1>4 DEF Resume, Insert, Block, Room, Goto, Inserting, QueueStill
  <1>5. ASSUME NEW t \in Threads, Notify(t) \/ Spurious(t)
        PROVE  QueueStill
    BY <1>5 DEF Notify, Spurious, QueueStill
  <1>6. CASE Stop \/ DestructorStep
    BY <1>6 DEF Stop, DestructorStep, NotifyStop, Join, QueueStill
  <1>7. CASE UNCHANGED vars
    BY <1>7 DEF vars, QueueStill
  <1>8. ASSUME NEW w \in Workers, WorkerStep(w)
        PROVE  Taking(w) \/ QueueStill
    BY <1>1, <1>2, <1>8 DEF WorkerStep
  <1>9. ASSUME NEW t \in Threads, Enqueue(t) \/ CallerStep(t) \/ Spurious(t)
        PROVE  Inserting(t) \/ QueueStill
    BY <1>3, <1>4, <1>5, <1>9 DEF CallerStep
  <1> QED
    BY <1>6, <1>7, <1>8, <1>9 DEF Next

-------------------------------------------------------------------------------
\* A new pool has its types and an empty queue.
LEMMA TypedInit == Init => TypeOK /\ BacklogCounted
  <1> SUFFICES ASSUME Init PROVE TypeOK /\ BacklogCounted
    OBVIOUS
  <1>1. tasks = <<>> /\ <<>> \in Seq(Nat \ {0}) /\ Len(<<>>) = 0
    BY EmptySeq DEF Init
  <1>2. pc \in [Threads -> {"idle", "fetch", "running", "announce", "exited",
                             "enqueue", "notify"}]
    BY DEF Init
  <1>3. TypeOK
    <2>1. /\ 0 \in 0..max_task_num /\ 0 \in 0..MaxCalls
          /\ job \in [Workers -> Nat]
      BY PoolAssumption DEF Init, PoolAssumption
    <2> QED
      BY <1>1, <1>2, <2>1 DEF Init, TypeOK
  <1>4. BacklogCounted
    BY <1>1 DEF Init, BacklogCounted
  <1> QED
    BY <1>3, <1>4

\* Every step keeps the counter and the numbers of the queue.
LEMMA CountedStep == TypeOK /\ BacklogCounted /\ [Next]_vars => BacklogCounted'
  <1> SUFFICES ASSUME TypeOK, BacklogCounted, [Next]_vars
               PROVE  BacklogCounted'
    OBVIOUS
  <1>t. /\ tasks \in Seq(Nat \ {0}) /\ Len(tasks) \in Nat
        /\ accepted \in Nat /\ cur_task_num \in Nat /\ called \in Nat
        /\ \A i \in 1..Len(tasks) : tasks[i] = accepted - Len(tasks) + i
    BY PoolAssumption, LenProperties DEF PoolAssumption, TypeOK, BacklogCounted
  <1>1. ASSUME NEW w \in Workers, Taking(w)
        PROVE  BacklogCounted'
    <2>1. /\ Len(tasks') = Len(tasks) - 1
          /\ \A i \in 1..(Len(tasks) - 1) : tasks'[i] = tasks[i + 1]
      BY <1>1, <1>t, TailFacts DEF Taking
    <2>2. ASSUME NEW i \in 1..Len(tasks')
          PROVE  tasks'[i] = accepted' - Len(tasks') + i
      <3>1. tasks'[i] = tasks[i + 1] /\ i + 1 \in 1..Len(tasks)
        BY <1>t, <2>1
      <3> QED
        BY <1>1, <1>t, <2>1, <3>1 DEF Taking
    <2> QED
      BY <1>1, <1>t, <2>1, <2>2 DEF Taking, BacklogCounted
  <1>2. ASSUME NEW t \in Threads, Inserting(t)
        PROVE  BacklogCounted'
    <2>1. /\ Len(tasks') = Len(tasks) + 1
          /\ \A i \in 1..Len(tasks) : tasks'[i] = tasks[i]
          /\ tasks'[Len(tasks) + 1] = accepted + 1
      BY <1>2, <1>t, AppendFacts DEF Inserting
    <2>2. ASSUME NEW i \in 1..Len(tasks')
          PROVE  tasks'[i] = accepted' - Len(tasks') + i
      <3>1. CASE i = Len(tasks) + 1
        BY <1>2, <1>t, <2>1, <3>1 DEF Inserting
      <3>2. CASE i # Len(tasks) + 1
        <4>1. i \in 1..Len(tasks) /\ tasks'[i] = tasks[i]
          BY <1>t, <2>1, <3>2
        <4> QED
          BY <1>2, <1>t, <2>1, <4>1 DEF Inserting
      <3> QED
        BY <3>1, <3>2
    <2> QED
      BY <1>2, <1>t, <2>1, <2>2 DEF Inserting, BacklogCounted
  <1>3. CASE QueueStill
    BY <1>3 DEF QueueStill, BacklogCounted
  <1> QED
    BY <1>1, <1>2, <1>3, <1>t, PoolAssumption, StepKinds DEF PoolAssumption

\* Every step keeps the types.
LEMMA TypedStep == TypeOK /\ BacklogCounted /\ Phases /\ [Next]_vars => TypeOK'
  <1> SUFFICES ASSUME TypeOK, BacklogCounted, Phases, [Next]_vars
               PROVE  TypeOK'
    OBVIOUS
  <1> USE PoolAssumption DEF PoolAssumption, Threads
  <1>w. waiting' \in NotifyOne(waiting) \/ waiting' \in NotifyAll(waiting)
            => waiting' \subseteq waiting
    BY DEF NotifyOne, NotifyAll
  <1>i. ASSUME NEW t \in Threads, Insert(t)
        PROVE  /\ tasks' \in Seq(Nat \ {0})
               /\ cur_task_num' \in 0..max_task_num
               /\ accepted' \in Nat
    <2>1. accepted + 1 \in Nat \ {0}
      BY DEF TypeOK
    <2> QED
      BY <1>i, <2>1, AppendFacts DEF Insert, Room, TypeOK
  <1>1. ASSUME NEW w \in Workers, Fetch(w), Take(w)
        PROVE  TypeOK'
    <2>1. /\ tasks' \in Seq(Nat \ {0})
          /\ Head(tasks) \in Nat
          /\ Len(tasks) > 0
      BY <1>1, TailFacts DEF Take, TypeOK
    <2>2. cur_task_num - 1 \in 0..max_task_num
      BY <2>1 DEF TypeOK, BacklogCounted
    <2> QED
      BY <1>1, <2>1, <2>2 DEF Fetch, Take, TakenTask, Uncounted, Goto, TypeOK
  <1>2. ASSUME NEW w \in Workers, Fetch(w), Exit(w) \/ Sleep(w)
        PROVE  TypeOK'
    BY <1>2 DEF Fetch, Exit, Sleep, Goto, TypeOK
  <1>3. ASSUME NEW w \in Workers, Execute(w)
        PROVE  TypeOK'
    <2>1. job[w] \in Nat \ {0}
      BY <1>3 DEF Execute, Phases, TypeOK
    <2> QED
      BY <1>3, <2>1 DEF Execute, Goto, TypeOK
  <1>4. ASSUME NEW w \in Workers, Announce(w)
        PROVE  TypeOK'
    BY <1>4, <1>w DEF Announce, NotifyProducer, Goto, TypeOK
  <1>5. ASSUME NEW t \in Threads, Enqueue(t)
        PROVE  TypeOK'
    <2>1. called' \in 0..MaxCalls
      BY <1>5 DEF Enqueue, TypeOK
    <2>2. CASE Insert(t)
      BY <1>5, <1>i, <2>1, <2>2 DEF Enqueue, Insert, Goto, TypeOK
    <2>3. CASE Block(t) \/ Throw(t)
      BY <1>5, <2>1, <2>3 DEF Enqueue, Block, Throw, Goto, TypeOK
    <2> QED
      BY <1>5, <2>2, <2>3 DEF Enqueue
  <1>6. ASSUME NEW t \in Threads, Resume(t)
        PROVE  TypeOK'
    <2>1. CASE Insert(t)
      BY <1>6, <1>i, <2>1 DEF Resume, Insert, Goto, TypeOK
    <2>2. CASE Block(t)
      BY <1>6, <2>2 DEF Resume, Block, Goto, TypeOK
    <2> QED
      BY <1>6, <2>1, <2>2 DEF Resume
  <1>7. ASSUME NEW t \in Threads, Notify(t)
        PROVE  TypeOK'
    BY <1>7, <1>w DEF Notify, NotifyWorker, Goto, TypeOK
  <1>8. ASSUME NEW t \in Threads, Spurious(t)
        PROVE  TypeOK'
    BY <1>8 DEF Spurious, TypeOK
  <1>9. CASE Stop \/ DestructorStep
    BY <1>9, <1>w DEF Stop, DestructorStep, NotifyStop, WakeEveryone, Join, TypeOK
  <1>10. CASE UNCHANGED vars
    BY <1>10 DEF vars, TypeOK
  <1>11. ASSUME NEW w \in Workers, WorkerStep(w)
         PROVE  TypeOK'
    BY <1>1, <1>2, <1>3, <1>4, <1>11 DEF WorkerStep, Fetch
  <1>12. ASSUME NEW t \in Threads, Enqueue(t) \/ CallerStep(t) \/ Spurious(t)
         PROVE  TypeOK'
    BY <1>5, <1>6, <1>7, <1>8, <1>12 DEF CallerStep
  <1> QED
    BY <1>9, <1>10, <1>11, <1>12 DEF Next

-------------------------------------------------------------------------------
\* At first no worker has left.
LEMMA PhasesInit == Init => Phases
  BY PoolAssumption DEF Init, Phases, PoolAssumption, Threads

\* Every step keeps what stopping and leaving depend on.
LEMMA PhasesStep == TypeOK /\ BacklogCounted /\ Phases /\ [Next]_vars => Phases'
  <1> SUFFICES ASSUME TypeOK, BacklogCounted, Phases, [Next]_vars
               PROVE  Phases'
    OBVIOUS
  <1> USE PoolAssumption DEF PoolAssumption, Threads
  <1>w. waiting' \in NotifyOne(waiting) \/ waiting' \in NotifyAll(waiting)
            => waiting' \subseteq waiting
    BY DEF NotifyOne, NotifyAll
  <1>1. ASSUME NEW w \in Workers, Fetch(w), Take(w)
        PROVE  Phases'
    <2>1. Head(tasks) # 0
      BY <1>1, TailFacts DEF Take, TypeOK
    <2> QED
      BY <1>1, <2>1 DEF Fetch, Take, TakenTask, Goto, Phases, TypeOK
  <1>2. ASSUME NEW w \in Workers, Fetch(w), Exit(w) \/ Sleep(w)
        PROVE  Phases'
    BY <1>2 DEF Fetch, Exit, MayExit, Sleep, Goto, Phases, TypeOK
  <1>3. ASSUME NEW w \in Workers, Execute(w)
        PROVE  Phases'
    BY <1>3 DEF Execute, Goto, Phases, TypeOK
  <1>4. ASSUME NEW w \in Workers, Announce(w)
        PROVE  Phases'
    BY <1>4, <1>w DEF Announce, NotifyProducer, Goto, Phases, TypeOK
  <1>5. ASSUME NEW t \in Threads, Enqueue(t)
        PROVE  Phases'
    BY <1>5 DEF Enqueue, CanCall, Insert, Block, Throw, Goto, Phases, TypeOK
  <1>6. ASSUME NEW t \in Threads, Resume(t)
        PROVE  Phases'
    BY <1>6 DEF Resume, Insert, Block, Goto, Phases, TypeOK
  <1>7. ASSUME NEW t \in Threads, Notify(t)
        PROVE  Phases'
    BY <1>7, <1>w DEF Notify, NotifyWorker, Goto, Phases, TypeOK
  <1>8. ASSUME NEW t \in Threads, Spurious(t)
        PROVE  Phases'
    BY <1>8 DEF Spurious, Phases
  <1>9. CASE Stop \/ DestructorStep
    BY <1>9, <1>w DEF Stop, DestructorStep, NotifyStop, WakeEveryone, Join, Joined,
                      Phases, TypeOK
  <1>10. CASE UNCHANGED vars
    BY <1>10 DEF vars, Phases
  <1>11. ASSUME NEW w \in Workers, WorkerStep(w)
         PROVE  Phases'
    BY <1>1, <1>2, <1>3, <1>4, <1>11 DEF WorkerStep, Fetch
  <1>12. ASSUME NEW t \in Threads, Enqueue(t) \/ CallerStep(t) \/ Spurious(t)
         PROVE  Phases'
    BY <1>5, <1>6, <1>7, <1>8, <1>12 DEF CallerStep
  <1> QED
    BY <1>9, <1>10, <1>11, <1>12 DEF Next

\* Every variable keeps its type and at most max_task_num tasks are queued.
THEOREM TypeCorrect == Spec => []TypeOK
  BY TypedInit, PhasesInit, TypedStep, CountedStep, PhasesStep, PTL DEF Spec

\* cur_task_num is the length of the queue, which holds the tasks accepted last
\* in the order of their acceptance.
THEOREM BacklogCorrect == Spec => []BacklogCounted
  BY TypedInit, PhasesInit, TypedStep, CountedStep, PhasesStep, PTL DEF Spec

\* Workers, clients and destructor stay in the phases that make the shutdown
\* drain the queue; in particular the last worker leaves an empty queue.
THEOREM PhasesKept == Spec => []Phases
  BY TypedInit, PhasesInit, TypedStep, CountedStep, PhasesStep, PTL DEF Spec

-------------------------------------------------------------------------------
PoolInv == TypeOK /\ BacklogCounted /\ Phases

\* The first number still queued is one more than the last one taken.
LEMMA HeadNumber ==
    ASSUME TypeOK, BacklogCounted, tasks # <<>>
    PROVE  /\ Head(tasks) = accepted - Len(tasks) + 1
           /\ Len(tasks) \in Nat \ {0}
           /\ Len(Tail(tasks)) = Len(tasks) - 1
  <1>1. /\ Head(tasks) = tasks[1]
        /\ Len(tasks) \in Nat \ {0}
        /\ Len(Tail(tasks)) = Len(tasks) - 1
    BY TailFacts DEF TypeOK
  <1>2. 1 \in 1..Len(tasks)
    BY <1>1
  <1> QED
    BY <1>1, <1>2 DEF BacklogCounted, TypeOK

\* Every step keeps each accepted task in one place.
LEMMA OnceStep == PoolInv /\ EachTaskOnce /\ [Next]_vars => EachTaskOnce'
  <1> SUFFICES ASSUME PoolInv, EachTaskOnce, [Next]_vars
               PROVE  EachTaskOnce'
    OBVIOUS
  <1> USE PoolAssumption DEF PoolAssumption, PoolInv
  <1>t. /\ Len(tasks) \in Nat /\ accepted \in Nat
        /\ job \in [Workers -> Nat] /\ finished \subseteq Nat \ {0}
    BY LenProperties DEF TypeOK
  <1>1. ASSUME NEW w \in Workers, Fetch(w), Take(w)
        PROVE  EachTaskOnce'
    <2> DEFINE first == accepted - Len(tasks) + 1
    <2>1. /\ Head(tasks) = first /\ first \in Int
          /\ Len(tasks) \in Nat \ {0}
          /\ Len(tasks') = Len(tasks) - 1
          /\ Head(tasks) \in Nat \ {0}
      BY <1>1, HeadNumber, TailFacts DEF Take, TypeOK
    <2>2. /\ accepted' = accepted /\ finished' = finished
          /\ job' = [job EXCEPT ![w] = first]
          /\ accepted' - Len(tasks') = first
      <3>1. /\ accepted' = accepted /\ finished' = finished
            /\ job' = [job EXCEPT ![w] = Head(tasks)]
        BY <1>1 DEF Fetch, Take, TakenTask
      <3>2. accepted - (Len(tasks) - 1) = first
        BY <1>t, <2>1
      <3> QED
        BY <2>1, <3>1, <3>2
    <2>3. job[w] = 0
      BY <1>1 DEF Fetch, Phases
    <2>4. /\ \A v \in Busy : job[v] < first
          /\ \A k \in finished : k < first
      BY <1>t, <2>1 DEF EachTaskOnce, Busy
    <2>5. \A v \in Busy' : v = w \/ (v \in Busy /\ job'[v] = job[v])
      BY <1>t, <2>2 DEF Busy
    <2>6. job'[w] = first
      BY <1>t, <2>2
    <2>7. \A k \in 1..accepted' :
             k \in finished' \/ (\E v \in Workers : job'[v] = k) \/ k > first
      <3> SUFFICES ASSUME NEW k \in 1..accepted, ~(k > first)
                   PROVE  k \in finished \/ (\E v \in Workers : job'[v] = k)
        BY <2>2
      <3>1. CASE k = first
        BY <2>6, <3>1
      <3>2. CASE k # first
        <4>1. ~(k > accepted - Len(tasks))
          BY <1>t, <2>1, <3>2
        <4>2. k \in finished \/ (\E v \in Workers : job[v] = k)
          BY <4>1 DEF EachTaskOnce
        <4> QED
          BY <1>t, <2>2, <2>3, <4>2
      <3> QED
        BY <3>1, <3>2
    <2>8. ASSUME NEW v \in Busy'
          PROVE  job'[v] \notin finished' /\ job'[v] <= first
      <3>1. CASE v = w
        <4>1. first \notin finished
          BY <2>1, <2>4
        <4> QED
          BY <2>1, <2>2, <2>6, <3>1, <4>1
      <3>2. CASE v # w
        <4>1. v \in Busy /\ job'[v] = job[v] /\ job[v] \in Nat
          BY <1>t, <2>5, <3>2 DEF Busy
        <4> QED
          BY <2>1, <2>2, <2>4, <4>1 DEF EachTaskOnce
      <3> QED
        BY <3>1, <3>2
    <2>9. \A u, v \in Busy' : job'[u] = job'[v] => u = v
      BY <1>t, <2>1, <2>4, <2>5, <2>6 DEF EachTaskOnce
    <2>10. \A k \in finished' : k <= first
      BY <1>t, <2>1, <2>2, <2>4
    <2> HIDE DEF first
    <2> QED
      BY <2>2, <2>7, <2>8, <2>9, <2>10 DEF EachTaskOnce
  <1>2. ASSUME NEW w \in Workers, Execute(w)
        PROVE  EachTaskOnce'
    <2>1. /\ tasks' = tasks /\ accepted' = accepted
          /\ finished' = finished \cup {job[w]}
          /\ job' = [job EXCEPT ![w] = 0]
          /\ w \in Busy
      BY <1>2 DEF Execute, Phases, Busy
    <2>2. Busy' = Busy \ {w} /\ \A v \in Busy' : job'[v] = job[v]
      BY <1>t, <2>1 DEF Busy
    <2>3. \A k \in 1..accepted' :
             k \in finished' \/ (\E v \in Workers : job'[v] = k)
                 \/ k > accepted' - Len(tasks')
      <3> SUFFICES ASSUME NEW k \in 1..accepted, ~(k > accepted - Len(tasks)),
                          k \notin finished'
                   PROVE  \E v \in Workers : job'[v] = k
        BY <2>1
      <3>1. k \notin finished /\ k # job[w]
        BY <2>1
      <3>2. PICK v \in Workers : job[v] = k
        BY <3>1 DEF EachTaskOnce
      <3> QED
        BY <1>t, <2>1, <3>1, <3>2
    <2> QED
      BY <1>t, <2>1, <2>2, <2>3 DEF EachTaskOnce
  <1>3. ASSUME NEW t \in Threads, Inserting(t)
        PROVE  EachTaskOnce'
    <2>1. /\ job' = job /\ finished' = finished
          /\ accepted' = accepted + 1
          /\ Len(tasks') = Len(tasks) + 1
      BY <1>3, <1>t, AppendFacts DEF Inserting, TypeOK
    <2>2. /\ accepted' - Len(tasks') = accepted - Len(tasks)
          /\ Busy' = Busy
          /\ accepted + 1 > accepted - Len(tasks)
      BY <1>t, <2>1 DEF Busy
    <2>3. \A k \in 1..accepted' : k \in 1..accepted \/ k = accepted + 1
      BY <1>t, <2>1
    <2> QED
      BY <2>1, <2>2, <2>3 DEF EachTaskOnce
  <1>4. CASE UNCHANGED <<tasks, accepted, job, finished>>
    BY <1>4 DEF EachTaskOnce, Busy
  <1>5. ASSUME NEW w \in Workers, WorkerStep(w)
        PROVE  EachTaskOnce'
    BY <1>1, <1>2, <1>4, <1>5 DEF WorkerStep, Fetch, Exit, Sleep, Announce
  <1>6. ASSUME NEW t \in Threads, Enqueue(t) \/ CallerStep(t) \/ Spurious(t)
        PROVE  EachTaskOnce'
    <2>1. CASE Enqueue(t) \/ Resume(t)
      <3>1. CASE Insert(t)
        BY <1>3, <2>1, <3>1
           DEF Enqueue, Resume, Insert, Inserting, Room, Goto, TypeOK
      <3>2. CASE ~Insert(t)
        BY <1>4, <2>1, <3>2 DEF Enqueue, Resume, Block, Throw
      <3> QED
        BY <3>1, <3>2
    <2>2. CASE Notify(t) \/ Spurious(t)
      BY <1>4, <2>2 DEF Notify, Spurious
    <2> QED
      BY <1>6, <2>1, <2>2 DEF CallerStep
  <1> QED
    BY <1>4, <1>5, <1>6 DEF Next, vars, Stop, DestructorStep, NotifyStop, Join

\* No task has been accepted at first.
LEMMA OnceInit == Init => EachTaskOnce
  BY DEF Init, EachTaskOnce, Busy

\* No accepted task is lost, duplicated, or run twice.
THEOREM TasksConserved == Spec => []EachTaskOnce
  BY TypedInit, PhasesInit, OnceInit, TypedStep, CountedStep, PhasesStep, OnceStep,
     PTL DEF Spec, PoolInv

\* A pool whose workers have all left has executed everything it accepted.
LEMMA LastOneOut ==
    ASSUME PoolInv, EachTaskOnce, \A w \in Workers : pc[w] = "exited"
    PROVE  tasks = <<>> /\ Busy = {} /\ finished = 1..accepted
  <1>1. /\ \A w \in Workers : job[w] = 0
        /\ tasks = <<>>
    BY DEF PoolInv, Phases
  <1>2. Len(tasks) = 0 /\ accepted \in Nat /\ finished \subseteq Nat \ {0}
    BY <1>1, EmptySeq DEF PoolInv, TypeOK
  <1>3. \A k \in 1..accepted : k \in finished
    BY <1>1, <1>2 DEF EachTaskOnce
  <1>4. \A k \in finished : k \in 1..accepted
    BY <1>2 DEF EachTaskOnce
  <1> QED
    BY <1>1, <1>3, <1>4 DEF Busy

\* A pool whose workers have all left has run everything.
LEMMA Drained == PoolInv /\ EachTaskOnce => DrainedAtDestroy
  BY LastOneOut DEF PoolInv, Phases, DrainedAtDestroy

\* Once ~ThreadPool() has returned, every task the pool ever accepted has been
\* executed, those that tasks themselves enqueued included.
THEOREM DestroyDrains == Spec => []DrainedAtDestroy
  BY TypedInit, PhasesInit, OnceInit, TypedStep, CountedStep, PhasesStep, OnceStep,
     Drained, PTL DEF Spec, PoolInv

-------------------------------------------------------------------------------
\* The abstract view: queued tasks are an interval of numbers, running ones are
\* those some worker holds.
Pending == {tasks[i] : i \in 1..Len(tasks)}
Running == {job[w] : w \in Busy}

\* The abstract module counts as this one does.
LEMMA SameCardinality == \A S : Executor!Cardinality(S) = Cardinality(S)
  BY DEF Executor!Cardinality, Cardinality

\* A run of numbers as an interval, and its size.
LEMMA QueueInterval ==
    ASSUME NEW q \in Seq(Nat \ {0}), NEW n \in Nat,
           \A i \in 1..Len(q) : q[i] = n - Len(q) + i
    PROVE  /\ {q[i] : i \in 1..Len(q)} = (n - Len(q) + 1)..n
           /\ Cardinality({q[i] : i \in 1..Len(q)}) = Len(q)
           /\ Len(q) \in Nat
  <1>1. Len(q) \in Nat
    BY LenProperties
  <1> DEFINE low == n - Len(q) + 1
  <1>2. \A k \in low..n :
            k - n + Len(q) \in 1..Len(q) /\ q[k - n + Len(q)] = k
    BY <1>1
  <1>3. \A i \in 1..Len(q) : q[i] \in low..n
    BY <1>1
  <1>4. {q[i] : i \in 1..Len(q)} = low..n
    BY <1>2, <1>3
  <1>5. Cardinality(low..n) = Len(q)
    <2>1. low \in Int /\ n \in Int
      BY <1>1
    <2>2. (IF low > n THEN 0 ELSE n - low + 1) = Len(q)
      BY <1>1
    <2> HIDE DEF low
    <2> QED
      BY <2>1, <2>2, FS_Interval
  <1> QED
    BY <1>1, <1>4, <1>5

\* What is queued is the interval of latest numbers,
LEMMA PendingInterval ==
    ASSUME TypeOK, BacklogCounted
    PROVE  /\ Pending = (accepted - Len(tasks) + 1)..accepted
           /\ Cardinality(Pending) = Len(tasks)
           /\ Len(tasks) \in Nat /\ accepted \in Nat
  <1>1. /\ tasks \in Seq(Nat \ {0}) /\ accepted \in Nat
        /\ \A i \in 1..Len(tasks) : tasks[i] = accepted - Len(tasks) + i
    BY DEF TypeOK, BacklogCounted
  <1> QED
    BY <1>1, QueueInterval DEF Pending

\* after a step as before it.
LEMMA PendingIntervalNext ==
    ASSUME TypeOK', BacklogCounted'
    PROVE  Pending' = (accepted' - Len(tasks') + 1)..accepted'
  <1>1. /\ tasks' \in Seq(Nat \ {0}) /\ accepted' \in Nat
        /\ \A i \in 1..Len(tasks') : tasks'[i] = accepted' - Len(tasks') + i
    BY DEF TypeOK, BacklogCounted
  <1> QED
    BY <1>1, QueueInterval DEF Pending

\* A worker that holds no task leaves room for another running one.
LEMMA IdleWorkerHelps ==
    ASSUME TypeOK, NEW w \in Workers, job[w] = 0
    PROVE  Cardinality(Running) < Cardinality(Workers)
  <1> DEFINE f == [v \in Busy |-> job[v]]
  <1>1. f \in Surjection(Busy, Running)
    BY DEF Surjection, Running
  <1>2. Busy \subseteq Workers \ {w}
    BY DEF Busy
  <1>3. /\ IsFiniteSet(Workers) /\ Cardinality(Workers) \in Nat
        /\ IsFiniteSet(Workers \ {w})
        /\ Cardinality(Workers \ {w}) = Cardinality(Workers) - 1
    BY PoolAssumption, FS_CardinalityType, FS_RemoveElement DEF PoolAssumption
  <1>4. IsFiniteSet(Busy) /\ Cardinality(Busy) <= Cardinality(Workers) - 1
    BY <1>2, <1>3, FS_Subset
  <1>5. IsFiniteSet(Running) /\ Cardinality(Running) <= Cardinality(Busy)
    <2> HIDE DEF f
    <2> QED
      BY <1>1, <1>4, FS_Surjection
  <1>6. Cardinality(Running) \in Nat /\ Cardinality(Busy) \in Nat
    BY <1>4, <1>5, FS_CardinalityType
  <1> QED
    BY <1>3, <1>4, <1>5, <1>6

\* Each kind of step of the pool is a step of the executor, or none.
ExecStep == [Executor!Submit \/ Executor!Start \/ Executor!Finish \/ Executor!Destroy
            ]_(Executor!execVars)

\* A task that is inserted is submitted.
LEMMA SimulateInsert ==
    ASSUME PoolInv, PoolInv', NEW t \in Threads, Inserting(t)
    PROVE  Executor!Submit
  <1> USE DEF PoolInv
  <1>1. /\ Pending = (accepted - Len(tasks) + 1)..accepted
        /\ Cardinality(Pending) = Len(tasks)
        /\ Len(tasks) \in Nat /\ accepted \in Nat
    BY PendingInterval
  <1>2. Pending' = (accepted' - Len(tasks') + 1)..accepted'
    BY PendingIntervalNext
  <1>3. accepted' = accepted + 1 /\ Len(tasks') = Len(tasks) + 1
    BY <1>1, AppendFacts DEF Inserting, TypeOK
  <1>4. Pending' = Pending \cup {accepted'}
    BY <1>1, <1>2, <1>3
  <1>5. Cardinality(Pending) < max_task_num
    BY <1>1 DEF Inserting, BacklogCounted
  <1>6. dtor' = dtor /\ dtor # "done"
    BY PoolAssumption DEF Inserting, CanCall, Phases, PoolAssumption, Threads
  <1>7. job' = job /\ finished' = finished
    BY DEF Inserting
  <1> QED
    BY <1>3, <1>4, <1>5, <1>6, <1>7, SameCardinality
       DEF Executor!Submit, Pending, Busy

\* A task that is taken is started.
LEMMA SimulateTake ==
    ASSUME PoolInv, PoolInv', NEW w \in Workers, Fetch(w), Take(w)
    PROVE  Executor!Start
  <1> USE DEF PoolInv
  <1>1. /\ Pending = (accepted - Len(tasks) + 1)..accepted
        /\ Len(tasks) \in Nat /\ accepted \in Nat
    BY PendingInterval
  <1>2. Pending' = (accepted' - Len(tasks') + 1)..accepted'
    BY PendingIntervalNext
  <1> DEFINE k == Head(tasks)
  <1>3. /\ tasks # <<>> /\ accepted' = accepted /\ finished' = finished /\ dtor' = dtor
        /\ tasks' = Tail(tasks)
        /\ job' = [job EXCEPT ![w] = k]
    BY DEF Fetch, Take, TakenTask
  <1>4. /\ k = accepted - Len(tasks) + 1
        /\ Len(tasks) \in Nat \ {0} /\ Len(tasks') = Len(tasks) - 1
        /\ k \in Nat \ {0}
    BY <1>3, HeadNumber, TailFacts DEF TypeOK
  <1> HIDE DEF k
  <1>5. /\ k \in Pending /\ \A other \in Pending : k <= other
        /\ Pending' = Pending \ {k}
    <2>1. Pending = k..accepted /\ k <= accepted
      BY <1>1, <1>4
    <2>2. accepted - (Len(tasks) - 1) + 1 = k + 1
      BY <1>1, <1>4
    <2>3. Pending' = (k + 1)..accepted
      BY <1>2, <1>3, <1>4, <2>2
    <2> QED
      BY <1>1, <1>4, <2>1, <2>3
  <1>6. job[w] = 0 /\ job \in [Workers -> Nat]
    BY DEF Fetch, Phases, TypeOK
  <1>7. Running' = Running \cup {k}
    BY <1>3, <1>4, <1>6 DEF Running, Busy
  <1>8. Cardinality(Running) < Cardinality(Workers)
    BY <1>6, IdleWorkerHelps
  <1> QED
    BY <1>3, <1>5, <1>7, <1>8, SameCardinality DEF Executor!Start, Pending, Running

\* A task that returns is finished.
LEMMA SimulateExecute ==
    ASSUME PoolInv, EachTaskOnce, NEW w \in Workers, Execute(w)
    PROVE  Executor!Finish
  <1> USE DEF PoolInv
  <1>1. /\ w \in Busy
        /\ finished' = finished \cup {job[w]}
        /\ job' = [job EXCEPT ![w] = 0]
        /\ UNCHANGED <<tasks, accepted, dtor>>
    BY DEF Execute, Phases, Busy
  <1>2. job \in [Workers -> Nat]
    BY DEF TypeOK
  <1>3. Busy' = Busy \ {w} /\ \A v \in Busy' : job'[v] = job[v]
    BY <1>1, <1>2 DEF Busy
  <1>4. job[w] \in Running /\ Running' = Running \ {job[w]}
    BY <1>1, <1>3 DEF Running, EachTaskOnce
  <1> QED
    BY <1>1, <1>4 DEF Executor!Finish, Running

\* The end of the destructor is the end of the executor.
LEMMA SimulateJoin ==
    ASSUME PoolInv, EachTaskOnce, Join
    PROVE  Executor!Destroy
  <1>1. tasks = <<>> /\ Busy = {} /\ finished = 1..accepted
    BY LastOneOut DEF Join, Joined
  <1>2. dtor' = "done" /\ UNCHANGED <<tasks, accepted, job, finished>>
    BY DEF Join
  <1>3. Pending = {} /\ Running = {}
    BY <1>1, EmptySeq DEF Pending, Running
  <1> QED
    BY <1>1, <1>2, <1>3 DEF Executor!Destroy, Pending, Running, Busy

\* Every step of the pool is one of the executor, or none.
LEMMA ExecutorSimulation ==
    ASSUME PoolInv, EachTaskOnce, PoolInv', [Next]_vars
    PROVE  ExecStep
  <1>s. ASSUME UNCHANGED <<tasks, accepted, job, finished, dtor>>
        PROVE  UNCHANGED Executor!execVars
    BY <1>s DEF Executor!execVars, Busy
  <1>1. ASSUME NEW w \in Workers, WorkerStep(w)
        PROVE  ExecStep
    <2>1. CASE Fetch(w)
      <3>1. CASE Take(w)
        BY <2>1, <3>1, SimulateTake DEF ExecStep
      <3>2. CASE Exit(w) \/ Sleep(w)
        BY <1>s, <2>1, <3>2 DEF Fetch, Exit, Sleep, ExecStep
      <3> QED
        BY <2>1, <3>1, <3>2 DEF Fetch
    <2>2. CASE Execute(w)
      BY <2>2, SimulateExecute DEF ExecStep
    <2>3. CASE Announce(w)
      BY <1>s, <2>3 DEF Announce, ExecStep
    <2> QED
      BY <1>1, <2>1, <2>2, <2>3 DEF WorkerStep
  <1>2. ASSUME NEW t \in Threads, Enqueue(t) \/ CallerStep(t) \/ Spurious(t)
        PROVE  ExecStep
    <2>1. CASE Enqueue(t) \/ Resume(t)
      <3>1. CASE Insert(t)
        <4>1. Inserting(t)
          BY <2>1, <3>1 DEF Enqueue, Resume, Insert, Inserting, Room, Goto,
                            PoolInv, TypeOK
        <4> QED
          BY <4>1, SimulateInsert DEF ExecStep
      <3>2. CASE ~Insert(t)
        BY <1>s, <2>1, <3>2 DEF Enqueue, Resume, Block, Throw, ExecStep
      <3> QED
        BY <3>1, <3>2
    <2>2. CASE Notify(t) \/ Spurious(t)
      BY <1>s, <2>2 DEF Notify, Spurious, ExecStep
    <2> QED
      BY <1>2, <2>1, <2>2 DEF CallerStep
  <1>3. CASE Stop \/ NotifyStop
    <2>1. UNCHANGED <<tasks, accepted, job, finished>>
      BY <1>3 DEF Stop, NotifyStop
    <2>2. (dtor = "done") = (dtor' = "done")
      BY <1>3 DEF Stop, NotifyStop
    <2>3. UNCHANGED Executor!execVars
      BY <2>1, <2>2 DEF Executor!execVars, Busy
    <2> QED
      BY <2>3 DEF ExecStep
  <1>4. CASE Join
    BY <1>4, SimulateJoin DEF ExecStep
  <1>5. CASE UNCHANGED vars
    BY <1>s, <1>5 DEF vars, ExecStep
  <1> QED
    BY <1>1, <1>2, <1>3, <1>4, <1>5 DEF Next, DestructorStep

\* The pool implements the abstract executor: bounded backlog and parallelism,
\* tasks started in order and run once, destruction after the last of them.
THEOREM PoolIsExecutor == Spec => ImplementsExecutor
  <1>1. Init => Executor!ExecInit
    <2> SUFFICES ASSUME Init PROVE Executor!ExecInit
      OBVIOUS
    <2>1. tasks = <<>> /\ Len(tasks) = 0
      BY EmptySeq DEF Init
    <2>2. Busy = {}
      BY DEF Init, Busy
    <2> QED
      BY <2>1, <2>2 DEF Init, Executor!ExecInit
  <1>2. PoolInv /\ EachTaskOnce /\ PoolInv' /\ [Next]_vars => ExecStep
    BY ExecutorSimulation
  <1> QED
    BY <1>1, <1>2, TypedInit, PhasesInit, OnceInit, TypedStep, CountedStep, PhasesStep,
       OnceStep, PTL
       DEF Spec, PoolInv, ImplementsExecutor, Executor!ExecSpec, ExecStep
-------------------------------------------------------------------------------
(* A pool in which no call of enqueue() has to wait for room: there only      *)
(* workers sleep, and every notify_one() reaches one of them.                 *)

Labels == {"idle", "fetch", "running", "announce", "exited", "enqueue", "notify"}

NobodyBlocked == \A t \in Threads : pc[t] # "enqueue"

\* Sets of threads are finite,
LEMMA SubsetsAreFinite ==
    \A A \in SUBSET Workers, N \in SUBSET Threads :
        /\ IsFiniteSet(A) /\ Cardinality(A) \in Nat
        /\ IsFiniteSet(N) /\ Cardinality(N) \in Nat
<1>1. IsFiniteSet(Workers) /\ IsFiniteSet(Threads)
      BY PoolAssumption, FS_Union DEF Threads
<1> QED  BY <1>1, FS_Subset, FS_CardinalityType

\* those of attending workers and of notifying callers too,
LEMMA SetsAreFinite ==
    /\ IsFiniteSet(Attending) /\ Cardinality(Attending) \in Nat
    /\ IsFiniteSet(Notifying) /\ Cardinality(Notifying) \in Nat
<1>1. Attending \in SUBSET Workers /\ Notifying \in SUBSET Threads
      BY DEF Attending, Notifying
<1> QED  BY <1>1, SubsetsAreFinite

\* now and after a step.
LEMMA SetsStayFinite ==
    /\ IsFiniteSet(Attending') /\ Cardinality(Attending') \in Nat
    /\ IsFiniteSet(Notifying') /\ Cardinality(Notifying') \in Nat
<1>1. Attending' \in SUBSET Workers /\ Notifying' \in SUBSET Threads
      BY DEF Attending, Notifying
<1> QED  BY <1>1, SubsetsAreFinite

\* Neither set loses a member, and no task is added.
LEMMA CoverKept ==
    ASSUME PoolInv, SleepersCovered, waiting # {}, waiting \subseteq Workers,
           Len(tasks') = Len(tasks),
           Attending \subseteq Attending', Notifying \subseteq Notifying'
    PROVE  SleepersCovered'
<1>1. /\ Cardinality(Attending) <= Cardinality(Attending')
      /\ Cardinality(Notifying) <= Cardinality(Notifying')
  <2>1. IsFiniteSet(Attending') /\ IsFiniteSet(Notifying')  BY SetsStayFinite
  <2> QED  BY <2>1, FS_Subset
<1>2. /\ Cardinality(Attending) \in Nat /\ Cardinality(Attending') \in Nat
      /\ Cardinality(Notifying) \in Nat /\ Cardinality(Notifying') \in Nat
      BY SetsAreFinite, SetsStayFinite
<1>3. Len(tasks) \in Nat  BY LenProperties DEF PoolInv, TypeOK
<1>4. Len(tasks) <= Cardinality(Attending) + Cardinality(Notifying)
      BY DEF SleepersCovered
<1>5. Len(tasks') <= Cardinality(Attending') + Cardinality(Notifying')
      BY <1>1, <1>2, <1>3, <1>4
<1> QED  BY <1>5 DEF SleepersCovered

\* An empty queue needs nobody.
LEMMA CoverEmpty ==
    ASSUME Len(tasks') = 0
    PROVE  SleepersCovered'
<1>1. Cardinality(Attending') \in Nat /\ Cardinality(Notifying') \in Nat
      BY SetsStayFinite
<1> QED  BY <1>1 DEF SleepersCovered

\* A worker that takes a task leaves together with it, a caller that adds one
\* is about to notify, and its notification wakes a worker for it.
LEMMA CoverStep ==
    ASSUME PoolInv, NobodyBlocked, NobodyBlocked', SleepersCovered, [Next]_vars
    PROVE  SleepersCovered'
<1>0. /\ waiting \subseteq Workers /\ \A t \in waiting : pc[t] = "fetch"
      /\ pc \in [Threads -> Labels] /\ tasks \in Seq(Nat) /\ Workers \subseteq Threads
  <2>1. \A t \in waiting : t \in Threads /\ pc[t] = "fetch"
        BY DEF PoolInv, TypeOK, Phases, NobodyBlocked
  <2>2. ASSUME NEW t \in Clients PROVE pc[t] # "fetch"
    <3>1. pc[t] \in {"idle", "enqueue", "notify"}  BY DEF PoolInv, Phases
    <3> QED  BY <3>1
  <2>3. tasks \in Seq(Nat)  BY SeqMonotonic DEF PoolInv, TypeOK
  <2>4. \A t \in waiting : t \in Workers  BY <2>1, <2>2 DEF Threads
  <2>5. pc \in [Threads -> Labels]
    BY DEF PoolInv, TypeOK, Labels
  <2> QED  BY <2>1, <2>3, <2>4, <2>5 DEF Threads
<1>f. /\ IsFiniteSet(Attending) /\ Cardinality(Attending) \in Nat
      /\ IsFiniteSet(Notifying) /\ Cardinality(Notifying) \in Nat
      BY SetsAreFinite
<1>l. /\ Len(tasks) \in Nat
      /\ waiting # {} => Len(tasks) <= Cardinality(Attending) + Cardinality(Notifying)
      BY <1>0 DEF SleepersCovered
<1>1. SUFFICES ASSUME waiting' # {} PROVE SleepersCovered'
      BY DEF SleepersCovered
<1>2. CASE UNCHANGED <<tasks, pc, waiting>>
  <2>1. Attending' = Attending /\ Notifying' = Notifying  BY <1>2 DEF Attending, Notifying
  <2> QED  BY <1>0, <1>1, <1>2, <2>1, CoverKept
<1>3. ASSUME NEW w \in Workers, Fetch(w) PROVE SleepersCovered'
  <2>1. CASE Take(w)
    <3>1. /\ pc[w] = "fetch" /\ w \notin waiting /\ tasks # <<>> /\ UNCHANGED waiting
          /\ tasks' = Tail(tasks) /\ pc' = [pc EXCEPT ![w] = "running"]
          BY <1>3, <2>1 DEF Fetch, Take, Goto
    <3>2. w \in Attending /\ Attending' = Attending \ {w} /\ Notifying' = Notifying
          BY <1>0, <3>1 DEF Attending, Notifying
    <3>3. Cardinality(Attending') = Cardinality(Attending) - 1
          BY <1>f, <3>2, FS_RemoveElement
    <3>4. Len(tasks') = Len(tasks) - 1  BY <1>0, <3>1, TailFacts
    <3>5. Len(tasks') <= Cardinality(Attending') + Cardinality(Notifying')
          BY <1>1, <1>f, <1>l, <3>1, <3>2, <3>3, <3>4
    <3> QED  BY <3>5 DEF SleepersCovered
  <2>2. CASE Exit(w) \/ Sleep(w)
    <3>1. tasks' = <<>>  BY <2>2 DEF Exit, MayExit, Sleep, NothingToDo
    <3>2. Len(tasks') = 0  BY <3>1
    <3> QED  BY <3>2, CoverEmpty
  <2> QED  BY <1>3, <2>1, <2>2 DEF Fetch
<1>4. ASSUME NEW w \in Workers, Execute(w) PROVE SleepersCovered'
  <2>1. /\ UNCHANGED <<tasks, waiting>> /\ pc[w] = "running"
        /\ pc' = [pc EXCEPT ![w] = "announce"]
        BY <1>4 DEF Execute, Goto
  <2>2. Attending' = Attending /\ Notifying' = Notifying
        BY <1>0, <2>1 DEF Attending, Notifying
  <2> QED  BY <1>0, <1>1, <2>1, <2>2, CoverKept
<1>5. ASSUME NEW w \in Workers, Announce(w) PROVE SleepersCovered'
  <2>1. /\ UNCHANGED tasks /\ pc[w] = "announce" /\ pc' = [pc EXCEPT ![w] = "fetch"]
        /\ waiting' \subseteq waiting
        BY <1>5 DEF Announce, Goto, NotifyProducer, NotifyOne
  <2>2. Attending \subseteq Attending' /\ Notifying' = Notifying
        BY <1>0, <2>1 DEF Attending, Notifying
  <2> QED  BY <1>0, <1>1, <2>1, <2>2, CoverKept
<1>6. ASSUME NEW t \in Threads, Inserting(t) PROVE SleepersCovered'
  <2>1. /\ tasks' = Append(tasks, accepted + 1) /\ accepted \in Nat /\ UNCHANGED waiting
        /\ pc' = [pc EXCEPT ![t] = "notify"] /\ pc[t] \in {"idle", "running"}
        BY <1>6 DEF Inserting, CanCall, NobodyBlocked, PoolInv, TypeOK
  <2>2. Attending' = Attending /\ Notifying' = Notifying \cup {t} /\ t \notin Notifying
        BY <1>0, <2>1 DEF Attending, Notifying
  <2>3. Cardinality(Notifying') = Cardinality(Notifying) + 1
        BY <1>f, <2>2, FS_AddElement
  <2>4. Len(tasks') = Len(tasks) + 1  BY <1>0, <2>1, AppendFacts
  <2>5. Len(tasks') <= Cardinality(Attending') + Cardinality(Notifying')
        BY <1>1, <1>f, <1>l, <2>1, <2>2, <2>3, <2>4
  <2> QED  BY <2>5 DEF SleepersCovered
<1>7. ASSUME NEW t \in Threads, Enqueue(t) \/ Resume(t) PROVE SleepersCovered'
  <2>1. CASE Enqueue(t)
    <3>1. Insert(t) => Inserting(t)
          BY <2>1 DEF Enqueue, Insert, Room, Goto, Inserting
    <3>2. ~Block(t)
      <4>1. Block(t) => pc'[t] = "enqueue"  BY <1>0 DEF Block, Goto
      <4> QED  BY <4>1 DEF NobodyBlocked
    <3>3. Throw(t) => UNCHANGED <<tasks, pc, waiting>>  BY DEF Throw
    <3> QED  BY <1>2, <1>6, <2>1, <3>1, <3>2, <3>3 DEF Enqueue
  <2>2. CASE Resume(t)  BY <2>2 DEF Resume, NobodyBlocked
  <2> QED  BY <1>7, <2>1, <2>2
<1>8. ASSUME NEW t \in Threads, Notify(t) PROVE SleepersCovered'
  <2>1. /\ UNCHANGED tasks /\ pc[t] = "notify" /\ waiting' \in NotifyOne(waiting)
        /\ pc' = [pc EXCEPT ![t] = IF t \in Workers THEN "running" ELSE "idle"]
        BY <1>8 DEF Notify, NotifyWorker, Goto
  <2>2. PICK x \in waiting : waiting' = waiting \ {x}  BY <1>1, <2>1 DEF NotifyOne
  <2>3. x \in Workers /\ pc'[x] = "fetch" /\ x \notin Attending
        BY <1>0, <2>1, <2>2 DEF Attending
  <2>4. Attending' = Attending \cup {x}
        BY <1>0, <2>1, <2>2, <2>3 DEF Attending
  <2>5. Notifying' = Notifying \ {t} /\ t \in Notifying
        BY <1>0, <2>1 DEF Notifying
  <2>6. /\ Cardinality(Attending') = Cardinality(Attending) + 1
        /\ Cardinality(Notifying') = Cardinality(Notifying) - 1
        BY <1>f, <2>3, <2>4, <2>5, FS_AddElement, FS_RemoveElement
  <2>7. Len(tasks') <= Cardinality(Attending') + Cardinality(Notifying')
        BY <1>f, <1>l, <2>1, <2>2, <2>6
  <2> QED  BY <2>7 DEF SleepersCovered
<1>9. ASSUME NEW t \in Threads, Spurious(t) PROVE SleepersCovered'
  <2>1. UNCHANGED <<tasks, pc>> /\ waiting' \subseteq waiting  BY <1>9 DEF Spurious
  <2>2. Attending \subseteq Attending' /\ Notifying' = Notifying
        BY <2>1 DEF Attending, Notifying
  <2> QED  BY <1>0, <1>1, <2>1, <2>2, CoverKept
<1>10. CASE Stop \/ DestructorStep
  <2>1. CASE NotifyStop  BY <1>1, <2>1 DEF NotifyStop, WakeEveryone, NotifyAll
  <2>2. CASE Stop \/ Join  BY <1>2, <2>2 DEF Stop, Join
  <2> QED  BY <1>10, <2>1, <2>2 DEF DestructorStep
<1> QED  BY <1>2, <1>3, <1>4, <1>5, <1>7, <1>8, <1>9, <1>10
         DEF Next, WorkerStep, CallerStep, vars

\* In a pool where no call of enqueue() ever has to wait for room, nothing is
\* left behind in the queue while a worker sleeps.
THEOREM RoomCoversSleepers == Spec /\ []NobodyBlocked => []SleepersCovered
<1>1. Init => SleepersCovered  BY DEF Init, SleepersCovered
<1>2. PoolInv /\ NobodyBlocked /\ NobodyBlocked' /\ SleepersCovered /\ [Next]_vars
      => SleepersCovered'
      BY CoverStep
<1>3. Spec => []PoolInv
      BY TypeCorrect, BacklogCorrect, PhasesKept, PTL DEF PoolInv
<1> QED  BY <1>1, <1>2, <1>3, PTL DEF Spec


\* A behaviour with no more calls of enqueue() than the queue has room for is
\* one of those.
Ample == NobodyBlocked /\ accepted <= called

\* Every call finds room, so none comes to wait.
LEMMA AmpleStep ==
    ASSUME MaxCalls <= max_task_num, PoolInv, Ample, [Next]_vars
    PROVE  Ample'
<1>1. /\ accepted \in Nat /\ called \in Nat /\ max_task_num \in Nat /\ MaxCalls \in Nat
      /\ pc \in [Threads -> Labels] /\ tasks \in Seq(Nat \ {0})
      BY PoolAssumption DEF PoolInv, TypeOK, Labels
<1>2. cur_task_num <= called /\ cur_task_num \in Nat
  <2>1. Len(tasks) \in Nat /\ cur_task_num = Len(tasks)
        BY <1>1, LenProperties DEF PoolInv, BacklogCounted
  <2>2. CASE Len(tasks) = 0  BY <1>1, <2>1, <2>2
  <2>3. CASE Len(tasks) # 0
    <3>1. 1 \in 1..Len(tasks)  BY <2>1, <2>3
    <3>2. tasks[1] = accepted - Len(tasks) + 1 /\ tasks[1] \in Nat \ {0}
          BY <1>1, <3>1, ElementOfSeq DEF PoolInv, BacklogCounted
    <3> QED  BY <1>1, <2>1, <3>2 DEF Ample
  <2> QED  BY <2>2, <2>3
<1>3. ASSUME NEW w \in Workers, WorkerStep(w) PROVE Ample'
  <2>1. /\ pc' = [pc EXCEPT ![w] = pc'[w]] /\ pc'[w] # "enqueue"
        /\ UNCHANGED <<accepted, called>>
        BY <1>1, <1>3 DEF WorkerStep, Fetch, Take, Exit, Sleep, Execute, Announce, Goto,
                          Threads, Ample, NobodyBlocked
  <2> QED  BY <1>1, <2>1 DEF Ample, NobodyBlocked
<1>4. ASSUME NEW t \in Threads, Enqueue(t) PROVE Ample'
  <2>1. called < MaxCalls /\ called' = called + 1  BY <1>4 DEF Enqueue
  <2>2. Room  BY <1>1, <1>2, <2>1 DEF Room
  <2>3. CASE Insert(t)
    <3>1. pc' = [pc EXCEPT ![t] = "notify"] /\ accepted' = accepted + 1
          BY <2>3 DEF Insert, Goto
    <3> QED  BY <1>1, <2>1, <3>1 DEF Ample, NobodyBlocked
  <2>4. CASE Throw(t)  BY <1>1, <2>1, <2>4 DEF Throw, Ample, NobodyBlocked
  <2> QED  BY <1>4, <2>2, <2>3, <2>4 DEF Enqueue, Block
<1>5. ASSUME NEW t \in Threads, CallerStep(t) PROVE Ample'
  <2>1. Notify(t)  BY <1>5 DEF CallerStep, Resume, Ample, NobodyBlocked
  <2>2. /\ pc' = [pc EXCEPT ![t] = IF t \in Workers THEN "running" ELSE "idle"]
        /\ UNCHANGED <<accepted, called>>
        BY <2>1 DEF Notify, Goto
  <2> QED  BY <1>1, <2>2 DEF Ample, NobodyBlocked
<1>6. ASSUME UNCHANGED <<pc, accepted, called>> PROVE Ample'
      BY <1>6 DEF Ample, NobodyBlocked
<1>7. ASSUME NEW t \in Threads, Spurious(t) PROVE Ample'
      BY <1>6, <1>7 DEF Spurious
<1>8. CASE Stop \/ DestructorStep
      BY <1>6, <1>8 DEF Stop, DestructorStep, NotifyStop, Join
<1> QED  BY <1>3, <1>4, <1>5, <1>6, <1>7, <1>8 DEF Next, vars

\* With room for every call, nothing is left behind in the queue while a worker
\* sleeps: the notify_one() of each task finds a worker of its own.
THEOREM AmpleRoomCovers ==
    ASSUME MaxCalls <= max_task_num
    PROVE  Spec => []SleepersCovered
<1>1. Init => Ample
  <2>1. ASSUME Init, NEW t \in Threads PROVE pc[t] # "enqueue"
        BY <2>1 DEF Init
  <2> QED  BY <2>1 DEF Init, Ample, NobodyBlocked
<1>2. PoolInv /\ Ample /\ [Next]_vars => Ample'  BY AmpleStep
<1>3. Spec => []PoolInv
      BY TypeCorrect, BacklogCorrect, PhasesKept, PTL DEF PoolInv
<1>4. Ample => NobodyBlocked  BY DEF Ample
<1> QED  BY <1>1, <1>2, <1>3, <1>4, RoomCoversSleepers, PTL DEF Spec
===============================================================================
