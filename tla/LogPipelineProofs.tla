-------------------------- MODULE LogPipelineProofs --------------------------
(* Theorems about Logger, for any callers and policies, and about LogPipeline *)
(* with its console: both queues are runs of consecutive numbers, so what is  *)
(* delivered, printed, in hand and queued follow each other without a gap.    *)
EXTENDS LogPipeline, SequenceTheorems, FiniteSetTheorems, TLAPS

-------------------------------------------------------------------------------
(* Runs of consecutive numbers. *)

\* The run that ends with `last`.
Run(seq, last) == /\ Len(seq) <= last
                  /\ \A i \in 1..Len(seq) : seq[i] = last - Len(seq) + i

\* The empty sequence is a run that ends anywhere.
LEMMA RunEmpty == ASSUME NEW n \in Nat PROVE Run(<<>>, n) /\ Len(<<>>) = 0
<1>1. Len(<<>>) = 0  OBVIOUS
<1> QED  BY <1>1 DEF Run

\* The next number prolongs a run.
LEMMA RunAppend ==
    ASSUME NEW seq \in Seq(Nat), NEW n \in Nat, Run(seq, n)
    PROVE  /\ Append(seq, n + 1) \in Seq(Nat) /\ Append(seq, n + 1) # <<>>
           /\ Len(Append(seq, n + 1)) = Len(seq) + 1
           /\ Run(Append(seq, n + 1), n + 1)
<1>1. /\ n + 1 \in Nat /\ Len(seq) \in Nat
      /\ Append(seq, n + 1) \in Seq(Nat)
      /\ Len(Append(seq, n + 1)) = Len(seq) + 1
      /\ \A i \in 1..Len(seq) : Append(seq, n + 1)[i] = seq[i]
      /\ Append(seq, n + 1)[Len(seq) + 1] = n + 1
      BY AppendProperties, LenProperties
<1>2. Append(seq, n + 1) # <<>>  BY <1>1, RunEmpty
<1> QED  BY <1>1, <1>2 DEF Run

\* Without its first number it is one still.
LEMMA RunTail ==
    ASSUME NEW seq \in Seq(Nat), NEW n \in Nat, Run(seq, n), seq # <<>>
    PROVE  /\ Tail(seq) \in Seq(Nat) /\ Len(Tail(seq)) = Len(seq) - 1
           /\ Len(seq) \in Nat \ {0}
           /\ Head(seq) = n - Len(seq) + 1 /\ Run(Tail(seq), n)
<1>1. /\ Tail(seq) \in Seq(Nat) /\ Len(Tail(seq)) = Len(seq) - 1
      /\ Len(seq) \in Nat \ {0} /\ Head(seq) = seq[1]
      /\ \A i \in 1..(Len(seq) - 1) : Tail(seq)[i] = seq[i + 1]
      BY HeadTailProperties, EmptySeq, LenProperties
<1> QED  BY <1>1 DEF Run

\* Two that follow each other make one.
LEMMA RunConcat ==
    ASSUME NEW a \in Seq(Nat), NEW b \in Seq(Nat), NEW m \in Nat,
           Run(a, m), Run(b, m + Len(b))
    PROVE  /\ a \o b \in Seq(Nat) /\ Len(a \o b) = Len(a) + Len(b)
           /\ Run(a \o b, m + Len(b))
<1>1. /\ a \o b \in Seq(Nat) /\ Len(a \o b) = Len(a) + Len(b)
      /\ Len(a) \in Nat /\ Len(b) \in Nat
      /\ \A i \in 1..Len(a) + Len(b) :
            (a \o b)[i] = IF i <= Len(a) THEN a[i] ELSE b[i - Len(a)]
      BY ConcatProperties, LenProperties
<1>2. ASSUME NEW i \in 1..Len(a \o b)
      PROVE  (a \o b)[i] = m + Len(b) - Len(a \o b) + i
  <2>1. CASE i <= Len(a)  BY <1>1, <2>1 DEF Run
  <2>2. CASE i > Len(a)
    <3>1. i - Len(a) \in 1..Len(b)  BY <1>1, <2>2
    <3>2. b[i - Len(a)] = m + (i - Len(a))  BY <1>1, <3>1 DEF Run
    <3> QED  BY <1>1, <2>2, <3>2
  <2> QED  BY <1>1, <2>1, <2>2
<1> QED  BY <1>1, <1>2 DEF Run

\* A run as long as its last number is all numbers up to it.
LEMMA RunFromOne ==
    ASSUME NEW seq \in Seq(Nat), Run(seq, Len(seq))
    PROVE  seq = [i \in 1..Len(seq) |-> i]
<1>1. Len(seq) \in Nat /\ seq \in [1..Len(seq) -> Nat]  BY LenProperties
<1>2. \A i \in 1..Len(seq) : seq[i] = i  BY <1>1 DEF Run
<1> QED  BY <1>1, <1>2

\* Its numbers are between 1 and its last.
LEMMA RunBounded ==
    ASSUME NEW seq \in Seq(Nat), NEW n \in Nat, NEW m \in Nat, n <= m, Run(seq, n)
    PROVE  seq \in Seq(1..m)
<1>1. Len(seq) \in Nat /\ seq \in [1..Len(seq) -> Nat]  BY LenProperties
<1>2. \A i \in 1..Len(seq) : seq[i] \in 1..m  BY <1>1 DEF Run
<1>3. seq \in [1..Len(seq) -> 1..m]  BY <1>1, <1>2
<1> QED  BY <1>1, <1>3

-------------------------------------------------------------------------------
(* The invariant of the logger. *)

ProcessorLabels == {"fetch", "deliver", "exited"}
TimerLabels == {"test", "sleep", "lock", "flush", "exited"}
CallerLabels == {"idle", "log", "notify", "lock", "flush"}

LoggerTypes ==
    /\ policies_ \in Seq(Policies) /\ queue_ \in Seq(Nat)
    /\ stop_ \in BOOLEAN /\ asleep \in BOOLEAN
    /\ pc \in [Threads -> ProcessorLabels \cup TimerLabels \cup CallerLabels]
    /\ pc[processor] \in ProcessorLabels /\ pc[timer] \in TimerLabels
    /\ \A t \in Callers : pc[t] \in CallerLabels
    /\ at \in [Threads -> Nat] /\ message \in Nat
    /\ got \in [Policies -> Seq(Nat)] /\ since \in [Policies -> Nat]
    /\ written \in Nat
    /\ dtor \in {"no", "stopped", "processor", "timer", "done"}

\* A thread that goes through policies_ is at one of them; mutex_ has one holder.
VisitsOK == /\ \A t \in Threads : /\ at[t] <= Len(policies_)
                                  /\ pc[t] \in {"flush", "deliver"} => at[t] >= 1
            /\ \A t, u \in Flushers : pc[t] = "flush" /\ pc[u] = "flush" => t = u

PoliciesDiffer ==
    \A i, j \in 1..Len(policies_) : policies_[i] = policies_[j] => i = j

WithinBound == written + Cardinality(Logging) <= MaxMessages

\* What is queued is the latest messages, and the one taken last came before.
QueueIsRun == /\ Run(queue_, written)
              /\ message = written - Len(queue_)
              /\ pc[processor] = "deliver" => message >= 1

\* The last message the i-th policy was given, if it was given any.
Reached(i) == IF pc[processor] = "deliver" /\ at[processor] <= i THEN message - 1
                                                                ELSE message

\* A policy has a run of messages that starts no later than with the first one
\* logged since it was added.
PolicyOK(i) == LET given == got[policies_[i]]
               IN /\ Run(given, Reached(i))
                  /\ Reached(i) - Len(given) <= since[policies_[i]]

PoliciesOK == /\ \A i \in 1..Len(policies_) : PolicyOK(i)
              /\ \A p \in Policies \ Added : got[p] = <<>>

AddedBefore == \A p \in Policies : since[p] <= written

\* Nobody calls the logger once its destructor has begun; the processor leaves
\* the queue empty, and both threads leave before the destructor returns.
PhasesOK == /\ stop_ <=> dtor # "no"
            /\ stop_ => \A t \in Callers : pc[t] = "idle"
            /\ pc[processor] = "exited" => stop_ /\ queue_ = <<>>
            /\ dtor \in {"timer", "done"} => pc[processor] = "exited"
            /\ dtor = "done" => pc[timer] = "exited"

LoggerInv == /\ LoggerTypes /\ VisitsOK /\ PoliciesDiffer /\ WithinBound
             /\ QueueIsRun /\ PoliciesOK /\ AddedBefore /\ PhasesOK /\ SleepIsSafe

\* Threads have names of their own.
LEMMA ThreadNames ==
    /\ processor \in Threads /\ timer \in Flushers
    /\ Flushers \subseteq Threads /\ Callers \subseteq Flushers
    /\ processor \notin Flushers /\ timer \notin Callers
    /\ Threads = Flushers \cup {processor} /\ Flushers = Callers \cup {timer}
    /\ FlushCallers \subseteq Callers /\ IsFiniteSet(Callers) /\ MaxMessages \in Nat
BY LoggerAssumption DEF LoggerAssumption, Threads, Flushers

\* Before the first call nothing is queued, in hand or held.
LEMMA LoggerStarts == Init => LoggerInv
<1> SUFFICES ASSUME Init PROVE LoggerInv
    OBVIOUS
<1> USE ThreadNames DEF Init
<1>1. LoggerTypes
  <2>1. <<>> \in Seq(Nat) /\ <<>> \in Seq(Policies)  OBVIOUS
  <2>2. pc[processor] = "fetch" /\ pc[timer] = "test" /\ \A t \in Callers : pc[t] = "idle"
        OBVIOUS
  <2> QED  BY <2>1, <2>2 DEF LoggerTypes, ProcessorLabels, TimerLabels, CallerLabels
<1>2. policies_ = <<>> /\ Len(policies_) = 0 /\ Added = {}  BY DEF Added
<1>3. VisitsOK  BY <1>2 DEF VisitsOK
<1>4. WithinBound
  <2>1. Logging = {}  BY DEF Logging
  <2>2. Cardinality({}) = 0  BY FS_EmptySet
  <2> QED  BY <2>1, <2>2 DEF WithinBound
<1>5. QueueIsRun
  <2>1. /\ pc[processor] = "fetch" /\ Len(queue_) = 0
        /\ message = 0 /\ written = 0 /\ queue_ = <<>>
        OBVIOUS
  <2>2. Run(<<>>, 0)  BY RunEmpty
  <2> HIDE DEF Init
  <2> QED  BY <2>1, <2>2 DEF QueueIsRun
<1>6. PoliciesOK /\ PoliciesDiffer  BY <1>2 DEF PoliciesOK, PoliciesDiffer
<1>7. PhasesOK /\ AddedBefore  BY DEF PhasesOK, AddedBefore
<1>8. SleepIsSafe  BY DEF SleepIsSafe
<1> QED  BY <1>1, <1>3, <1>4, <1>5, <1>6, <1>7, <1>8 DEF LoggerInv

-------------------------------------------------------------------------------
(* Every step keeps the invariant. *)

\* A thread that starts a round is at the first policy, if there is one.
LEMMA RoundStarts ==
    ASSUME LoggerInv, NEW t \in Threads, NEW label, NEW next,
           next \notin {"flush", "deliver"}, StartVisits(t, label, next)
    PROVE  /\ pc' = [pc EXCEPT ![t] = label] \/ pc' = [pc EXCEPT ![t] = next]
           /\ at' \in [Threads -> Nat] /\ \A u \in Threads \ {t} : at'[u] = at[u]
           /\ at'[t] <= Len(policies_)
           /\ pc'[t] \in {"flush", "deliver"} => at'[t] >= 1
<1>1. Len(policies_) \in Nat /\ (policies_ # <<>> => Len(policies_) \in Nat \ {0})
      BY EmptySeq, LenProperties DEF LoggerInv, LoggerTypes
<1>2. /\ at \in [Threads -> Nat] /\ at[t] <= Len(policies_) /\ DOMAIN pc = Threads
      BY DEF LoggerInv, LoggerTypes, VisitsOK
<1> QED  BY <1>1, <1>2 DEF StartVisits, Goto

\* One that goes on with a round is at the next policy, if there is one.
LEMMA RoundGoesOn ==
    ASSUME LoggerInv, NEW t \in Threads, NEW next,
           next \notin {"flush", "deliver"}, NextVisit(t, next)
    PROVE  /\ pc' = [pc EXCEPT ![t] = pc[t]] \/ pc' = [pc EXCEPT ![t] = next]
           /\ at' \in [Threads -> Nat] /\ \A u \in Threads \ {t} : at'[u] = at[u]
           /\ at'[t] <= Len(policies_)
           /\ pc'[t] \in {"flush", "deliver"} => at'[t] >= 1
<1>1. Len(policies_) \in Nat  BY LenProperties DEF LoggerInv, LoggerTypes
<1>2. /\ at \in [Threads -> Nat] /\ at[t] <= Len(policies_) /\ at[t] \in Nat
      /\ DOMAIN pc = Threads /\ pc = [u \in Threads |-> pc[u]]
      BY DEF LoggerInv, LoggerTypes, VisitsOK
<1>3. CASE LastVisit(t)
  <2>1. pc' = [pc EXCEPT ![t] = next] /\ at' = [at EXCEPT ![t] = 0]
        BY <1>3 DEF NextVisit, Goto
  <2> QED  BY <1>1, <1>2, <2>1
<1>4. CASE ~LastVisit(t)
  <2>1. at' = [at EXCEPT ![t] = @ + 1] /\ pc' = pc /\ ~(at[t] >= Len(policies_))
        BY <1>4 DEF NextVisit, LastVisit
  <2>2. pc' = [pc EXCEPT ![t] = pc[t]]  BY <1>2, <2>1
  <2>3. at'[t] = at[t] + 1 /\ at' \in [Threads -> Nat]
        /\ \A u \in Threads \ {t} : at'[u] = at[u]
        BY <1>2, <2>1
  <2>4. at[t] + 1 <= Len(policies_) /\ at[t] + 1 >= 1  BY <1>1, <1>2, <2>1
  <2> QED  BY <2>2, <2>3, <2>4
<1> QED  BY <1>3, <1>4

\* Which thread a step moves, from where to where.
Moves(t, from, to) == /\ t \in Threads /\ pc[t] \in from
                      /\ \E label \in to : pc' = [pc EXCEPT ![t] = label]

\* A step leaves the visits alone, or moves one thread, and is an action of that thread.
LEMMA Threading ==
    ASSUME LoggerInv, [Next]_vars
    PROVE  \/ UNCHANGED visits
           \/ \E t \in Callers : /\ UNCHANGED at
                 /\ \/ Moves(t, {"idle"}, {"log"}) /\ BeginLog(t)
                    \/ Moves(t, {"log"}, {"notify"}) /\ Log(t)
                    \/ Moves(t, {"notify"}, {"idle"}) /\ Notify(t)
                    \/ Moves(t, {"idle"}, {"lock"}) /\ BeginFlush(t)
           \/ /\ UNCHANGED at
              /\ \/ Moves(timer, {"test"}, {"sleep", "exited"}) /\ TimerTest
                 \/ Moves(timer, {"sleep"}, {"lock"}) /\ TimerWake
           \/ \E t \in Flushers :
                 \/ Moves(t, {"lock"}, {"flush", After(t)}) /\ Acquire(t)
                 \/ Moves(t, {"flush"}, {"flush", After(t)}) /\ FlushPolicy(t)
           \/ Moves(processor, {"fetch"}, {"fetch", "deliver", "exited"}) /\ Fetch
           \/ Moves(processor, {"deliver"}, {"deliver", "fetch"}) /\ Deliver
<1> USE ThreadNames DEF Moves
<1>1. CASE UNCHANGED vars  BY <1>1 DEF vars
<1>2. ASSUME NEW t \in Callers, CallStep(t) PROVE UNCHANGED at /\
                 \/ Moves(t, {"idle"}, {"log"}) /\ BeginLog(t)
                 \/ Moves(t, {"log"}, {"notify"}) /\ Log(t)
                 \/ Moves(t, {"notify"}, {"idle"}) /\ Notify(t)
                 \/ Moves(t, {"idle"}, {"lock"}) /\ BeginFlush(t)
      BY <1>2 DEF CallStep, BeginLog, Log, Notify, BeginFlush, Goto
<1>3. CASE TimerTest \/ TimerWake
      BY <1>3 DEF TimerTest, TimerWake, TimerNext, Goto
<1>4. ASSUME NEW t \in Flushers, FlushStep(t)
      PROVE  \/ Moves(t, {"lock"}, {"flush", After(t)}) /\ Acquire(t)
             \/ Moves(t, {"flush"}, {"flush", After(t)}) /\ FlushPolicy(t)
  <2>1. After(t) \notin {"flush", "deliver"} /\ t \in Threads  BY DEF After
  <2>2. CASE Acquire(t)
    <3>1. StartVisits(t, "flush", After(t)) /\ pc[t] = "lock"  BY <2>2 DEF Acquire
    <3> QED  BY <2>1, <2>2, <3>1, RoundStarts
  <2>3. CASE FlushPolicy(t)
    <3>1. NextVisit(t, After(t)) /\ pc[t] = "flush"  BY <2>3 DEF FlushPolicy
    <3>2. pc' = [pc EXCEPT ![t] = "flush"] \/ pc' = [pc EXCEPT ![t] = After(t)]
          BY <2>1, <3>1, RoundGoesOn
    <3> QED  BY <2>1, <2>3, <3>1, <3>2
  <2> QED  BY <1>4, <2>2, <2>3 DEF FlushStep
<1>5. CASE Fetch
  <2>1. pc[processor] = "fetch" /\ processor \in Threads  BY <1>5 DEF Fetch
  <2>2. CASE Take
        BY <1>5, <2>1, <2>2, RoundStarts DEF Take
  <2>3. CASE Exit  BY <1>5, <2>1, <2>3 DEF Exit, Goto
  <2>4. CASE Sleep
    <3>1. pc' = [pc EXCEPT ![processor] = "fetch"]
          BY <2>1, <2>4 DEF Sleep, visits, LoggerInv, LoggerTypes
    <3> QED  BY <1>5, <2>1, <3>1
  <2> QED  BY <1>5, <2>2, <2>3, <2>4 DEF Fetch
<1>6. CASE Deliver
  <2>1. NextVisit(processor, "fetch") /\ pc[processor] = "deliver"  BY <1>6 DEF Deliver
  <2>2. pc' = [pc EXCEPT ![processor] = "deliver"] \/ pc' = [pc EXCEPT ![processor] = "fetch"]
        BY <2>1, RoundGoesOn
  <2> QED  BY <1>6, <2>1, <2>2
<1>7. CASE (\E p \in Policies : AddPolicy(p)) \/ Spurious \/ Stop \/ DestroyStep
      BY <1>7 DEF AddPolicy, Spurious, Stop, DestroyStep, NotifyStop, JoinProcessor, JoinTimer
<1> QED  BY <1>1, <1>2, <1>3, <1>4, <1>5, <1>6, <1>7 DEF Next, QuietStep

\* Labels stay with their kinds of threads.
LEMMA LabelsKept ==
    ASSUME LoggerInv, [Next]_vars
    PROVE  /\ pc' \in [Threads -> ProcessorLabels \cup TimerLabels \cup CallerLabels]
           /\ pc'[processor] \in ProcessorLabels /\ pc'[timer] \in TimerLabels
           /\ \A t \in Callers : pc'[t] \in CallerLabels
<1> DEFINE AllLabels == ProcessorLabels \cup TimerLabels \cup CallerLabels
<1>1. /\ pc \in [Threads -> AllLabels]
      /\ pc[processor] \in ProcessorLabels /\ pc[timer] \in TimerLabels
      /\ \A t \in Callers : pc[t] \in CallerLabels
      BY DEF LoggerInv, LoggerTypes
<1>2. CASE UNCHANGED visits  BY <1>1, <1>2 DEF visits
<1>3. ASSUME NEW t \in Threads, NEW from, NEW to, Moves(t, from, to),
             \/ t \in Callers /\ to \subseteq CallerLabels
             \/ t = timer /\ to \subseteq TimerLabels
             \/ t = processor /\ to \subseteq ProcessorLabels
      PROVE  /\ pc' \in [Threads -> AllLabels]
             /\ pc'[processor] \in ProcessorLabels /\ pc'[timer] \in TimerLabels
             /\ \A u \in Callers : pc'[u] \in CallerLabels
      BY <1>1, <1>3, ThreadNames DEF Moves
<1>4. /\ {"log"} \subseteq CallerLabels /\ {"notify"} \subseteq CallerLabels
      /\ {"idle"} \subseteq CallerLabels /\ {"lock"} \subseteq CallerLabels
      /\ {"sleep", "exited"} \subseteq TimerLabels /\ {"lock"} \subseteq TimerLabels
      /\ {"fetch", "deliver", "exited"} \subseteq ProcessorLabels
      /\ {"deliver", "fetch"} \subseteq ProcessorLabels
      BY DEF CallerLabels, TimerLabels, ProcessorLabels
<1>5. ASSUME NEW t \in Flushers
      PROVE  \/ t \in Callers /\ {"flush", After(t)} \subseteq CallerLabels
             \/ t = timer /\ {"flush", After(t)} \subseteq TimerLabels
      BY ThreadNames DEF After, CallerLabels, TimerLabels
<1> QED
  <2>1. ASSUME NEW t \in Callers, NEW from, NEW to \in {{"log"}, {"notify"}, {"idle"}, {"lock"}},
               Moves(t, from, to)
        PROVE  /\ pc' \in [Threads -> AllLabels]
               /\ pc'[processor] \in ProcessorLabels /\ pc'[timer] \in TimerLabels
               /\ \A u \in Callers : pc'[u] \in CallerLabels
        BY <1>3, <1>4, <2>1, ThreadNames
  <2>2. ASSUME NEW from, NEW to \in {{"sleep", "exited"}, {"lock"}}, Moves(timer, from, to)
        PROVE  /\ pc' \in [Threads -> AllLabels]
               /\ pc'[processor] \in ProcessorLabels /\ pc'[timer] \in TimerLabels
               /\ \A u \in Callers : pc'[u] \in CallerLabels
        BY <1>3, <1>4, <2>2, ThreadNames
  <2>3. ASSUME NEW t \in Flushers, NEW from, Moves(t, from, {"flush", After(t)})
        PROVE  /\ pc' \in [Threads -> AllLabels]
               /\ pc'[processor] \in ProcessorLabels /\ pc'[timer] \in TimerLabels
               /\ \A u \in Callers : pc'[u] \in CallerLabels
        BY <1>3, <1>5, <2>3, ThreadNames
  <2>4. ASSUME NEW from, NEW to \in {{"fetch", "deliver", "exited"}, {"deliver", "fetch"}},
               Moves(processor, from, to)
        PROVE  /\ pc' \in [Threads -> AllLabels]
               /\ pc'[processor] \in ProcessorLabels /\ pc'[timer] \in TimerLabels
               /\ \A u \in Callers : pc'[u] \in CallerLabels
        BY <1>3, <1>4, <2>4, ThreadNames
  <2> QED  BY <1>2, <2>1, <2>2, <2>3, <2>4, Threading

\* What a step does to the messages and to the policies: one is logged, taken or
\* delivered, a policy is added, or they stay.
Still == UNCHANGED <<queue_, written, message, got, policies_, since>>

LoggingStep(t) == /\ t \in Callers /\ pc[t] = "log" /\ pc'[processor] = pc[processor]
                  /\ UNCHANGED <<at, message, got, policies_, since>>
                  /\ queue_' = Append(queue_, written + 1) /\ written' = written + 1

TakingStep == /\ pc[processor] = "fetch" /\ queue_ # <<>>
              /\ queue_' = Tail(queue_) /\ message' = Head(queue_)
              /\ UNCHANGED <<written, got, policies_, since>>
              /\ StartVisits(processor, "deliver", "fetch")

DeliveringStep ==
    /\ pc[processor] = "deliver"
    /\ got' = [got EXCEPT ![policies_[at[processor]]] = Append(@, message)]
    /\ UNCHANGED <<queue_, written, message, policies_, since>>
    /\ NextVisit(processor, "fetch")

AddingStep(p) == /\ p \in Policies \ Added /\ ~Visiting
                 /\ policies_' = Append(policies_, p)
                 /\ since' = [since EXCEPT ![p] = written]
                 /\ UNCHANGED <<queue_, written, message, got, pc, at>>

\* Every step is of one of these kinds.
LEMMA MessageKinds ==
    ASSUME LoggerInv, [Next]_vars
    PROVE  \/ \E t \in Callers : LoggingStep(t)
           \/ TakingStep
           \/ DeliveringStep
           \/ \E p \in Policies : AddingStep(p)
           \/ /\ Still /\ at'[processor] = at[processor]
              /\ \/ pc'[processor] = pc[processor]
                 \/ pc[processor] = "fetch" /\ pc'[processor] = "exited"
<1> USE ThreadNames
<1>0. DOMAIN pc = Threads /\ DOMAIN at = Threads  BY DEF LoggerInv, LoggerTypes
<1>1. CASE UNCHANGED vars
      BY <1>1 DEF vars, visits, queueing, Still
<1>2. ASSUME NEW t \in Callers, CallStep(t)
      PROVE  \/ LoggingStep(t)
             \/ Still /\ at'[processor] = at[processor] /\ pc'[processor] = pc[processor]
  <2>1. CASE Log(t)
        BY <1>0, <2>1 DEF Log, Queued, Goto, LoggingStep
  <2>2. CASE BeginLog(t) \/ Notify(t) \/ BeginFlush(t)
        BY <1>0, <2>2 DEF BeginLog, Notify, BeginFlush, Goto, queueing, Still
  <2> QED  BY <1>2, <2>1, <2>2 DEF CallStep
<1>3. CASE TimerTest \/ TimerWake
      BY <1>0, <1>3 DEF TimerTest, TimerWake, Goto, queueing, Still
<1>4. ASSUME NEW t \in Flushers, FlushStep(t)
      PROVE  Still /\ at'[processor] = at[processor] /\ pc'[processor] = pc[processor]
  <2>1. CASE Acquire(t)
        BY <1>0, <2>1 DEF Acquire, StartVisits, Goto, queueing, Still
  <2>2. CASE FlushPolicy(t)
        BY <1>0, <2>2 DEF FlushPolicy, NextVisit, Goto, queueing, Still
  <2> QED  BY <1>4, <2>1, <2>2 DEF FlushStep
<1>5. CASE Fetch
  <2>1. CASE Take  BY <1>5, <2>1 DEF Fetch, Take, TakingStep
  <2>2. CASE Exit \/ Sleep
        BY <1>0, <1>5, <2>2 DEF Fetch, Exit, Sleep, Goto, visits, Still
  <2> QED  BY <1>5, <2>1, <2>2 DEF Fetch
<1>6. CASE Deliver  BY <1>6 DEF Deliver, queueing, DeliveringStep
<1>7. ASSUME NEW p \in Policies, AddPolicy(p) PROVE AddingStep(p)
      BY <1>7 DEF AddPolicy, AddingStep, visits, queueing
<1>8. CASE Spurious \/ Stop \/ DestroyStep
      BY <1>8 DEF Spurious, Stop, DestroyStep, NotifyStop, JoinProcessor, JoinTimer, visits,
                  queueing, Still
<1> QED  BY <1>1, <1>2, <1>3, <1>4, <1>5, <1>6, <1>7, <1>8 DEF Next, QuietStep

\* Where threads are in policies_, which only AddPolicy() lengthens.
LEMMA PlacesKept ==
    ASSUME LoggerInv, [Next]_vars
    PROVE  /\ at' \in [Threads -> Nat]
           /\ \A t \in Threads : /\ at'[t] <= Len(policies_)
                                 /\ pc'[t] \in {"flush", "deliver"} => at'[t] >= 1
           /\ \A t, u \in Flushers : pc'[t] = "flush" /\ pc'[u] = "flush" => t = u
<1> DEFINE Places == /\ at' \in [Threads -> Nat]
                     /\ \A t \in Threads :
                           /\ at'[t] <= Len(policies_)
                           /\ pc'[t] \in {"flush", "deliver"} => at'[t] >= 1
<1> DEFINE OneFlush == \A t, u \in Flushers : pc'[t] = "flush" /\ pc'[u] = "flush" => t = u
<1>1. /\ at \in [Threads -> Nat] /\ DOMAIN pc = Threads
      /\ \A t \in Threads : /\ at[t] <= Len(policies_)
                            /\ pc[t] \in {"flush", "deliver"} => at[t] >= 1
      /\ \A t, u \in Flushers : pc[t] = "flush" /\ pc[u] = "flush" => t = u
      BY DEF LoggerInv, LoggerTypes, VisitsOK
<1>2. CASE UNCHANGED visits  BY <1>1, <1>2 DEF visits
\* A thread outside a round that does not begin one.
<1>3. ASSUME NEW t \in Threads, NEW from,
             NEW to \in SUBSET {"log", "notify", "idle", "lock", "sleep", "exited"},
             Moves(t, from, to), UNCHANGED at
      PROVE  Places /\ OneFlush
      BY <1>1, <1>3, ThreadNames DEF Moves
<1>4. ASSUME NEW t \in Threads, NEW to, Moves(t, {pc[t]}, to),
             /\ at' \in [Threads -> Nat] /\ \A u \in Threads \ {t} : at'[u] = at[u]
             /\ at'[t] <= Len(policies_)
             /\ pc'[t] \in {"flush", "deliver"} => at'[t] >= 1
      PROVE  Places
      BY <1>1, <1>4 DEF Moves
<1>5. ASSUME NEW t \in Flushers,
             \/ Moves(t, {"lock"}, {"flush", After(t)}) /\ Acquire(t)
             \/ Moves(t, {"flush"}, {"flush", After(t)}) /\ FlushPolicy(t)
      PROVE  Places /\ OneFlush
  <2>1. t \in Threads /\ After(t) \notin {"flush", "deliver"}  BY ThreadNames DEF After
  <2>2. Moves(t, {pc[t]}, {"flush", After(t)})  BY <1>5 DEF Moves
  <2>3. CASE Acquire(t)
    <3>1. StartVisits(t, "flush", After(t)) /\ ~Locked  BY <2>3 DEF Acquire
    <3>2. Places  BY <1>4, <2>1, <2>2, <3>1, RoundStarts
    <3>3. OneFlush  BY <1>1, <2>1, <2>2, <3>1, ThreadNames DEF Locked, Moves
    <3> QED  BY <3>2, <3>3
  <2>4. CASE FlushPolicy(t)
    <3>1. NextVisit(t, After(t)) /\ pc[t] = "flush"  BY <2>4 DEF FlushPolicy
    <3>2. Places  BY <1>4, <2>1, <2>2, <3>1, RoundGoesOn
    <3>3. OneFlush  BY <1>1, <2>1, <2>2, <3>1, ThreadNames DEF Moves
    <3> QED  BY <3>2, <3>3
  <2> QED  BY <1>5, <2>3, <2>4
<1>6. ASSUME NEW from, NEW to \in SUBSET {"fetch", "deliver", "exited"},
             Moves(processor, from, to), Fetch \/ Deliver
      PROVE  Places /\ OneFlush
  <2>1. OneFlush  BY <1>1, <1>6, ThreadNames DEF Moves
  <2>2. Moves(processor, {pc[processor]}, to)  BY <1>6 DEF Moves
  <2>3. CASE Take
    <3>1. StartVisits(processor, "deliver", "fetch")  BY <2>3 DEF Take
    <3>2. /\ at' \in [Threads -> Nat] /\ \A u \in Threads \ {processor} : at'[u] = at[u]
          /\ at'[processor] <= Len(policies_)
          /\ pc'[processor] \in {"flush", "deliver"} => at'[processor] >= 1
          BY <3>1, ThreadNames, RoundStarts
    <3> QED  BY <1>1, <1>6, <3>2, ThreadNames DEF Moves
  <2>4. CASE (Exit \/ Sleep) /\ Fetch
    <3>1. at' = at /\ pc'[processor] \in {"fetch", "exited"}
          BY <1>1, <2>4, ThreadNames DEF Exit, Sleep, Fetch, Goto, visits
    <3> QED  BY <1>1, <1>6, <3>1, ThreadNames DEF Moves
  <2>5. CASE Deliver
    <3>1. NextVisit(processor, "fetch")  BY <2>5 DEF Deliver
    <3>2. /\ at' \in [Threads -> Nat] /\ \A u \in Threads \ {processor} : at'[u] = at[u]
          /\ at'[processor] <= Len(policies_)
          /\ pc'[processor] \in {"flush", "deliver"} => at'[processor] >= 1
          BY <3>1, ThreadNames, RoundGoesOn
    <3> QED  BY <1>1, <1>6, <3>2, ThreadNames DEF Moves
  <2> QED  BY <1>6, <2>1, <2>3, <2>4, <2>5 DEF Fetch
<1>7. ASSUME NEW t \in Callers, NEW from, NEW to \in {{"log"}, {"notify"}, {"idle"}, {"lock"}},
             Moves(t, from, to), UNCHANGED at
      PROVE  Places /\ OneFlush
      BY <1>3, <1>7, ThreadNames
<1>8. ASSUME NEW from, NEW to \in {{"sleep", "exited"}, {"lock"}}, Moves(timer, from, to),
             UNCHANGED at
      PROVE  Places /\ OneFlush
      BY <1>3, <1>8, ThreadNames
<1>9. Places /\ OneFlush
  <2>1. \/ UNCHANGED visits
        \/ \E t \in Callers, from \in {{"idle"}, {"log"}, {"notify"}},
              to \in {{"log"}, {"notify"}, {"idle"}, {"lock"}} :
              Moves(t, from, to) /\ UNCHANGED at
        \/ \E from \in {{"test"}, {"sleep"}}, to \in {{"sleep", "exited"}, {"lock"}} :
              Moves(timer, from, to) /\ UNCHANGED at
        \/ \E t \in Flushers :
              \/ Moves(t, {"lock"}, {"flush", After(t)}) /\ Acquire(t)
              \/ Moves(t, {"flush"}, {"flush", After(t)}) /\ FlushPolicy(t)
        \/ \E from \in {{"fetch"}, {"deliver"}},
              to \in SUBSET {"fetch", "deliver", "exited"} :
              Moves(processor, from, to) /\ (Fetch \/ Deliver)
    <3>1. /\ {"fetch", "deliver", "exited"} \in SUBSET {"fetch", "deliver", "exited"}
          /\ {"deliver", "fetch"} \in SUBSET {"fetch", "deliver", "exited"}
          OBVIOUS
    <3> QED  BY <3>1, Threading
  <2> QED  BY <1>2, <1>5, <1>6, <1>7, <1>8, <2>1
<1> QED  BY <1>9

\* The state of the destructor, and the sleep of the processor.
LEMMA PhasesKept ==
    ASSUME LoggerInv, [Next]_vars
    PROVE  /\ stop_' \in BOOLEAN /\ asleep' \in BOOLEAN
           /\ dtor' \in {"no", "stopped", "processor", "timer", "done"}
           /\ PhasesOK' /\ SleepIsSafe'
<1> DEFINE Flags == /\ stop_' \in BOOLEAN /\ asleep' \in BOOLEAN
                    /\ dtor' \in {"no", "stopped", "processor", "timer", "done"}
<1>1. /\ stop_ \in BOOLEAN /\ asleep \in BOOLEAN /\ DOMAIN pc = Threads
      /\ dtor \in {"no", "stopped", "processor", "timer", "done"}
      /\ PhasesOK /\ SleepIsSafe
      BY DEF LoggerInv, LoggerTypes
<1> USE <1>1, ThreadNames DEF PhasesOK, SleepIsSafe
<1>2. CASE UNCHANGED vars  BY <1>2 DEF vars, visits, queueing
<1>3. ASSUME NEW t \in Callers, CallStep(t) PROVE Flags /\ PhasesOK' /\ SleepIsSafe'
  <2>1. CASE BeginLog(t)  BY <2>1 DEF BeginLog, Goto, queueing
  <2>2. CASE Log(t)  BY <2>2 DEF Log, Goto
  <2>3. CASE Notify(t)  BY <2>3 DEF Notify, Woken, Goto
  <2>4. CASE BeginFlush(t)  BY <2>4 DEF BeginFlush, Goto, queueing
  <2> QED  BY <1>3, <2>1, <2>2, <2>3, <2>4 DEF CallStep
<1>4. CASE TimerTest
      BY <1>4 DEF TimerTest, TimerNext, Goto, queueing
<1>5. CASE TimerWake  BY <1>5 DEF TimerWake, Goto, queueing
<1>6. ASSUME NEW t \in Flushers, FlushStep(t) PROVE Flags /\ PhasesOK' /\ SleepIsSafe'
  <2>1. /\ pc[t] \in {"lock", "flush"} /\ UNCHANGED <<stop_, dtor, asleep, queue_>>
        /\ pc' = pc \/ pc' = [pc EXCEPT ![t] = "flush"] \/ pc' = [pc EXCEPT ![t] = After(t)]
        BY <1>6 DEF FlushStep, Acquire, FlushPolicy, StartVisits, NextVisit, Goto, queueing
  <2>2. /\ \A u \in Threads : pc'[u] # pc[u] => u = t
        /\ pc'[processor] = pc[processor]
        BY <2>1
  <2>3. CASE t = timer
    <3>1. \A u \in Callers : pc'[u] = pc[u]  BY <2>2, <2>3
    <3> QED  BY <2>1, <2>2, <2>3, <3>1
  <2>4. CASE t \in Callers
    <3>1. ~stop_ /\ dtor = "no"  BY <2>1, <2>4
    <3>2. \A u \in Callers : pc[u] = "notify" => pc'[u] = "notify"  BY <2>1, <2>2
    <3> QED  BY <2>1, <2>2, <3>1, <3>2
  <2> QED  BY <2>3, <2>4
<1>7. CASE Fetch
  <2>1. CASE Take
    <3>1. /\ pc' = [pc EXCEPT ![processor] = "deliver"] \/ pc' = [pc EXCEPT ![processor] = "fetch"]
          /\ UNCHANGED <<stop_, dtor, asleep>> /\ pc[processor] = "fetch" /\ ~asleep
          BY <1>7, <2>1 DEF Fetch, Take, StartVisits, Goto
    <3>2. \A u \in Flushers : pc'[u] = pc[u]  BY <3>1
    <3> QED  BY <3>1, <3>2
  <2>2. CASE Exit
        BY <1>7, <2>2 DEF Fetch, Exit, MayExit, Goto
  <2>3. CASE Sleep  BY <1>7, <2>3 DEF Fetch, Sleep, visits
  <2> QED  BY <1>7, <2>1, <2>2, <2>3 DEF Fetch
<1>8. CASE Deliver
  <2>1. /\ pc' = pc \/ pc' = [pc EXCEPT ![processor] = "fetch"]
        /\ UNCHANGED <<stop_, dtor, asleep, queue_>> /\ pc[processor] = "deliver"
        BY <1>8 DEF Deliver, NextVisit, Goto, queueing
  <2>2. /\ \A u \in Flushers : pc'[u] = pc[u]
        /\ pc'[processor] # "exited"
        BY <2>1
  <2> QED  BY <2>1, <2>2
<1>9. CASE (\E p \in Policies : AddPolicy(p)) \/ Spurious
  <2>1. /\ UNCHANGED <<stop_, dtor, pc, queue_>>
        /\ asleep' = asleep \/ asleep' = FALSE
        BY <1>9 DEF AddPolicy, Spurious, visits, queueing
  <2>2. PhasesOK'  BY <2>1
  <2>3. CASE asleep' = asleep  BY <2>1, <2>2, <2>3
  <2>4. CASE asleep' = FALSE  BY <2>1, <2>2, <2>4
  <2> QED  BY <2>1, <2>3, <2>4
<1>10. CASE Stop  BY <1>10 DEF Stop, visits, queueing
<1>11. CASE DestroyStep
  <2>1. CASE NotifyStop  BY <2>1 DEF NotifyStop, Woken, visits
  <2>2. CASE JoinProcessor  BY <2>2 DEF JoinProcessor, ProcessorJoinable, visits, queueing
  <2>3. CASE JoinTimer  BY <2>3 DEF JoinTimer, visits, queueing
  <2> QED  BY <1>11, <2>1, <2>2, <2>3 DEF DestroyStep
<1> QED  BY <1>2, <1>3, <1>4, <1>5, <1>6, <1>7, <1>8, <1>9, <1>10, <1>11
         DEF Next, QuietStep

\* One more caller has queued its message, or not, and fewer are about to.
LEMMA BoundKept ==
    ASSUME LoggerInv, [Next]_vars
    PROVE  WithinBound'
<1> USE ThreadNames
<1>1. /\ WithinBound /\ written \in Nat /\ DOMAIN pc = Threads
      /\ \A t \in Callers : pc[t] \in CallerLabels
      BY DEF LoggerInv, LoggerTypes
<1>2. Logging \subseteq Callers /\ IsFiniteSet(Logging) /\ Cardinality(Logging) \in Nat
  <2>1. Logging \in SUBSET Callers  BY DEF Logging
  <2> QED  BY <2>1, FS_Subset, FS_CardinalityType
<1>3. ASSUME Logging' \subseteq Logging, written' = written PROVE WithinBound'
  <2>1. Logging' \in SUBSET Logging  BY <1>3
  <2>2. IsFiniteSet(Logging') /\ Cardinality(Logging') <= Cardinality(Logging)
        BY <1>2, <2>1, FS_Subset
  <2>3. Cardinality(Logging') \in Nat  BY <2>2, FS_CardinalityType
  <2> QED  BY <1>1, <1>2, <1>3, <2>2, <2>3 DEF WithinBound
<1>4. ASSUME NEW t \in Callers, BeginLog(t) PROVE WithinBound'
  <2>1. Logging' = Logging \cup {t} /\ t \notin Logging
        BY <1>1, <1>4 DEF BeginLog, Goto, Logging
  <2>2. Cardinality(Logging') = Cardinality(Logging) + 1
        BY <1>2, <2>1, FS_AddElement
  <2> QED  BY <1>1, <1>2, <1>4, <2>2 DEF BeginLog, queueing, WithinBound
<1>5. ASSUME NEW t \in Callers, Log(t) PROVE WithinBound'
  <2>1. Logging' = Logging \ {t} /\ t \in Logging
        BY <1>1, <1>5 DEF Log, Goto, Logging
  <2>2. Cardinality(Logging') = Cardinality(Logging) - 1
        BY <1>2, <2>1, FS_RemoveElement
  <2> QED  BY <1>1, <1>2, <1>5, <2>2 DEF Log, WithinBound
<1>6. ASSUME written' = written, \A t \in Callers : pc'[t] = "log" => pc[t] = "log"
      PROVE  WithinBound'
      BY <1>3, <1>6 DEF Logging
<1>7. ASSUME NEW t \in Threads, \A u \in Threads \ {t} : pc'[u] = pc[u],
             pc'[t] # "log", written' = written
      PROVE  WithinBound'
      BY <1>6, <1>7
<1>8. ASSUME NEW t \in Threads, NEW from, NEW to, Moves(t, from, to), "log" \notin to
      PROVE  (\A u \in Threads \ {t} : pc'[u] = pc[u]) /\ pc'[t] # "log"
      BY <1>1, <1>8 DEF Moves
<1>9. \A t \in Flushers : "log" \notin {"flush", After(t)}  BY DEF After
<1>10. (\E t \in Callers : BeginLog(t) \/ Log(t)) \/ written' = written
  <2>1. ASSUME NEW t \in Callers, CallStep(t)
        PROVE  BeginLog(t) \/ Log(t) \/ written' = written
        BY <2>1 DEF CallStep, Notify, BeginFlush, queueing
  <2> QED  BY <2>1, MessageKinds DEF Next, QuietStep, CallStep, FlushStep, Acquire, FlushPolicy,
               TimerTest, TimerWake, Fetch, Spurious, Stop, DestroyStep, NotifyStop,
               JoinProcessor, JoinTimer, Deliver, AddPolicy, queueing, vars
<1>11. CASE written' = written /\ UNCHANGED visits  BY <1>6, <1>11 DEF visits
<1>12. CASE written' = written /\ \E t \in Callers : Moves(t, {"notify"}, {"idle"})
                                                 \/ Moves(t, {"idle"}, {"lock"})
                                                 \/ Moves(t, {"log"}, {"notify"})
       BY <1>7, <1>8, <1>12
<1>13. CASE written' = written /\ (Moves(timer, {"test"}, {"sleep", "exited"})
                                   \/ Moves(timer, {"sleep"}, {"lock"}))
       BY <1>7, <1>8, <1>13
<1>14. CASE written' = written /\ \E t \in Flushers, from \in {{"lock"}, {"flush"}} :
                                      Moves(t, from, {"flush", After(t)})
       BY <1>7, <1>8, <1>9, <1>14
<1>15. CASE written' = written /\ (Moves(processor, {"fetch"}, {"fetch", "deliver", "exited"})
                                   \/ Moves(processor, {"deliver"}, {"deliver", "fetch"}))
       BY <1>7, <1>8, <1>15
<1> QED  BY <1>4, <1>5, <1>10, <1>11, <1>12, <1>13, <1>14, <1>15, Threading

\* The numbers of the queue, and that of the message taken last.
LEMMA RunKept ==
    ASSUME LoggerInv, [Next]_vars
    PROVE  /\ queue_' \in Seq(Nat) /\ written' \in Nat /\ message' \in Nat
           /\ QueueIsRun'
<1>1. /\ queue_ \in Seq(Nat) /\ written \in Nat /\ message \in Nat
      /\ Len(queue_) \in Nat /\ DOMAIN pc = Threads
      /\ Run(queue_, written) /\ message = written - Len(queue_)
      /\ pc[processor] = "deliver" => message >= 1
      BY LenProperties DEF LoggerInv, LoggerTypes, QueueIsRun
<1>2. ASSUME NEW t \in Callers, LoggingStep(t)
      PROVE  /\ queue_' \in Seq(Nat) /\ written' \in Nat /\ message' \in Nat
             /\ QueueIsRun'
      BY <1>1, <1>2, RunAppend DEF LoggingStep, QueueIsRun
<1>3. CASE TakingStep
  <2>1. queue_ # <<>> /\ UNCHANGED written /\ queue_' = Tail(queue_)
        /\ message' = Head(queue_)
        BY <1>3 DEF TakingStep
  <2>2. /\ Tail(queue_) \in Seq(Nat) /\ Len(Tail(queue_)) = Len(queue_) - 1
        /\ Len(queue_) \in Nat \ {0} /\ Head(queue_) = written - Len(queue_) + 1
        /\ Run(Tail(queue_), written)
        BY <1>1, <2>1, RunTail
  <2>3. message' = message + 1  BY <1>1, <2>1, <2>2
  <2> QED  BY <1>1, <2>1, <2>2, <2>3 DEF QueueIsRun
<1>4. CASE DeliveringStep
      BY <1>1, <1>4 DEF DeliveringStep, QueueIsRun
<1>5. ASSUME NEW p \in Policies, AddingStep(p)
      PROVE  /\ queue_' \in Seq(Nat) /\ written' \in Nat /\ message' \in Nat
             /\ QueueIsRun'
      BY <1>1, <1>5 DEF AddingStep, QueueIsRun
<1>6. CASE /\ Still
           /\ \/ pc'[processor] = pc[processor]
              \/ pc[processor] = "fetch" /\ pc'[processor] = "exited"
      BY <1>1, <1>6 DEF Still, QueueIsRun
<1> QED  BY <1>2, <1>3, <1>4, <1>5, <1>6, MessageKinds

\* The policies and what they were given.
PolicyTypes == /\ policies_ \in Seq(Policies)
               /\ got \in [Policies -> Seq(Nat)] /\ since \in [Policies -> Nat]

\* Nothing that a policy has, or had to have, changes.
LEMMA PoliciesStay ==
    ASSUME LoggerInv, UNCHANGED <<got, policies_, since>>,
           \A i \in 1..Len(policies_) : Reached(i)' = Reached(i)
    PROVE  PolicyTypes' /\ PoliciesDiffer' /\ PoliciesOK'
BY DEF LoggerInv, LoggerTypes, PolicyTypes, PoliciesDiffer, PoliciesOK, PolicyOK, Added

\* A policy has the message that it is given, and those behind it have yet to get it.
LEMMA PoliciesGain ==
    ASSUME LoggerInv, DeliveringStep
    PROVE  PolicyTypes' /\ PoliciesDiffer' /\ PoliciesOK'
<1> DEFINE k == at[processor]
<1> DEFINE p == policies_[k]
<1>1. /\ UNCHANGED <<policies_, message, since>> /\ pc[processor] = "deliver"
      /\ got' = [got EXCEPT ![p] = Append(@, message)]
      BY DEF DeliveringStep
<1>2. /\ policies_ \in Seq(Policies) /\ Len(policies_) \in Nat
      /\ got \in [Policies -> Seq(Nat)] /\ since \in [Policies -> Nat]
      /\ message \in Nat /\ message >= 1 /\ k \in 1..Len(policies_)
      BY <1>1, LenProperties, ThreadNames DEF LoggerInv, LoggerTypes, VisitsOK, QueueIsRun
<1>3. p \in Policies /\ p \in Added /\ got[p] \in Seq(Nat) /\ Len(got[p]) \in Nat
      BY <1>2, ElementOfSeq, LenProperties DEF Added
<1>4. /\ Reached(k) = message - 1 /\ Run(got[p], message - 1)
      /\ message - 1 - Len(got[p]) <= since[p]
  <2>1. PolicyOK(k)  BY <1>2 DEF LoggerInv, PoliciesOK
  <2>2. Reached(k) = message - 1  BY <1>1, <1>2 DEF Reached
  <2> QED  BY <2>1, <2>2 DEF PolicyOK
<1>5. /\ Append(got[p], message) \in Seq(Nat)
      /\ Len(Append(got[p], message)) = Len(got[p]) + 1
      /\ Run(Append(got[p], message), message)
  <2>1. message - 1 \in Nat /\ (message - 1) + 1 = message  BY <1>2
  <2> QED  BY <1>3, <1>4, <2>1, RunAppend
<1>6. ASSUME NEW i \in 1..Len(policies_)
      PROVE  Reached(i)' = IF i = k THEN message ELSE Reached(i)
  <2>1. DOMAIN pc = Threads /\ DOMAIN at = Threads /\ processor \in Threads
        BY ThreadNames DEF LoggerInv, LoggerTypes
  <2>2. CASE LastVisit(processor)
    <3>1. pc'[processor] = "fetch"
          BY <2>1, <2>2 DEF DeliveringStep, NextVisit, Goto
    <3>2. i <= k  BY <1>2, <2>2 DEF LastVisit
    <3> QED  BY <1>1, <1>2, <3>1, <3>2 DEF Reached
  <2>3. CASE ~LastVisit(processor)
    <3>1. pc'[processor] = "deliver" /\ at'[processor] = k + 1
          BY <1>1, <2>1, <2>3 DEF DeliveringStep, NextVisit
    <3> QED  BY <1>1, <1>2, <3>1 DEF Reached
  <2> QED  BY <2>2, <2>3
<1>7. PolicyTypes'  BY <1>1, <1>2, <1>3, <1>5 DEF PolicyTypes
<1>8. PoliciesDiffer'  BY <1>1 DEF LoggerInv, PoliciesDiffer
<1>9. ASSUME NEW i \in 1..Len(policies_) PROVE PolicyOK(i)'
  <2>1. CASE i = k
    <3>1. got'[policies_'[i]] = Append(got[p], message)  BY <1>1, <1>2, <1>3, <2>1
    <3>2. message - (Len(got[p]) + 1) <= since[p]
      <4>1. since[p] \in Nat  BY <1>2, <1>3
      <4>2. \A m, l, s \in Nat : m - 1 - l <= s => m - (l + 1) <= s  OBVIOUS
      <4> QED  BY <1>2, <1>3, <1>4, <4>1, <4>2
    <3> QED  BY <1>1, <1>5, <1>6, <2>1, <3>1, <3>2 DEF PolicyOK
  <2>2. CASE i # k
    <3>1. policies_[i] # p  BY <1>2, <2>2 DEF LoggerInv, PoliciesDiffer
    <3>2. policies_[i] \in Policies  BY <1>2, ElementOfSeq
    <3>3. got'[policies_'[i]] = got[policies_[i]]  BY <1>1, <1>2, <3>1, <3>2
    <3>4. PolicyOK(i)  BY DEF LoggerInv, PoliciesOK
    <3> QED  BY <1>1, <1>6, <2>2, <3>3, <3>4 DEF PolicyOK
  <2> QED  BY <2>1, <2>2
<1>10. ASSUME NEW q \in Policies \ Added' PROVE got'[q] = <<>>
  <2>1. Added' = Added  BY <1>1 DEF Added
  <2> QED  BY <1>1, <1>2, <1>3, <2>1 DEF LoggerInv, PoliciesOK
<1> QED  BY <1>1, <1>7, <1>8, <1>9, <1>10 DEF PoliciesOK

\* A policy that is added has nothing, and is to get what is queued.
LEMMA PoliciesGrow ==
    ASSUME LoggerInv, NEW p \in Policies, AddingStep(p)
    PROVE  PolicyTypes' /\ PoliciesDiffer' /\ PoliciesOK'
<1> DEFINE n == Len(policies_)
<1>1. /\ p \notin Added /\ policies_' = Append(policies_, p)
      /\ since' = [since EXCEPT ![p] = written]
      /\ UNCHANGED <<message, got, pc, at>> /\ pc[processor] # "deliver"
      BY ThreadNames DEF AddingStep, Visiting
<1>2. /\ policies_ \in Seq(Policies) /\ n \in Nat
      /\ got \in [Policies -> Seq(Nat)] /\ since \in [Policies -> Nat]
      /\ message \in Nat /\ written \in Nat /\ Len(queue_) \in Nat
      /\ message = written - Len(queue_)
      BY LenProperties DEF LoggerInv, LoggerTypes, QueueIsRun
<1>3. /\ policies_' \in Seq(Policies) /\ Len(policies_') = n + 1
      /\ \A i \in 1..n : policies_'[i] = policies_[i]
      /\ policies_'[n + 1] = p
      BY <1>1, <1>2, AppendProperties
<1>4. \A i \in 1..n : policies_[i] \in Added /\ policies_[i] # p
      BY <1>1 DEF Added
<1>5. PolicyTypes'  BY <1>1, <1>2, <1>3 DEF PolicyTypes
<1>6. PoliciesDiffer'
  <2>1. ASSUME NEW i \in 1..(n + 1), NEW j \in 1..(n + 1), policies_'[i] = policies_'[j]
        PROVE  i = j
    <3>1. CASE i = n + 1 \/ j = n + 1
      <4>1. \A l \in 1..n : policies_'[l] # p  BY <1>3, <1>4
      <4>2. policies_'[i] = p /\ policies_'[j] = p  BY <1>3, <2>1, <3>1
      <4>3. i \notin 1..n /\ j \notin 1..n  BY <4>1, <4>2
      <4> QED  BY <1>2, <4>3
    <3>2. CASE i # n + 1 /\ j # n + 1
      <4>0. \A m \in Nat : \A l \in 1..(m + 1) : l # m + 1 => l \in 1..m  OBVIOUS
      <4>1. i \in 1..n /\ j \in 1..n  BY <1>2, <2>1, <3>2, <4>0
      <4>2. policies_[i] = policies_[j]  BY <1>3, <2>1, <4>1
      <4> QED  BY <4>1, <4>2 DEF LoggerInv, PoliciesDiffer
    <3> QED  BY <3>1, <3>2
  <2> QED  BY <1>3, <2>1 DEF PoliciesDiffer
<1>7. \A i : Reached(i)' = message /\ Reached(i) = message
      BY <1>1 DEF Reached
<1>8. ASSUME NEW i \in 1..(n + 1) PROVE PolicyOK(i)'
  <2>1. CASE i = n + 1
    <3>1. policies_'[i] = p /\ got'[p] = <<>> /\ since'[p] = written
          BY <1>1, <1>2, <1>3, <2>1 DEF LoggerInv, PoliciesOK
    <3>2. Run(<<>>, message) /\ Len(<<>>) = 0  BY <1>2, RunEmpty
    <3>3. message - 0 <= written  BY <1>2
    <3> QED  BY <1>7, <3>1, <3>2, <3>3 DEF PolicyOK
  <2>2. CASE i \in 1..n
    <3>1. policies_'[i] = policies_[i] /\ policies_[i] # p  BY <1>3, <1>4, <2>2
    <3>2. since'[policies_[i]] = since[policies_[i]]
          BY <1>1, <1>2, <2>2, <3>1, ElementOfSeq
    <3>3. PolicyOK(i)  BY <2>2 DEF LoggerInv, PoliciesOK
    <3> QED  BY <1>1, <1>7, <3>1, <3>2, <3>3 DEF PolicyOK
  <2> QED  BY <1>2, <2>1, <2>2
<1>9. ASSUME NEW q \in Policies \ Added' PROVE got'[q] = <<>>
  <2>1. Added \subseteq Added'
    <3>1. \A i \in 1..n : policies_[i] = policies_'[i] /\ i \in 1..Len(policies_')
          BY <1>2, <1>3
    <3> QED  BY <3>1 DEF Added
  <2> QED  BY <1>1, <2>1 DEF LoggerInv, PoliciesOK
<1> QED  BY <1>3, <1>5, <1>6, <1>8, <1>9 DEF PoliciesOK

\* In all steps policies keep their runs.
LEMMA PoliciesKept ==
    ASSUME LoggerInv, [Next]_vars
    PROVE  PolicyTypes' /\ PoliciesDiffer' /\ PoliciesOK'
<1>1. ASSUME NEW t \in Callers, LoggingStep(t)
      PROVE  PolicyTypes' /\ PoliciesDiffer' /\ PoliciesOK'
  <2>1. \A i : Reached(i)' = Reached(i)  BY <1>1 DEF LoggingStep, Reached
  <2> QED  BY <1>1, <2>1, PoliciesStay DEF LoggingStep
<1>2. CASE TakingStep
  <2>1. message' = message + 1 /\ message \in Nat
    <3>1. /\ queue_ \in Seq(Nat) /\ written \in Nat /\ Run(queue_, written)
          /\ message = written - Len(queue_) /\ queue_ # <<>> /\ message \in Nat
          /\ message' = Head(queue_)
          BY <1>2 DEF TakingStep, LoggerInv, LoggerTypes, QueueIsRun
    <3>2. Head(queue_) = written - Len(queue_) + 1 /\ Len(queue_) \in Nat
          BY <3>1, RunTail
    <3> QED  BY <3>1, <3>2
  <2>2. ASSUME NEW i \in 1..Len(policies_) PROVE Reached(i)' = Reached(i)
    <3>1. policies_ # <<>> /\ Len(policies_) \in Nat
          BY <2>2, LenProperties, EmptySeq DEF LoggerInv, LoggerTypes
    <3>2. pc'[processor] = "deliver" /\ at'[processor] = 1
          BY <1>2, <3>1, ThreadNames DEF TakingStep, StartVisits, Goto, LoggerInv, LoggerTypes
    <3>3. pc[processor] = "fetch"  BY <1>2 DEF TakingStep
    <3> QED  BY <2>1, <3>1, <3>2, <3>3 DEF Reached
  <2> QED  BY <1>2, <2>2, PoliciesStay DEF TakingStep
<1>3. CASE DeliveringStep  BY <1>3, PoliciesGain
<1>4. ASSUME NEW p \in Policies, AddingStep(p)
      PROVE  PolicyTypes' /\ PoliciesDiffer' /\ PoliciesOK'
      BY <1>4, PoliciesGrow
<1>5. CASE /\ Still /\ at'[processor] = at[processor]
           /\ \/ pc'[processor] = pc[processor]
              \/ pc[processor] = "fetch" /\ pc'[processor] = "exited"
  <2>1. \A i : Reached(i)' = Reached(i)  BY <1>5 DEF Still, Reached
  <2> QED  BY <1>5, <2>1, PoliciesStay DEF Still
<1> QED  BY <1>1, <1>2, <1>3, <1>4, <1>5, MessageKinds

\* The invariant is inductive.
LEMMA LoggerStep == LoggerInv /\ [Next]_vars => LoggerInv'
<1> SUFFICES ASSUME LoggerInv, [Next]_vars PROVE LoggerInv'
    OBVIOUS
<1>1. LoggerTypes'
      BY LabelsKept, PlacesKept, PhasesKept, RunKept, PoliciesKept DEF LoggerTypes, PolicyTypes
<1>2. VisitsOK'
  <2>1. Len(policies_') >= Len(policies_) /\ Len(policies_) \in Nat /\ Len(policies_') \in Nat
    <3>1. policies_ \in Seq(Policies) /\ Len(policies_) \in Nat
          BY LenProperties DEF LoggerInv, LoggerTypes
    <3>2. policies_' = policies_ \/ \E p \in Policies : policies_' = Append(policies_, p)
          BY MessageKinds DEF LoggingStep, TakingStep, DeliveringStep, AddingStep, Still
    <3> QED  BY <3>1, <3>2, AppendProperties
  <2> QED  BY <2>1, PlacesKept DEF VisitsOK
<1>3. AddedBefore'
  <2>1. written \in Nat /\ since \in [Policies -> Nat] /\ AddedBefore
        BY DEF LoggerInv, LoggerTypes
  <2> QED  BY <2>1, MessageKinds
           DEF LoggingStep, TakingStep, DeliveringStep, AddingStep, Still, AddedBefore
<1> QED  BY <1>1, <1>2, <1>3, BoundKept, RunKept, PoliciesKept, PhasesKept DEF LoggerInv

\* It holds of every behaviour.
LEMMA LoggerInvariant == Spec => []LoggerInv
<1> QED  BY LoggerStarts, LoggerStep, PTL DEF Spec

-------------------------------------------------------------------------------
(* What the invariant says of a logger. *)

\* A number a policy has is one of a message that was taken.
LEMMA ReachedBounds ==
    ASSUME LoggerInv, NEW i \in 1..Len(policies_)
    PROVE  Reached(i) \in Nat /\ Reached(i) <= message
BY DEF LoggerInv, LoggerTypes, QueueIsRun, Reached

\* What was logged and what was taken are within the bound.
LEMMA WrittenBounds ==
    ASSUME LoggerInv
    PROVE  /\ written \in Nat /\ message \in Nat /\ Len(queue_) \in Nat
           /\ message <= written /\ written <= MaxMessages /\ MaxMessages \in Nat
<1>1. /\ written \in Nat /\ message \in Nat /\ Len(queue_) \in Nat
      /\ message = written - Len(queue_) /\ MaxMessages \in Nat
      BY LenProperties, ThreadNames DEF LoggerInv, LoggerTypes, QueueIsRun
<1>2. Cardinality(Logging) \in Nat
  <2>1. Logging \in SUBSET Callers  BY DEF Logging
  <2> QED  BY <2>1, ThreadNames, FS_Subset, FS_CardinalityType
<1>3. written + Cardinality(Logging) <= MaxMessages  BY DEF LoggerInv, WithinBound
<1> QED  BY <1>1, <1>2, <1>3

\* The variables keep their types.
LEMMA InvTypes == LoggerInv => TypeOK
<1> SUFFICES ASSUME LoggerInv PROVE TypeOK
    OBVIOUS
<1>1. LoggerTypes /\ VisitsOK /\ PoliciesOK /\ AddedBefore  BY DEF LoggerInv
<1>2. queue_ \in Seq(1..MaxMessages)
      BY <1>1, WrittenBounds, RunBounded DEF LoggerTypes, LoggerInv, QueueIsRun
<1>3. pc \in [Threads -> {"idle", "log", "notify", "lock", "flush", "test",
                          "sleep", "fetch", "deliver", "exited"}]
      BY <1>1 DEF LoggerTypes, ProcessorLabels, TimerLabels, CallerLabels
<1>4. at \in [Threads -> 0..Len(policies_)]
  <2>1. Len(policies_) \in Nat  BY <1>1, LenProperties DEF LoggerTypes
  <2> QED  BY <1>1, <2>1 DEF LoggerTypes, VisitsOK
<1>5. ASSUME NEW p \in Policies PROVE got[p] \in Seq(1..MaxMessages)
  <2>1. CASE p \in Added
    <3>1. PICK i \in 1..Len(policies_) : p = policies_[i]  BY <2>1 DEF Added
    <3>2. Run(got[p], Reached(i))  BY <1>1, <3>1 DEF PoliciesOK, PolicyOK
    <3>3. Reached(i) \in Nat /\ Reached(i) <= MaxMessages
          BY ReachedBounds, WrittenBounds
    <3> QED  BY <1>1, <3>2, <3>3, WrittenBounds, RunBounded DEF LoggerTypes
  <2>2. CASE p \notin Added
    <3>1. got[p] = <<>>  BY <1>1, <2>2 DEF PoliciesOK
    <3> QED  BY <3>1
  <2> QED  BY <2>1, <2>2
<1>6. since \in [Policies -> 0..MaxMessages]
      BY <1>1, WrittenBounds DEF LoggerTypes, AddedBefore
<1>7. got \in [Policies -> Seq(1..MaxMessages)]  BY <1>1, <1>5 DEF LoggerTypes
<1>8. message \in 0..MaxMessages /\ written \in 0..MaxMessages  BY WrittenBounds
<1> QED  BY <1>1, <1>2, <1>3, <1>4, <1>6, <1>7, <1>8 DEF LoggerTypes, VisitsOK, TypeOK

\* Policies have runs, and in the end runs up to the last message.
LEMMA InvComplete == LoggerInv => CompleteAtDestroy
<1> SUFFICES ASSUME LoggerInv PROVE CompleteAtDestroy
    OBVIOUS
<1>1. LoggerTypes /\ PoliciesOK /\ PhasesOK /\ QueueIsRun  BY DEF LoggerInv
<1>2. ASSUME NEW p \in Policies, NEW i \in 1..(Len(got[p]) - 1)
      PROVE  got[p][i + 1] = got[p][i] + 1
  <2>1. Len(got[p]) \in Nat  BY <1>1, LenProperties DEF LoggerTypes
  <2>2. p \in Added
    <3>1. got[p] # <<>>  BY <1>2, <2>1
    <3> QED  BY <1>1, <3>1 DEF PoliciesOK
  <2>3. PICK k \in 1..Len(policies_) : p = policies_[k]  BY <2>2 DEF Added
  <2>4. Run(got[p], Reached(k)) /\ Reached(k) \in Nat
        BY <1>1, <2>3, ReachedBounds DEF PoliciesOK, PolicyOK
  <2>5. i \in 1..Len(got[p]) /\ i + 1 \in 1..Len(got[p])  BY <1>2, <2>1
  <2>6. /\ got[p][i] = Reached(k) - Len(got[p]) + i
        /\ got[p][i + 1] = Reached(k) - Len(got[p]) + (i + 1)
        BY <2>4, <2>5 DEF Run
  <2> QED  BY <1>2, <2>1, <2>4, <2>6
<1>3. ASSUME dtor = "done", NEW p \in Added, NEW m \in (since[p] + 1)..written
      PROVE  Has(p, m)
  <2>1. PICK k \in 1..Len(policies_) : p = policies_[k]  BY <1>3 DEF Added
  <2>2. p \in Policies  BY <1>1, <2>1, ElementOfSeq DEF LoggerTypes
  <2>3. pc[processor] = "exited" /\ queue_ = <<>>  BY <1>1, <1>3 DEF PhasesOK
  <2>4. message = written
    <3>1. Len(queue_) = 0  BY <2>3
    <3> QED  BY <1>1, <3>1, WrittenBounds DEF QueueIsRun
  <2>5. Reached(k) = written  BY <2>3, <2>4 DEF Reached
  <2>6. Run(got[p], written) /\ written - Len(got[p]) <= since[p]
        BY <1>1, <2>1, <2>5 DEF PoliciesOK, PolicyOK
  <2>7. /\ Len(got[p]) \in Nat /\ since[p] \in Nat /\ written \in Nat
        BY <1>1, <2>2, LenProperties DEF LoggerTypes
  <2>8. m - (written - Len(got[p])) \in 1..Len(got[p])  BY <1>3, <2>6, <2>7 DEF Run
  <2>9. got[p][m - (written - Len(got[p]))] = m
    <3>1. got[p][m - (written - Len(got[p]))]
              = written - Len(got[p]) + (m - (written - Len(got[p])))
          BY <2>6, <2>8 DEF Run
    <3>2. \A w, l \in Nat, x \in Int : w - l + (x - (w - l)) = x  OBVIOUS
    <3>3. m \in Int  BY <1>3, <2>7
    <3> QED  BY <2>7, <3>1, <3>2, <3>3
  <2> QED  BY <2>8, <2>9 DEF Has
<1> QED  BY <1>2, <1>3 DEF CompleteAtDestroy, DeliveredInOrder

-------------------------------------------------------------------------------
\* The variables of a logger keep their types, and mutex_ has one holder, for
\* any callers, policies and number of messages.
THEOREM LoggerTypeCorrect == Spec => []TypeOK
<1> QED  BY InvTypes, LoggerInvariant, PTL

\* When ~Logger() returns every policy has every message logged since it was
\* added, and until then what it has is in the order of Log() and without a gap.
THEOREM LoggerCompletes == Spec => []CompleteAtDestroy
<1> QED  BY InvComplete, LoggerInvariant, PTL

-------------------------------------------------------------------------------
(* The invariant of the console, under the steps of ConsoleLogPolicy. *)

ConsoleTypes ==
    /\ cQueue \in Seq(Nat) /\ printed \in Seq(Nat)
    /\ cStop \in BOOLEAN /\ cAsleep \in BOOLEAN
    /\ cPc \in [{processor} -> {"idle", "notify"}]
    /\ cThreadPc \in {"fetch", "print", "exited"}
    /\ cMessage \in Nat /\ cWritten \in 0..MaxMessages
    /\ cDtor \in {"no", "stopped", "joining", "draining", "done"}

\* The thread holds one message, or none.
HandLen == IF cMessage = 0 THEN 0 ELSE 1

\* What is queued is the latest messages, what is in hand came before, and all
\* before that is printed.
ConsoleRuns ==
    /\ Run(cQueue, cWritten) /\ Run(printed, Len(printed))
    /\ cMessage # 0 <=> cThreadPc = "print"
    /\ cMessage # 0 => cMessage = Len(printed) + 1
    /\ Len(printed) + HandLen + Len(cQueue) = cWritten

ConsolePhases ==
    /\ cStop <=> cDtor # "no"
    /\ cStop => cPc[processor] = "idle"
    /\ cThreadPc = "exited" => cStop /\ cQueue = <<>>
    /\ cDtor \in {"draining", "done"} => cThreadPc = "exited"

ConsoleInv == ConsoleTypes /\ ConsoleRuns /\ ConsolePhases /\ Console!SleepIsSafe

\* Before the first Write() nothing is queued, in hand or printed.
LEMMA ConsoleStarts == Console!Init => ConsoleInv
<1> SUFFICES ASSUME Console!Init PROVE ConsoleInv
    OBVIOUS
<1>1. /\ cQueue = <<>> /\ printed = <<>> /\ cMessage = 0 /\ cWritten = 0
      /\ cThreadPc = "fetch" /\ cDtor = "no" /\ cStop = FALSE /\ cAsleep = FALSE
      /\ cPc = [t \in {processor} |-> "idle"]
      BY DEF Console!Init
<1>2. Run(<<>>, 0) /\ Len(<<>>) = 0 /\ <<>> \in Seq(Nat) /\ MaxMessages \in Nat
      BY RunEmpty, ThreadNames
<1>3. ConsoleTypes
  <2>1. cPc \in [{processor} -> {"idle", "notify"}]  BY <1>1
  <2>2. cWritten \in 0..MaxMessages  BY <1>1, <1>2
  <2> QED  BY <1>1, <1>2, <2>1, <2>2 DEF ConsoleTypes
<1>4. ConsoleRuns  BY <1>1, <1>2 DEF ConsoleRuns, HandLen
<1>5. ConsolePhases  BY <1>1 DEF ConsolePhases
<1>6. Console!SleepIsSafe  BY <1>1 DEF Console!SleepIsSafe
<1> QED  BY <1>3, <1>4, <1>5, <1>6 DEF ConsoleInv

\* Write() queues a message,
LEMMA ConsoleQueues ==
    ASSUME ConsoleInv, Console!Push(processor)
    PROVE  ConsoleInv'
<1>1. /\ cPc[processor] = "idle" /\ cDtor = "no" /\ cWritten < MaxMessages
      /\ cWritten' = cWritten + 1 /\ cQueue' = Append(cQueue, cWritten + 1)
      /\ cPc' = [cPc EXCEPT ![processor] = "notify"]
      /\ UNCHANGED <<cStop, cAsleep, cThreadPc, cMessage, printed, cDtor>>
      BY DEF Console!Push, Console!Pushed
<1>2. /\ ConsoleTypes /\ ConsoleRuns /\ ConsolePhases /\ Console!SleepIsSafe
      /\ MaxMessages \in Nat /\ cWritten \in Nat
      /\ Len(cQueue) \in Nat /\ Len(printed) \in Nat
      BY LenProperties, ThreadNames DEF ConsoleInv, ConsoleTypes
<1>3. /\ cQueue' \in Seq(Nat) /\ Len(cQueue') = Len(cQueue) + 1
      /\ Run(cQueue', cWritten')
      BY <1>1, <1>2, RunAppend DEF ConsoleTypes, ConsoleRuns
<1>4. cPc'[processor] = "notify" /\ cPc' \in [{processor} -> {"idle", "notify"}]
      BY <1>1, <1>2 DEF ConsoleTypes
<1>5. ConsoleTypes'  BY <1>1, <1>2, <1>3, <1>4 DEF ConsoleTypes
<1>6. ConsoleRuns'
  <2>1. HandLen' = HandLen /\ HandLen \in Nat  BY <1>1 DEF HandLen
  <2>2. Len(printed) + HandLen + Len(cQueue) = cWritten  BY <1>2 DEF ConsoleRuns
  <2>3. /\ printed' = printed /\ cWritten' = cWritten + 1
        /\ Len(cQueue') = Len(cQueue) + 1
        BY <1>1, <1>3
  <2>4. /\ Len(printed) \in Nat /\ Len(cQueue) \in Nat /\ cWritten \in Nat
        BY <1>2
  <2>5. Len(printed) + HandLen + (Len(cQueue) + 1) = cWritten + 1
        BY <2>1, <2>2, <2>4
  <2>6. Len(printed') + HandLen' + Len(cQueue') = cWritten'
        BY <2>1, <2>3, <2>5
  <2> QED  BY <1>1, <1>2, <1>3, <2>6 DEF ConsoleRuns
<1>7. ~cStop /\ cThreadPc # "exited"  BY <1>1, <1>2 DEF ConsolePhases
<1>8. ConsolePhases'  BY <1>1, <1>2, <1>7 DEF ConsolePhases
<1>9. Console!SleepIsSafe'
      BY <1>1, <1>4, <1>7 DEF Console!SleepIsSafe
<1> QED  BY <1>5, <1>6, <1>8, <1>9 DEF ConsoleInv

\* and its thread takes it
LEMMA ConsoleTakes ==
    ASSUME ConsoleInv, Console!Fetch
    PROVE  ConsoleInv'
<1>1. /\ ConsoleTypes /\ ConsoleRuns /\ ConsolePhases /\ Console!SleepIsSafe
      /\ cWritten \in Nat /\ Len(cQueue) \in Nat /\ Len(printed) \in Nat
      BY LenProperties, ThreadNames DEF ConsoleInv, ConsoleTypes
<1>2. /\ cThreadPc = "fetch" /\ ~cAsleep /\ cMessage = 0
      /\ UNCHANGED <<cStop, cPc, printed, cWritten, cDtor>>
      BY <1>1 DEF Console!Fetch, ConsoleRuns
<1>3. CASE Console!Take
  <2>1. /\ cQueue # <<>> /\ cMessage' = Head(cQueue) /\ cQueue' = Tail(cQueue)
        /\ cThreadPc' = "print" /\ UNCHANGED cAsleep
        BY <1>3 DEF Console!Take
  <2>2. /\ cQueue' \in Seq(Nat) /\ Len(cQueue') = Len(cQueue) - 1
        /\ Len(cQueue) \in Nat \ {0}
        /\ cMessage' = cWritten - Len(cQueue) + 1 /\ Run(cQueue', cWritten)
        BY <1>1, <2>1, RunTail DEF ConsoleTypes, ConsoleRuns
  <2>3. Len(printed) + Len(cQueue) = cWritten  BY <1>1, <1>2 DEF ConsoleRuns, HandLen
  <2>4. cMessage' = Len(printed) + 1 /\ cMessage' # 0  BY <1>1, <2>2, <2>3
  <2>5. ConsoleTypes'  BY <1>1, <1>2, <2>1, <2>2, <2>4 DEF ConsoleTypes
  <2>6. ConsoleRuns'  BY <1>1, <1>2, <2>1, <2>2, <2>3, <2>4 DEF ConsoleRuns, HandLen
  <2>7. cDtor \notin {"draining", "done"}  BY <1>1, <1>2 DEF ConsolePhases
  <2>8. ConsolePhases' /\ Console!SleepIsSafe'
        BY <1>1, <1>2, <2>1, <2>7 DEF ConsolePhases, Console!SleepIsSafe
  <2> QED  BY <2>5, <2>6, <2>8 DEF ConsoleInv
<1>4. CASE Console!Exit
      BY <1>1, <1>2, <1>4 DEF Console!Exit, Console!MayExit, ConsoleTypes, ConsoleRuns,
            ConsolePhases, HandLen, Console!SleepIsSafe, ConsoleInv
<1>5. CASE Console!Sleep
      BY <1>1, <1>2, <1>5 DEF Console!Sleep, ConsoleTypes, ConsoleRuns,
            ConsolePhases, HandLen, Console!SleepIsSafe, ConsoleInv
<1> QED  BY <1>3, <1>4, <1>5 DEF Console!Fetch

\* and prints it.
LEMMA ConsolePrints ==
    ASSUME ConsoleInv, Console!PrintLine
    PROVE  /\ ConsoleInv'
           /\ printed' = Append(printed, Len(printed) + 1) /\ Len(printed) < cWritten
           /\ UNCHANGED <<cWritten, cDtor, cPc>>
<1>1. /\ ConsoleTypes /\ ConsoleRuns /\ ConsolePhases /\ Console!SleepIsSafe
      /\ cWritten \in Nat /\ Len(cQueue) \in Nat /\ Len(printed) \in Nat
      BY LenProperties, ThreadNames DEF ConsoleInv, ConsoleTypes
<1>2. /\ cThreadPc = "print" /\ printed' = Append(printed, cMessage)
      /\ cMessage' = 0 /\ cThreadPc' = "fetch"
      /\ UNCHANGED <<cQueue, cStop, cAsleep, cPc, cWritten, cDtor>>
      BY DEF Console!PrintLine
<1>3. cMessage # 0 /\ cMessage = Len(printed) + 1  BY <1>1, <1>2 DEF ConsoleRuns
<1>4. /\ printed' \in Seq(Nat) /\ Len(printed') = Len(printed) + 1
      /\ Run(printed', Len(printed) + 1)
      BY <1>1, <1>2, <1>3, RunAppend DEF ConsoleTypes, ConsoleRuns
<1>5. Len(printed) + 1 + Len(cQueue) = cWritten  BY <1>1, <1>3 DEF ConsoleRuns, HandLen
<1>6. ConsoleTypes'  BY <1>1, <1>2, <1>4 DEF ConsoleTypes
<1>7. ConsoleRuns'  BY <1>1, <1>2, <1>4, <1>5 DEF ConsoleRuns, HandLen
<1>8. ConsolePhases' /\ Console!SleepIsSafe'
      BY <1>1, <1>2 DEF ConsolePhases, Console!SleepIsSafe
<1> QED  BY <1>1, <1>2, <1>3, <1>5, <1>6, <1>7, <1>8 DEF ConsoleInv

\* What the loop behind the join would print was printed before.
LEMMA ConsoleDrains ==
    ASSUME ConsoleInv, Console!Drain
    PROVE  /\ ConsoleInv' /\ UNCHANGED <<printed, cWritten, cPc>>
           /\ cDtor' = "done" /\ Len(printed) = cWritten
<1>1. /\ ConsoleTypes /\ ConsoleRuns /\ ConsolePhases /\ Console!SleepIsSafe
      /\ cWritten \in Nat /\ Len(cQueue) \in Nat /\ Len(printed) \in Nat
      BY LenProperties, ThreadNames DEF ConsoleInv, ConsoleTypes
<1>2. /\ cDtor = "draining" /\ printed' = printed \o cQueue /\ cQueue' = <<>>
      /\ cDtor' = "done"
      /\ UNCHANGED <<cStop, cAsleep, cPc, cThreadPc, cMessage, cWritten>>
      BY DEF Console!Drain
<1>3. cThreadPc = "exited" /\ cQueue = <<>> /\ Len(cQueue) = 0 /\ cStop
      BY <1>1, <1>2 DEF ConsolePhases
<1>4. printed' = printed
  <2>1. printed \in Seq(Nat)  BY <1>1 DEF ConsoleTypes
  <2> QED  BY <1>2, <1>3, <2>1, ConcatEmptySeq
<1>5. UNCHANGED cQueue /\ cMessage = 0  BY <1>1, <1>2, <1>3 DEF ConsoleRuns
<1>6. Len(printed) = cWritten  BY <1>1, <1>3, <1>5 DEF ConsoleRuns, HandLen
<1>7. ConsoleTypes' /\ ConsoleRuns'
      BY <1>1, <1>2, <1>4, <1>5 DEF ConsoleTypes, ConsoleRuns, HandLen
<1>8. ConsolePhases'  BY <1>1, <1>2, <1>3, <1>5 DEF ConsolePhases
<1>9. Console!SleepIsSafe'
      BY <1>1, <1>2, <1>3 DEF ConsolePhases, Console!SleepIsSafe
<1> QED  BY <1>2, <1>4, <1>6, <1>7, <1>8, <1>9 DEF ConsoleInv

\* The other steps move no message.
LEMMA ConsoleSignals ==
    ASSUME ConsoleInv,
           \/ Console!Notify(processor) \/ Console!Spurious
           \/ Console!Stop \/ Console!NotifyStop \/ Console!Join
           \/ UNCHANGED cVars
    PROVE  ConsoleInv'
<1>1. ConsoleTypes /\ ConsoleRuns /\ ConsolePhases /\ Console!SleepIsSafe
      BY DEF ConsoleInv
<1>2. UNCHANGED <<cQueue, cThreadPc, cMessage, printed, cWritten>>
      BY DEF Console!Notify, Console!Spurious, Console!Stop, Console!NotifyStop, Console!Join,
             cVars
<1>3. ConsoleRuns'  BY <1>1, <1>2 DEF ConsoleRuns, HandLen
<1>4. ConsoleTypes'
      BY <1>1, <1>2 DEF Console!Notify, Console!Spurious, Console!Stop, Console!NotifyStop,
            Console!Join, Console!Woken, cVars, ConsoleTypes
<1>5. ConsolePhases'
      BY <1>1, <1>2 DEF Console!Notify, Console!Spurious, Console!Stop, Console!NotifyStop,
            Console!Join, Console!Joinable, cVars, ConsolePhases, ConsoleTypes
<1>6. Console!SleepIsSafe'
      BY <1>1, <1>2 DEF Console!Notify, Console!Spurious, Console!Stop, Console!NotifyStop,
            Console!Join, Console!Woken, cVars, ConsolePhases, ConsoleTypes,
            Console!SleepIsSafe
<1> QED  BY <1>3, <1>4, <1>5, <1>6 DEF ConsoleInv

\* What the console's invariant says of it: nothing is missing.
LEMMA ConsoleWhole ==
    ASSUME ConsoleInv
    PROVE  Console!TypeOK /\ Console!NoneMissing /\ Console!SleepIsSafe
<1>1. /\ ConsoleTypes /\ ConsoleRuns /\ ConsolePhases /\ Console!SleepIsSafe
      /\ cWritten \in Nat /\ Len(cQueue) \in Nat /\ Len(printed) \in Nat
      /\ MaxMessages \in Nat /\ cWritten <= MaxMessages /\ cMessage \in Nat
      BY LenProperties, ThreadNames DEF ConsoleInv, ConsoleTypes
<1>2. /\ Len(printed) + HandLen + Len(cQueue) = cWritten
      /\ Run(printed, Len(printed)) /\ Run(cQueue, cWritten)
      /\ cMessage # 0 => cMessage = Len(printed) + 1
      BY <1>1 DEF ConsoleRuns
<1>3. HandLen \in Nat /\ (cMessage # 0 => HandLen = 1) /\ (cMessage = 0 => HandLen = 0)
      BY DEF HandLen
<1>4. Console!TypeOK
  <2>1. Len(printed) <= MaxMessages  BY <1>1, <1>2, <1>3
  <2>2. cMessage \in 0..MaxMessages  BY <1>1, <1>2, <1>3
  <2>3. printed \in Seq(1..MaxMessages) /\ cQueue \in Seq(1..MaxMessages)
        BY <1>1, <1>2, <2>1, RunBounded DEF ConsoleTypes
  <2> QED  BY <1>1, <2>2, <2>3
           DEF ConsoleTypes, ConsoleRuns, ConsolePhases, Console!TypeOK
<1>5. Console!NoneMissing
  <2> DEFINE hand == Console!InHand
  <2> DEFINE shown == printed \o hand
  <2>1. /\ hand \in Seq(Nat) /\ Len(hand) = HandLen
        /\ Run(hand, Len(printed) + Len(hand))
    <3>1. CASE cMessage = 0
      <4>1. hand = <<>>  BY <3>1 DEF Console!InHand
      <4> QED  BY <1>1, <1>3, <3>1, <4>1, RunEmpty
    <3>2. CASE cMessage # 0
      <4>1. hand = <<cMessage>>  BY <3>2 DEF Console!InHand
      <4>2. /\ <<cMessage>> \in Seq(Nat) /\ Len(<<cMessage>>) = 1
            /\ <<cMessage>>[1] = cMessage
            BY <1>1
      <4>3. Run(<<cMessage>>, Len(printed) + 1)  BY <1>1, <1>2, <3>2, <4>2 DEF Run
      <4> QED  BY <1>3, <3>2, <4>1, <4>2, <4>3
    <3> QED  BY <3>1, <3>2
  <2>2. /\ shown \in Seq(Nat) /\ Len(shown) = Len(printed) + HandLen
        /\ Run(shown, Len(printed) + HandLen)
        BY <1>1, <1>2, <2>1, RunConcat DEF ConsoleTypes
  <2>3. /\ shown \o cQueue \in Seq(Nat) /\ Len(shown \o cQueue) = cWritten
        /\ Run(shown \o cQueue, cWritten)
    <3>1. Len(printed) + HandLen \in Nat  BY <1>1, <1>3
    <3>2. cQueue \in Seq(Nat)  BY <1>1 DEF ConsoleTypes
    <3> HIDE DEF shown
    <3> QED  BY <1>2, <2>2, <3>1, <3>2, RunConcat
  <2> HIDE DEF shown
  <2>4. shown \o cQueue = [i \in 1..cWritten |-> i]  BY <2>3, RunFromOne
  <2> USE DEF shown
  <2> QED  BY <2>4 DEF Console!NoneMissing
<1> QED  BY <1>1, <1>4, <1>5

-------------------------------------------------------------------------------
(* The logger and its console. *)

\* Nothing is logged before the console is added; the console was given what it
\* is known by, and a message that the processor is in the middle of giving it;
\* it outlives the logger.
LinkInv ==
    /\ console \notin Added => written = 0 /\ Logging = {}
    /\ console \in Added => since[console] = 0
    /\ cWritten = Len(got[console]) + (IF cPc[processor] = "notify" THEN 1 ELSE 0)
    /\ cPc[processor] = "notify" =>
          pc[processor] = "deliver" /\ policies_[at[processor]] = console
    /\ cDtor # "no" => dtor = "done"

PipeInv == LoggerInv /\ ConsoleInv /\ LinkInv

\* It holds at first.
LEMMA PipeStarts == PipeInit => PipeInv
<1> SUFFICES ASSUME PipeInit PROVE PipeInv
    OBVIOUS
<1>1. LoggerInv /\ ConsoleInv  BY LoggerStarts, ConsoleStarts DEF PipeInit
<1>2. /\ written = 0 /\ policies_ = <<>> /\ got = [p \in Policies |-> <<>>]
      /\ pc = [t \in Threads |-> CASE t = processor -> "fetch"
                                   [] t = timer -> "test"
                                   [] OTHER -> "idle"]
      BY DEF PipeInit, Init
<1>3. /\ cPc = [t \in {processor} |-> "idle"] /\ cWritten = 0 /\ cDtor = "no"
      BY DEF PipeInit, Console!Init
<1>4. Added = {} /\ Logging = {}  BY <1>2, ThreadNames DEF Added, Logging
<1>5. got[console] = <<>> /\ Len(<<>>) = 0
      BY <1>2, PipelineAssumption DEF PipelineAssumption
<1>6. LinkInv  BY <1>2, <1>3, <1>4, <1>5 DEF LinkInv
<1> QED  BY <1>1, <1>6 DEF PipeInv

\* A step of the logger on its own: deliveries go on where they are, and only
\* AddPolicy() adds the console.
LEMMA QuietLink ==
    ASSUME PipeInv, LoggerOnly
    PROVE  LinkInv'
<1>1. /\ LoggerInv /\ LinkInv /\ QuietStep /\ UNCHANGED cVars
      /\ \A t \in Callers : pc'[t] = "log" => console \in Added
      BY DEF PipeInv, LoggerOnly
<1>2. /\ DOMAIN pc = Threads /\ policies_ \in Seq(Policies) /\ Len(policies_) \in Nat
      /\ since \in [Policies -> Nat] /\ console \in Policies
      BY <1>1, LenProperties, PipelineAssumption
      DEF LoggerInv, LoggerTypes, PipelineAssumption
<1>3. UNCHANGED <<cPc, cWritten, cDtor>>  BY <1>1 DEF cVars
<1>4. /\ UNCHANGED got
      /\ \/ UNCHANGED <<policies_, since>>
         \/ \E p \in Policies : AddPolicy(p)
      BY <1>1 DEF QuietStep, CallStep, BeginLog, Log, Notify, BeginFlush, FlushStep, Acquire,
            FlushPolicy, TimerTest, TimerWake, Fetch, Spurious, Stop, DestroyStep, NotifyStop,
            JoinProcessor, JoinTimer, AddPolicy
<1>5. written' = written \/ \E t \in Callers : pc[t] = "log"
      BY <1>1 DEF QuietStep, CallStep, BeginLog, Log, Notify, BeginFlush, FlushStep, Acquire,
            FlushPolicy, TimerTest, TimerWake, Fetch, Spurious, Stop, DestroyStep, NotifyStop,
            JoinProcessor, JoinTimer, AddPolicy, queueing
<1>6. dtor = "done" => dtor' = "done"
      BY <1>1 DEF QuietStep, CallStep, BeginLog, Log, Notify, BeginFlush, FlushStep, Acquire,
            FlushPolicy, TimerTest, TimerWake, Fetch, Spurious, Stop, DestroyStep, NotifyStop,
            JoinProcessor, JoinTimer, AddPolicy
<1>7. pc[processor] = "deliver" =>
          pc'[processor] = "deliver" /\ at'[processor] = at[processor] /\ UNCHANGED policies_
  <2>1. ASSUME pc[processor] = "deliver"
        PROVE  /\ \A p \in Policies : ~AddPolicy(p)
               /\ ~Fetch
        BY <2>1, ThreadNames DEF AddPolicy, Visiting, Fetch
  <2>2. ASSUME NEW t \in Callers, CallStep(t)
        PROVE  pc'[processor] = pc[processor] /\ at' = at
        BY <1>2, <2>2, ThreadNames DEF CallStep, BeginLog, Log, Notify, BeginFlush, Goto
  <2>3. ASSUME NEW t \in Flushers, FlushStep(t)
        PROVE  pc'[processor] = pc[processor] /\ at'[processor] = at[processor]
    <3>1. DOMAIN at = Threads  BY <1>1 DEF LoggerInv, LoggerTypes
    <3> QED  BY <1>2, <2>3, <3>1, ThreadNames
             DEF FlushStep, Acquire, FlushPolicy, StartVisits, NextVisit, Goto
  <2>4. ASSUME TimerTest \/ TimerWake
        PROVE  pc'[processor] = pc[processor] /\ at' = at
        BY <1>2, <2>4, ThreadNames DEF TimerTest, TimerWake, Goto
  <2>5. ASSUME Spurious \/ Stop \/ DestroyStep
        PROVE  pc' = pc /\ at' = at
        BY <2>5 DEF Spurious, Stop, DestroyStep, NotifyStop, JoinProcessor, JoinTimer, visits
  <2> QED  BY <1>1, <1>4, <2>1, <2>2, <2>3, <2>4, <2>5 DEF QuietStep
<1>8. Added \subseteq Added'
  <2>1. CASE UNCHANGED policies_  BY <2>1 DEF Added
  <2>2. ASSUME NEW p \in Policies, AddPolicy(p) PROVE Added \subseteq Added'
    <3>1. policies_' = Append(policies_, p)  BY <2>2 DEF AddPolicy
    <3>2. \A i \in 1..Len(policies_) : policies_'[i] = policies_[i] /\ i \in 1..Len(policies_')
          BY <1>2, <3>1, AppendProperties
    <3> QED  BY <3>2 DEF Added
  <2> QED  BY <1>4, <2>1, <2>2
<1>9. console \notin Added' => written' = 0 /\ Logging' = {}
      BY <1>1, <1>5, <1>8 DEF LinkInv, Logging
<1>10. console \in Added' => since'[console] = 0
  <2>1. CASE UNCHANGED <<policies_, since>>  BY <1>1, <2>1 DEF LinkInv, Added
  <2>2. ASSUME NEW p \in Policies, AddPolicy(p), console \in Added'
        PROVE  since'[console] = 0
    <3>1. /\ policies_' = Append(policies_, p) /\ p \notin Added
          /\ since' = [since EXCEPT ![p] = written]
          BY <2>2 DEF AddPolicy
    <3>2. CASE console \in Added  BY <1>1, <1>2, <3>1, <3>2 DEF LinkInv
    <3>3. CASE console \notin Added
      <4>1. Added' \subseteq Added \cup {p}
        <5>1. /\ Len(policies_') = Len(policies_) + 1
              /\ \A i \in 1..Len(policies_) : policies_'[i] = policies_[i]
              /\ policies_'[Len(policies_) + 1] = p
              BY <1>2, <3>1, AppendProperties
        <5>2. \A i \in 1..Len(policies_') : i \in 1..Len(policies_) \/ i = Len(policies_) + 1
              BY <1>2, <5>1
        <5> QED  BY <5>1, <5>2 DEF Added
      <4>2. console = p  BY <2>2, <3>3, <4>1
      <4> QED  BY <1>1, <1>2, <3>1, <3>3, <4>2 DEF LinkInv
    <3> QED  BY <3>2, <3>3
  <2> QED  BY <1>4, <2>1, <2>2
<1> QED  BY <1>1, <1>3, <1>4, <1>6, <1>7, <1>9, <1>10 DEF LinkInv

\* A step in which the processor gives a message to a policy.
LEMMA DeliverLink ==
    ASSUME PipeInv, WriteToConsole \/ WriteElsewhere
    PROVE  LinkInv'
<1>1. /\ Deliver /\ pc[processor] = "deliver"
      /\ LoggerInv /\ LinkInv /\ ConsoleInv /\ processor \in Threads
      BY ThreadNames DEF WriteToConsole, WriteElsewhere, PipeInv
<1>2. /\ UNCHANGED <<policies_, since, written, dtor>>
      /\ got' = [got EXCEPT ![policies_[at[processor]]] = Append(@, message)]
      /\ \/ pc' = [pc EXCEPT ![processor] = "fetch"] /\ at' = [at EXCEPT ![processor] = 0]
         \/ at' = [at EXCEPT ![processor] = @ + 1] /\ pc' = pc
      BY <1>1 DEF Deliver, queueing, NextVisit, Goto
<1>3. /\ got \in [Policies -> Seq(Nat)] /\ message \in Nat /\ DOMAIN pc = Threads
      /\ console \in Policies /\ cPc \in [{processor} -> {"idle", "notify"}]
      /\ policies_ \in Seq(Policies) /\ at[processor] \in 1..Len(policies_)
      BY <1>1, LenProperties, PipelineAssumption
      DEF LoggerInv, LoggerTypes, VisitsOK, ConsoleInv, ConsoleTypes, PipelineAssumption
<1>4. Added' = Added /\ Logging' = Logging
      BY <1>2, <1>3, ThreadNames DEF Added, Logging
<1>5. CASE WriteToConsole
  <2>1. /\ policies_[at[processor]] = console
        /\ cPc[processor] = "notify" /\ cPc' = [cPc EXCEPT ![processor] = "idle"]
        /\ UNCHANGED <<cWritten, cDtor>>
        BY <1>5 DEF WriteToConsole, Console!Notify
  <2>2. cPc'[processor] = "idle"  BY <1>3, <2>1
  <2>3. got'[console] = Append(got[console], message)  BY <1>2, <1>3, <2>1
  <2>4. Len(got'[console]) = Len(got[console]) + 1 /\ Len(got[console]) \in Nat
        BY <1>3, <2>3, AppendProperties, LenProperties
  <2>5. cWritten = Len(got[console]) + 1  BY <1>1, <2>1 DEF LinkInv
  <2>6. cWritten' = Len(got'[console]) + 0  BY <2>1, <2>4, <2>5
  <2>7. console \in Added' => since'[console] = 0  BY <1>1, <1>2, <1>4 DEF LinkInv
  <2>8. console \notin Added' => written' = 0 /\ Logging' = {}
        BY <1>1, <1>2, <1>4 DEF LinkInv
  <2>9. cDtor' # "no" => dtor' = "done"  BY <1>1, <1>2, <2>1 DEF LinkInv
  <2> QED  BY <2>2, <2>6, <2>7, <2>8, <2>9 DEF LinkInv
<1>6. CASE WriteElsewhere
  <2>1. policies_[at[processor]] # console /\ UNCHANGED <<cPc, cWritten, cDtor>>
        BY <1>6 DEF WriteElsewhere, cVars
  <2>2. got'[console] = got[console]  BY <1>2, <1>3, <2>1
  <2>3. cPc[processor] # "notify"  BY <1>1, <2>1 DEF LinkInv
  <2> QED  BY <1>1, <1>2, <1>4, <2>1, <2>2, <2>3 DEF LinkInv
<1> QED  BY <1>5, <1>6

\* A step of the console on its own.
LEMMA ConsoleLink ==
    ASSUME PipeInv, BeginWrite \/ ConsoleThread \/ DropConsole
    PROVE  LinkInv'
<1>1. LinkInv /\ ConsoleInv /\ UNCHANGED vars
      BY DEF PipeInv, BeginWrite, ConsoleThread, DropConsole
<1>2. UNCHANGED <<policies_, pc, at, got, since, written, dtor>>
      BY <1>1 DEF vars, visits, queueing
<1>3. Added' = Added /\ Logging' = Logging  BY <1>2 DEF Added, Logging
<1>4. CASE BeginWrite
  <2>1. /\ pc[processor] = "deliver" /\ policies_[at[processor]] = console
        /\ cPc[processor] = "idle" /\ cPc' = [cPc EXCEPT ![processor] = "notify"]
        /\ cWritten' = cWritten + 1 /\ UNCHANGED cDtor
        BY <1>4 DEF BeginWrite, Console!Push
  <2>2. cPc'[processor] = "notify"  BY <1>1, <2>1 DEF ConsoleInv, ConsoleTypes
  <2>3. got \in [Policies -> Seq(Nat)] /\ console \in Policies /\ Len(got[console]) \in Nat
        BY LenProperties, PipelineAssumption
        DEF PipeInv, LoggerInv, LoggerTypes, PipelineAssumption
  <2>4. cWritten = Len(got[console])  BY <1>1, <2>1, <2>3 DEF LinkInv
  <2> QED  BY <1>1, <1>2, <1>3, <2>1, <2>2, <2>3, <2>4 DEF LinkInv
<1>5. CASE ConsoleThread
  <2>1. UNCHANGED <<cPc, cWritten, cDtor>>
        BY <1>5 DEF ConsoleThread, Console!ThreadStep, Console!Fetch, Console!PrintLine,
                    Console!Spurious
  <2> QED  BY <1>1, <1>2, <1>3, <2>1 DEF LinkInv
<1>6. CASE DropConsole
  <2>1. dtor = "done" /\ UNCHANGED <<cPc, cWritten>>
        BY <1>6 DEF DropConsole, Console!Stop, Console!DestroyStep, Console!NotifyStop,
                    Console!Join, Console!Drain
  <2> QED  BY <1>1, <1>2, <1>3, <2>1 DEF LinkInv
<1> QED  BY <1>4, <1>5, <1>6

\* Every step of the pipeline is one of the logger, or none, and one of the
\* console, or none; the invariant is inductive.
LEMMA PipeStep == PipeInv /\ [PipeNext]_pipeVars => PipeInv'
<1> SUFFICES ASSUME PipeInv, [PipeNext]_pipeVars PROVE PipeInv'
    OBVIOUS
<1>1. [Next]_vars
      BY DEF PipeNext, LoggerOnly, BeginWrite, WriteToConsole, WriteElsewhere, ConsoleThread,
             DropConsole, Next, pipeVars
<1>2. LoggerInv'  BY <1>1, LoggerStep DEF PipeInv
<1>3. \/ Console!Push(processor) \/ Console!Fetch \/ Console!PrintLine \/ Console!Drain
      \/ Console!Notify(processor) \/ Console!Spurious
      \/ Console!Stop \/ Console!NotifyStop \/ Console!Join
      \/ UNCHANGED cVars
      BY DEF PipeNext, LoggerOnly, BeginWrite, WriteToConsole, WriteElsewhere, ConsoleThread,
             DropConsole, Console!ThreadStep, Console!DestroyStep, pipeVars
<1>4. ConsoleInv'
      BY <1>3, ConsoleQueues, ConsoleTakes, ConsolePrints, ConsoleDrains, ConsoleSignals
      DEF PipeInv
<1>5. LinkInv'
  <2>1. CASE UNCHANGED pipeVars
        BY <2>1 DEF pipeVars, vars, visits, queueing, cVars, PipeInv, LinkInv, Added, Logging
  <2>2. CASE PipeNext  BY <2>2, QuietLink, DeliverLink, ConsoleLink DEF PipeNext
  <2> QED  BY <2>1, <2>2
<1> QED  BY <1>2, <1>4, <1>5 DEF PipeInv

\* It holds of every behaviour.
LEMMA PipeInvariant == PipeSpec => []PipeInv
<1> QED  BY PipeStarts, PipeStep, PTL DEF PipeSpec

-------------------------------------------------------------------------------
(* What the invariant says of the pipeline. *)

\* What the console was given and what is about to be are all messages taken.
LEMMA GivenIsRun ==
    ASSUME PipeInv
    PROVE  /\ got[console] \in Seq(Nat) /\ ToConsole \in Seq(Nat)
           /\ Len(got[console]) \in Nat /\ Len(ToConsole) \in Nat
           /\ Run(got[console], Len(got[console]))
           /\ Run(ToConsole, message) /\ Len(got[console]) + Len(ToConsole) = message
<1>1. LoggerInv /\ LinkInv  BY DEF PipeInv
<1>2. /\ console \in Policies /\ got[console] \in Seq(Nat) /\ Len(got[console]) \in Nat
      /\ message \in Nat /\ message <= written /\ written \in Nat
      /\ policies_ \in Seq(Policies) /\ Len(policies_) \in Nat
      /\ pc[processor] = "deliver" => message >= 1 /\ at[processor] \in 1..Len(policies_)
      BY <1>1, LenProperties, WrittenBounds, PipelineAssumption, ThreadNames
      DEF LoggerInv, LoggerTypes, VisitsOK, QueueIsRun, PipelineAssumption
<1>3. ASSUME ToConsole = <<>>, Len(got[console]) = message, Run(got[console], message)
      PROVE  /\ ToConsole \in Seq(Nat) /\ Len(ToConsole) \in Nat
             /\ Run(got[console], Len(got[console]))
             /\ Run(ToConsole, message) /\ Len(got[console]) + Len(ToConsole) = message
  <2>1. <<>> \in Seq(Nat) /\ Len(<<>>) = 0 /\ Run(<<>>, message)  BY <1>2, RunEmpty
  <2> QED  BY <1>2, <1>3, <2>1
<1>4. ASSUME ToConsole = <<message>>, Len(got[console]) = message - 1,
             Run(got[console], message - 1), message >= 1
      PROVE  /\ ToConsole \in Seq(Nat) /\ Len(ToConsole) \in Nat
             /\ Run(got[console], Len(got[console]))
             /\ Run(ToConsole, message) /\ Len(got[console]) + Len(ToConsole) = message
  <2>1. /\ <<message>> \in Seq(Nat) /\ Len(<<message>>) = 1 /\ <<message>>[1] = message
        BY <1>2
  <2>2. Run(<<message>>, message)  BY <1>2, <1>4, <2>1 DEF Run
  <2> QED  BY <1>2, <1>4, <2>1, <2>2
<1>5. CASE console \notin Added
  <2>1. written = 0 /\ message = 0  BY <1>1, <1>2, <1>5 DEF LinkInv
  <2>2. got[console] = <<>>  BY <1>1, <1>2, <1>5 DEF LoggerInv, PoliciesOK
  <2>3. ToConsole = <<>>  BY <1>2, <2>1 DEF ToConsole
  <2>4. Len(got[console]) = message /\ Run(got[console], message)
        BY <1>2, <2>1, <2>2, RunEmpty
  <2> QED  BY <1>2, <1>3, <2>3, <2>4
<1>6. CASE console \in Added
  <2>1. PICK k \in 1..Len(policies_) : console = policies_[k]  BY <1>6 DEF Added
  <2>2. /\ Run(got[console], Reached(k)) /\ Reached(k) - Len(got[console]) <= since[console]
        /\ since[console] = 0 /\ Reached(k) \in Nat
        BY <1>1, <1>6, <2>1, ReachedBounds DEF LoggerInv, PoliciesOK, PolicyOK, LinkInv
  <2>3. Len(got[console]) = Reached(k)  BY <1>2, <2>2 DEF Run
  <2>4. \A i \in 1..Len(policies_) : policies_[i] = console => i = k
        BY <1>1, <2>1 DEF LoggerInv, PoliciesDiffer
  <2>5. CASE pc[processor] = "deliver" /\ at[processor] <= k
    <3>1. \A i \in 1..(at[processor] - 1) : i \in 1..Len(policies_) /\ i # k
          BY <1>2, <2>5
    <3>2. ToConsole = <<message>>  BY <2>4, <2>5, <3>1 DEF ToConsole
    <3>3. Reached(k) = message - 1  BY <2>5 DEF Reached
    <3> QED  BY <1>2, <1>4, <2>2, <2>3, <2>5, <3>2, <3>3
  <2>6. CASE ~(pc[processor] = "deliver" /\ at[processor] <= k)
    <3>1. pc[processor] = "deliver" => k \in 1..(at[processor] - 1)  BY <1>2, <2>6
    <3>2. ToConsole = <<>>  BY <2>1, <3>1 DEF ToConsole
    <3>3. Reached(k) = message  BY <2>6 DEF Reached
    <3> QED  BY <1>2, <1>3, <2>2, <2>3, <3>2, <3>3
  <2> QED  BY <2>5, <2>6
<1> QED  BY <1>5, <1>6

\* Nothing is missing in the pipeline.
LEMMA InvWhole == PipeInv => NothingMissing
<1> SUFFICES ASSUME PipeInv PROVE NothingMissing
    OBVIOUS
<1>1. /\ queue_ \in Seq(Nat) /\ Len(queue_) \in Nat /\ written \in Nat /\ message \in Nat
      /\ Run(queue_, written) /\ written = message + Len(queue_)
      BY WrittenBounds DEF PipeInv, LoggerInv, LoggerTypes, QueueIsRun
<1> DEFINE taken == got[console] \o ToConsole
<1>2. taken \in Seq(Nat) /\ Len(taken) = message /\ Run(taken, message)
  <2>1. Run(ToConsole, Len(got[console]) + Len(ToConsole))  BY GivenIsRun
  <2> QED  BY <2>1, GivenIsRun, RunConcat
<1> HIDE DEF taken
<1>3. /\ taken \o queue_ \in Seq(Nat) /\ Len(taken \o queue_) = written
      /\ Run(taken \o queue_, written)
      BY <1>1, <1>2, RunConcat
<1>4. taken \o queue_ = [i \in 1..written |-> i]  BY <1>3, RunFromOne
<1>5. Console!NoneMissing  BY ConsoleWhole DEF PipeInv
<1> USE DEF taken
<1> QED  BY <1>4, <1>5 DEF NothingMissing

\* What is printed is the first messages in order, no more than the console was
\* given, which is no more than was logged.
ShownOK == /\ Shown = [i \in 1..Len(printed) |-> i]
           /\ Len(printed) \in Nat /\ cWritten \in Nat /\ written \in Nat
           /\ Len(printed) <= cWritten /\ cWritten <= written

\* The n-th Write() of the console is that of the n-th message logged.
LEMMA ShownInOrder == PipeInv => ShownOK
<1> SUFFICES ASSUME PipeInv PROVE ShownOK
    OBVIOUS
<1>1. /\ ConsoleInv /\ LinkInv /\ LoggerInv
      /\ printed \in Seq(Nat) /\ Len(printed) \in Nat /\ cWritten \in Nat
      /\ Len(cQueue) \in Nat
      BY LenProperties DEF PipeInv, ConsoleInv, ConsoleTypes
<1>2. Run(printed, Len(printed)) /\ Len(printed) <= cWritten
      BY <1>1 DEF ConsoleInv, ConsoleRuns, HandLen
<1>3. \A i \in 1..Len(printed) : printed[i] = i  BY <1>1, <1>2, RunFromOne
<1> DEFINE n == Len(got[console])
<1>4. /\ n \in Nat /\ Run(got[console], n) /\ n + Len(ToConsole) = message
      /\ Len(ToConsole) \in Nat
      BY GivenIsRun
<1>5. message \in Nat /\ written \in Nat /\ message <= written
      BY <1>1, WrittenBounds
<1>6. ASSUME cPc[processor] = "notify"
      PROVE  cWritten = n + 1 /\ message = n + 1
  <2>1. /\ cWritten = n + 1
        /\ pc[processor] = "deliver" /\ policies_[at[processor]] = console
        BY <1>1, <1>6 DEF LinkInv
  <2>2. at[processor] \in 1..Len(policies_)
        BY <1>1, <2>1, LenProperties, ThreadNames DEF LoggerInv, LoggerTypes, VisitsOK
  <2>3. ToConsole = <<message>>
    <3>1. \A i \in 1..(at[processor] - 1) : i \in 1..Len(policies_) /\ i # at[processor]
          BY <2>2, <1>1, LenProperties DEF LoggerInv, LoggerTypes
    <3>2. \A i \in 1..(at[processor] - 1) : policies_[i] # console
          BY <1>1, <2>1, <2>2, <3>1 DEF LoggerInv, PoliciesDiffer
    <3> QED  BY <2>1, <3>2 DEF ToConsole
  <2>4. Len(<<message>>) = 1  OBVIOUS
  <2> QED  BY <1>4, <2>1, <2>3, <2>4
<1>7. cPc[processor] # "notify" => cWritten = n
  <2>1. cPc[processor] # "notify" => cWritten = n + 0  BY <1>1 DEF LinkInv
  <2> QED  BY <1>4, <2>1
<1>8. cWritten <= written
  <2>1. cWritten <= message  BY <1>4, <1>6, <1>7
  <2> QED  BY <1>1, <1>5, <2>1
<1>9. ASSUME NEW k \in 1..cWritten PROVE Content(k) = k
  <2>1. CASE k <= n
    <3>1. k \in 1..n  BY <1>1, <1>4, <2>1
    <3>2. got[console][k] = n - n + k  BY <1>4, <3>1 DEF Run
    <3> QED  BY <1>4, <2>1, <3>1, <3>2 DEF Content
  <2>2. CASE k > n
    <3>1. cPc[processor] = "notify"  BY <1>1, <1>4, <1>7, <2>2
    <3>2. k = n + 1 /\ message = n + 1  BY <1>1, <1>4, <1>6, <2>2, <3>1
    <3> QED  BY <1>4, <2>2, <3>2 DEF Content
  <2> QED  BY <1>1, <1>4, <2>1, <2>2
<1>10. \A i \in 1..Len(printed) : i \in 1..cWritten  BY <1>1, <1>2
<1>11. \A i \in 1..Len(printed) : Content(printed[i]) = i  BY <1>3, <1>9, <1>10
<1> QED  BY <1>1, <1>2, <1>5, <1>8, <1>11 DEF Shown, ShownOK

\* When the logger is gone the console was given everything.
LEMMA GivenAllAtDestroy ==
    ASSUME PipeInv, dtor = "done"
    PROVE  cWritten = written
<1>1. LoggerInv /\ LinkInv  BY DEF PipeInv
<1>2. pc[processor] = "exited" /\ queue_ = <<>>  BY <1>1 DEF LoggerInv, PhasesOK
<1>3. cPc[processor] # "notify" /\ ToConsole = <<>>
      BY <1>1, <1>2 DEF LinkInv, ToConsole
<1>4. Len(queue_) = 0 /\ Len(ToConsole) = 0  BY <1>2, <1>3
<1>5. message = written  BY <1>1, <1>4, WrittenBounds DEF LoggerInv, QueueIsRun
<1>6. Len(got[console]) = message  BY <1>4, GivenIsRun
<1>7. cWritten = Len(got[console]) + 0  BY <1>1, <1>3 DEF LinkInv
<1> QED  BY <1>5, <1>6, <1>7, GivenIsRun

\* Each step of the pipeline is one of the abstract log, or none.
WholeStep == [Whole!Accept \/ Whole!Emit \/ Whole!Close]_(Whole!logVars)

\* Accept is Log(), Emit is a printed message, Close is the end of the policy; every
\* other step stutters.
LEMMA PipeSimulates ==
    PipeInv /\ ShownOK /\ ShownOK' /\ [PipeNext]_pipeVars => WholeStep
<1> SUFFICES ASSUME PipeInv, ShownOK, ShownOK', [PipeNext]_pipeVars PROVE WholeStep
    OBVIOUS
<1> USE DEF WholeStep, Whole!logVars
<1>1. /\ Shown = [i \in 1..Len(printed) |-> i] /\ Shown' = [i \in 1..Len(printed') |-> i]
      /\ Len(printed) \in Nat /\ written \in Nat /\ Len(printed) <= written
      /\ Len(Shown) = Len(printed)
      BY DEF ShownOK
<1>2. ASSUME UNCHANGED <<written, printed>>, (cDtor = "done") <=> (cDtor' = "done")
      PROVE  WholeStep
      BY <1>1, <1>2
<1>3. CASE UNCHANGED pipeVars
      BY <1>2, <1>3 DEF pipeVars, vars, queueing, cVars
<1>4. CASE LoggerOnly
  <2>1. UNCHANGED <<printed, cDtor>> /\ QuietStep  BY <1>4 DEF LoggerOnly, cVars
  <2>2. CASE \E t \in Callers : Log(t)
    <3>1. PICK t \in Callers : pc[t] = "log" /\ written' = written + 1  BY <2>2 DEF Log
    <3>2. dtor = "no"  BY <3>1 DEF PipeInv, LoggerInv, PhasesOK
    <3>3. cDtor = "no"  BY <3>2 DEF PipeInv, LinkInv
    <3>4. Whole!Accept  BY <1>1, <2>1, <3>1, <3>3 DEF Whole!Accept
    <3> QED  BY <3>4
  <2>3. CASE ~\E t \in Callers : Log(t)
    <3>1. written' = written
          BY <2>1, <2>3 DEF QuietStep, CallStep, BeginLog, Notify, BeginFlush, FlushStep,
                Acquire, FlushPolicy, TimerTest, TimerWake, Fetch, Spurious, Stop, DestroyStep,
                NotifyStop, JoinProcessor, JoinTimer, AddPolicy, queueing
    <3> QED  BY <1>2, <2>1, <3>1
  <2> QED  BY <2>2, <2>3
<1>5. CASE BeginWrite \/ WriteToConsole \/ WriteElsewhere
      BY <1>2, <1>5 DEF BeginWrite, WriteToConsole, WriteElsewhere, Deliver, Console!Push,
            Console!Notify, vars, queueing, cVars
<1>6. CASE ConsoleThread
  <2>1. UNCHANGED written  BY <1>6 DEF ConsoleThread, vars, queueing
  <2>2. CASE Console!PrintLine
    <3>1. /\ printed' = Append(printed, Len(printed) + 1) /\ Len(printed) < cWritten
          /\ UNCHANGED cDtor
          BY <2>2, ConsolePrints DEF PipeInv
    <3>2. Len(printed') = Len(printed) + 1
      <4>1. printed \in Seq(Nat)  BY DEF PipeInv, ConsoleInv, ConsoleTypes
      <4> QED  BY <1>1, <3>1, <4>1, AppendProperties
    <3>3. Shown' = Append(Shown, Len(Shown) + 1)  BY <1>1, <3>2
    <3>4. Len(Shown) < written  BY <1>1, <3>1 DEF ShownOK
    <3>5. Whole!Emit  BY <2>1, <3>1, <3>3, <3>4 DEF Whole!Emit
    <3> QED  BY <3>5
  <2>3. CASE Console!Fetch \/ Console!Spurious
    <3>1. UNCHANGED <<printed, cDtor>>  BY <2>3 DEF Console!Fetch, Console!Spurious
    <3> QED  BY <1>2, <2>1, <3>1
  <2> QED  BY <1>6, <2>2, <2>3 DEF ConsoleThread, Console!ThreadStep
<1>7. CASE DropConsole
  <2>1. UNCHANGED written /\ dtor = "done"  BY <1>7 DEF DropConsole, vars, queueing
  <2>2. CASE Console!Stop \/ Console!NotifyStop \/ Console!Join
    <3>1. UNCHANGED printed /\ cDtor # "done" /\ cDtor' # "done"
          BY <2>2 DEF Console!Stop, Console!NotifyStop, Console!Join
    <3> QED  BY <1>2, <2>1, <3>1
  <2>3. CASE Console!Drain
    <3>1. UNCHANGED printed /\ cDtor' = "done" /\ Len(printed) = cWritten
          BY <2>3, ConsoleDrains DEF PipeInv
    <3>2. Len(Shown) = written  BY <1>1, <2>1, <3>1, GivenAllAtDestroy
    <3>3. Whole!Close  BY <1>1, <2>1, <3>1, <3>2 DEF Whole!Close
    <3> QED  BY <3>3
  <2> QED  BY <1>7, <2>2, <2>3 DEF DropConsole, Console!DestroyStep
<1> QED  BY <1>3, <1>4, <1>5, <1>6, <1>7 DEF PipeNext

\* At first nothing was logged or printed.
LEMMA WholeStarts == PipeInit => Whole!LogInit
<1> SUFFICES ASSUME PipeInit PROVE Whole!LogInit
    OBVIOUS
<1>1. printed = <<>> /\ written = 0 /\ cDtor = "no" /\ Len(<<>>) = 0
      BY DEF PipeInit, Init, Console!Init
<1>2. Shown = <<>>  BY <1>1 DEF Shown
<1> QED  BY <1>1, <1>2 DEF Whole!LogInit

-------------------------------------------------------------------------------
\* The variables of the logger and of its console keep their types.
THEOREM PipeTypeCorrect == PipeSpec => []PipeTypeOK
<1>1. PipeInv => PipeTypeOK  BY InvTypes, ConsoleWhole DEF PipeInv, PipeTypeOK
<1> QED  BY <1>1, PipeInvariant, PTL

\* What is printed, in hand and queued, in the console and in the logger, is all
\* messages in the order of Log(): none is lost, repeated or overtaken.
THEOREM PipeLosesNothing == PipeSpec => []NothingMissing
<1> QED  BY InvWhole, PipeInvariant, PTL

\* Neither thread sleeps with work to do, unless its wakeup is on the way.
THEOREM PipeSleepsSafely == PipeSpec => []SleepsAreSafe
<1>1. PipeInv => SleepsAreSafe
      BY ConsoleWhole DEF PipeInv, LoggerInv, SleepsAreSafe
<1> QED  BY <1>1, PipeInvariant, PTL

\* Logger and console, two queues and two threads, are one ordered log that is
\* closed when everything is printed.
THEOREM PipelineIsLog == PipeSpec => PipelineImplementsLog
<1> QED  BY WholeStarts, PipeSimulates, PipeInvariant, ShownInOrder, PTL
         DEF PipeSpec, PipelineImplementsLog, Whole!LogSpec, WholeStep
===============================================================================
