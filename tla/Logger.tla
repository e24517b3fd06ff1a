-------------------------------- MODULE Logger --------------------------------
(* Utils::Logger::Logger (Logger.hpp, Logger.cpp): Log() queues a message,    *)
(* thread_ (`processor`) hands it to every policy, timer_thread_ (`timer`)    *)
(* flushes the policies. mutex_ guards the queue and is held through a whole  *)
(* Flush(), one action per policy; thread_ visits the policies without it.    *)
(* A policy is known by the messages its Write() was given. Formatting and    *)
(* levels are left out; Debug(), Info(), ... are Log() with a level.          *)
EXTENDS Integers, Sequences, FiniteSets

CONSTANTS
    Callers,             \* threads that use the logger
    processor, timer,
    Policies,
    FlushCallers,        \* those of Callers that call Flush() themselves
    MaxMessages          \* bound: calls of Log() in a behaviour

ASSUME LoggerAssumption ==
    /\ processor # timer /\ {processor, timer} \cap Callers = {}
    /\ IsFiniteSet(Callers) /\ FlushCallers \subseteq Callers
    /\ MaxMessages \in Nat

Flushers == Callers \cup {timer}
Threads == Flushers \cup {processor}

VARIABLES
    policies_,
    queue_,
    stop_,
    asleep,      \* the processor is blocked in condition_.wait
    pc,          \* where each thread is; inside Flush(), "lock" and "flush"
    at,          \* the position in policies_ of the policy it visits
    message,     \* the message the processor hands out
    got,         \* what each policy was given
    since,       \* how many messages there were when a policy was added
    written,     \* calls of Log() that reached the queue
    dtor         \* "no", "stopped", "processor", "timer", "done"

visits == <<pc, at>>
queueing == <<queue_, written, asleep>>
vars == <<policies_, stop_, visits, queueing, message, got, since, dtor>>

Init == /\ policies_ = <<>>
        /\ queue_ = <<>>
        /\ stop_ = FALSE
        /\ asleep = FALSE
        /\ pc = [t \in Threads |-> CASE t = processor -> "fetch"
                                     [] t = timer -> "test"
                                     [] OTHER -> "idle"]
        /\ at = [t \in Threads |-> 0]
        /\ message = 0
        /\ got = [p \in Policies |-> <<>>]
        /\ since = [p \in Policies |-> 0]
        /\ written = 0
        /\ dtor = "no"

Added == {policies_[i] : i \in 1..Len(policies_)}

LockIgnored == FALSE
Locked == \E t \in Flushers : pc[t] = "flush"

Goto(t, label) == pc' = [pc EXCEPT ![t] = label]

\* A thread goes through policies_ with `label` and then to `next`.
StartVisits(t, label, next) ==
    IF policies_ = <<>> THEN Goto(t, next) /\ UNCHANGED at
    ELSE Goto(t, label) /\ at' = [at EXCEPT ![t] = 1]

SkipLast(t) == at[t] + 1 >= Len(policies_)
LastVisit(t) == at[t] >= Len(policies_)

NextVisit(t, next) ==
    IF LastVisit(t) THEN Goto(t, next) /\ at' = [at EXCEPT ![t] = 0]
    ELSE at' = [at EXCEPT ![t] = @ + 1] /\ UNCHANGED pc

-------------------------------------------------------------------------------
Visiting == \E t \in Threads : pc[t] \in {"flush", "deliver"}

\* AddPolicy() takes no lock. Called while a thread goes through policies_ it is
\* a data race, beyond which nothing is defined and no behaviour is followed.
AddPolicy(p) == /\ dtor = "no" /\ p \notin Added
                /\ ~Visiting
                /\ policies_' = Append(policies_, p)
                /\ since' = [since EXCEPT ![p] = written]
                /\ UNCHANGED <<stop_, visits, queueing, message, got, dtor>>

(* Log() *)

Logging == {t \in Callers : pc[t] = "log"}

BeginLog(t) == /\ pc[t] = "idle" /\ dtor = "no"
               /\ written + Cardinality(Logging) < MaxMessages
               /\ Goto(t, "log")
               /\ UNCHANGED <<policies_, stop_, at, queueing, message, got, since, dtor>>

Queued == Append(queue_, written + 1)

Log(t) == /\ pc[t] = "log" /\ ~Locked
          /\ written' = written + 1
          /\ queue_' = Queued
          /\ Goto(t, "notify")
          /\ UNCHANGED <<policies_, stop_, asleep, at, message, got, since, dtor>>

\* notify_one() or notify_all(): the processor is the only waiter.
Woken == FALSE

Notify(t) == /\ pc[t] = "notify"
             /\ asleep' = Woken
             /\ Goto(t, "idle")
             /\ UNCHANGED <<policies_, stop_, at, queue_, written, message, got, since, dtor>>

-------------------------------------------------------------------------------
(* Flush() and TimerTask() *)

BeginFlush(t) == /\ t \in FlushCallers /\ pc[t] = "idle" /\ dtor = "no"
                 /\ Goto(t, "lock")
                 /\ UNCHANGED <<policies_, stop_, at, queueing, message, got, since, dtor>>

After(t) == IF t = timer THEN "test" ELSE "idle"

Acquire(t) == /\ pc[t] = "lock" /\ ~Locked
              /\ StartVisits(t, "flush", After(t))
              /\ UNCHANGED <<policies_, stop_, queueing, message, got, since, dtor>>

\* policy->Flush() changes nothing the logger knows of.
FlushPolicy(t) == /\ pc[t] = "flush"
                  /\ NextVisit(t, After(t))
                  /\ UNCHANGED <<policies_, stop_, queueing, message, got, since, dtor>>

TimerForever == "sleep"
TimerNext == IF stop_ THEN "exited" ELSE "sleep"

TimerTest == /\ pc[timer] = "test"
             /\ Goto(timer, TimerNext)
             /\ UNCHANGED <<policies_, stop_, at, queueing, message, got, since, dtor>>

\* sleep_for: the 500 ms are over.
TimerWake == /\ pc[timer] = "sleep"
             /\ Goto(timer, "lock")
             /\ UNCHANGED <<policies_, stop_, at, queueing, message, got, since, dtor>>

-------------------------------------------------------------------------------
(* ProcessQueue() *)

Take == /\ queue_ # <<>>
        /\ message' = Head(queue_)
        /\ queue_' = Tail(queue_)
        /\ StartVisits(processor, "deliver", "fetch")
        /\ UNCHANGED asleep

ExitOnStop == stop_
MayExit == stop_ /\ queue_ = <<>>

Exit == /\ MayExit
        /\ Goto(processor, "exited")
        /\ UNCHANGED <<queue_, asleep, at, message>>

Sleep == /\ ~stop_ /\ queue_ = <<>>
         /\ asleep' = TRUE
         /\ UNCHANGED <<queue_, visits, message>>

Fetch == /\ pc[processor] = "fetch" /\ ~asleep /\ ~Locked
         /\ Take \/ Exit \/ Sleep
         /\ UNCHANGED <<policies_, stop_, written, got, since, dtor>>

\* policy->Write()
Deliver == /\ pc[processor] = "deliver"
           /\ got' = [got EXCEPT ![policies_[at[processor]]] = Append(@, message)]
           /\ NextVisit(processor, "fetch")
           /\ UNCHANGED <<policies_, stop_, queueing, message, since, dtor>>

Spurious == /\ asleep
            /\ asleep' = FALSE
            /\ UNCHANGED <<policies_, stop_, visits, queue_, written, message, got, since, dtor>>

-------------------------------------------------------------------------------
(* ~Logger(), run when no caller is inside the logger any more. *)

Stop == /\ dtor = "no" /\ ~Locked /\ \A t \in Callers : pc[t] = "idle"
        /\ stop_' = TRUE
        /\ dtor' = "stopped"
        /\ UNCHANGED <<policies_, visits, queueing, message, got, since>>

NotifyStop == /\ dtor = "stopped"
              /\ asleep' = Woken
              /\ dtor' = "processor"
              /\ UNCHANGED <<policies_, stop_, visits, queue_, written, message, got, since>>

ProcessorJoinable == pc[processor] = "exited"

JoinProcessor == /\ dtor = "processor" /\ ProcessorJoinable
                 /\ dtor' = "timer"
                 /\ UNCHANGED <<policies_, stop_, visits, queueing, message, got, since>>

JoinTimer == /\ dtor = "timer" /\ pc[timer] = "exited"
             /\ dtor' = "done"
             /\ UNCHANGED <<policies_, stop_, visits, queueing, message, got, since>>

DestroyStep == NotifyStop \/ JoinProcessor \/ JoinTimer

-------------------------------------------------------------------------------
CallStep(t) == BeginLog(t) \/ Log(t) \/ Notify(t) \/ BeginFlush(t)

FlushStep(t) == Acquire(t) \/ FlushPolicy(t)

QuietStep == \/ \E p \in Policies : AddPolicy(p)
             \/ \E t \in Callers : CallStep(t)
             \/ \E t \in Flushers : FlushStep(t)
             \/ TimerTest \/ TimerWake
             \/ Fetch \/ Spurious
             \/ Stop \/ DestroyStep

Next == QuietStep \/ Deliver

Spec == Init /\ [][Next]_vars

\* Threads are scheduled, policies return, and 500 ms pass. Strong fairness for
\* the steps that lock mutex_: the timer gives it up for 500 ms between two
\* flushes. Nobody has to call the logger or to destroy it.
Fairness == /\ \A t \in Callers : SF_vars(Log(t)) /\ WF_vars(Notify(t))
            /\ \A t \in Flushers : SF_vars(Acquire(t)) /\ WF_vars(FlushPolicy(t))
            /\ WF_vars(TimerTest \/ TimerWake)
            /\ SF_vars(Fetch)
            /\ WF_vars(Deliver)
            /\ WF_vars(DestroyStep)

-------------------------------------------------------------------------------
\* The variables keep their types, and mutex_ has one holder.
TypeOK ==
    /\ policies_ \in Seq(Policies)
    /\ queue_ \in Seq(1..MaxMessages)
    /\ stop_ \in BOOLEAN /\ asleep \in BOOLEAN
    /\ pc \in [Threads -> {"idle", "log", "notify", "lock", "flush", "test",
                           "sleep", "fetch", "deliver", "exited"}]
    /\ at \in [Threads -> 0..Len(policies_)]
    /\ message \in 0..MaxMessages
    /\ got \in [Policies -> Seq(1..MaxMessages)]
    /\ since \in [Policies -> 0..MaxMessages]
    /\ written \in 0..MaxMessages
    /\ dtor \in {"no", "stopped", "processor", "timer", "done"}
    /\ \A t, u \in Flushers : pc[t] = "flush" /\ pc[u] = "flush" => t = u

\* Every policy gets the messages in the order they were logged, without a gap
\* and without a repetition, and no message from before a message it has.
DeliveredInOrder ==
    \A p \in Policies : \A i \in 1..(Len(got[p]) - 1) : got[p][i + 1] = got[p][i] + 1

Has(p, m) == \E i \in 1..Len(got[p]) : got[p][i] = m

\* That is so until the destructor returns, and then every policy has every
\* message logged since it was added.
CompleteAtDestroy ==
    /\ DeliveredInOrder
    /\ dtor = "done" => \A p \in Added : \A m \in (since[p] + 1)..written : Has(p, m)

\* The processor sleeps only if there is nothing to do or its wakeup is on the
\* way, and it does not outlive the destructor.
SleepIsSafe ==
    /\ asleep => /\ queue_ # <<>> => \E t \in Callers : pc[t] = "notify"
                 /\ stop_ => dtor = "stopped"
    /\ dtor = "done" => pc[processor] = "exited" /\ pc[timer] = "exited"
===============================================================================
