--------------------------- MODULE ConsoleLogPolicy ---------------------------
(* Utils::Logger::ConsoleLogPolicy (ConsoleLogPolicy.cpp): Write() queues a   *)
(* message for a thread that prints it. Each critical section of queue_mutex_ *)
(* is an action; notifying after the unlock and printing are others. Flush()  *)
(* only waits for mutex_, under which single lines are printed, and flushes a *)
(* stream that std::endl has flushed already: it changes nothing modelled.    *)
EXTENDS Integers, Sequences

CONSTANTS
    Writers,          \* threads that call Write()
    MaxMessages       \* bound: calls of Write() in a behaviour

VARIABLES
    message_queue_,
    stop_,
    asleep,      \* thread_ is blocked in condition_.wait
    pc,          \* of a writer: "idle" or "notify"
    threadPc,    \* of thread_: "fetch", "print" or "exited"
    message,     \* the one thread_ has taken, 0 for none
    printed,     \* what went to std::cout
    written,     \* calls of Write() so far: the number of the latest message
    dtor         \* "no", "stopped", "joining", "draining", "done"

vars == <<message_queue_, stop_, asleep, pc, threadPc, message, printed, written, dtor>>

Init == /\ message_queue_ = <<>>
        /\ stop_ = FALSE
        /\ asleep = FALSE
        /\ pc = [t \in Writers |-> "idle"]
        /\ threadPc = "fetch" /\ message = 0
        /\ printed = <<>>
        /\ written = 0
        /\ dtor = "no"

-------------------------------------------------------------------------------
(* Write() *)

PushedInFront == <<written + 1>> \o message_queue_
Pushed == Append(message_queue_, written + 1)

Push(t) == /\ pc[t] = "idle" /\ dtor = "no" /\ written < MaxMessages
           /\ written' = written + 1
           /\ message_queue_' = Pushed
           /\ pc' = [pc EXCEPT ![t] = "notify"]
           /\ UNCHANGED <<stop_, asleep, threadPc, message, printed, dtor>>

\* notify_one() or notify_all(): thread_ is the only waiter.
WakeNobody == asleep
Woken == FALSE

Notify(t) == /\ pc[t] = "notify"
             /\ asleep' = Woken
             /\ pc' = [pc EXCEPT ![t] = "idle"]
             /\ UNCHANGED <<message_queue_, stop_, threadPc, message, printed, written, dtor>>

-------------------------------------------------------------------------------
(* ProcessQueue() *)

Take == /\ message_queue_ # <<>>
        /\ message' = Head(message_queue_)
        /\ message_queue_' = Tail(message_queue_)
        /\ threadPc' = "print"
        /\ UNCHANGED asleep

MayExit == stop_ /\ message_queue_ = <<>>

Exit == /\ MayExit
        /\ threadPc' = "exited"
        /\ UNCHANGED <<message_queue_, asleep, message>>

Sleep == /\ ~stop_ /\ message_queue_ = <<>>
         /\ asleep' = TRUE
         /\ UNCHANGED <<message_queue_, threadPc, message>>

Fetch == /\ threadPc = "fetch" /\ ~asleep
         /\ Take \/ Exit \/ Sleep
         /\ UNCHANGED <<stop_, pc, printed, written, dtor>>

PrintLine == /\ threadPc = "print"
             /\ printed' = Append(printed, message)
             /\ message' = 0
             /\ threadPc' = "fetch"
             /\ UNCHANGED <<message_queue_, stop_, asleep, pc, written, dtor>>

Spurious == /\ asleep
            /\ asleep' = FALSE
            /\ UNCHANGED <<message_queue_, stop_, pc, threadPc, message, printed, written, dtor>>

-------------------------------------------------------------------------------
(* ~ConsoleLogPolicy(), when the last reference to the policy goes. *)

Stop == /\ dtor = "no" /\ \A t \in Writers : pc[t] = "idle"
        /\ stop_' = TRUE
        /\ dtor' = "stopped"
        /\ UNCHANGED <<message_queue_, asleep, pc, threadPc, message, printed, written>>

NotifyStop == /\ dtor = "stopped"
              /\ asleep' = Woken
              /\ dtor' = "joining"
              /\ UNCHANGED <<message_queue_, stop_, pc, threadPc, message, printed, written>>

JoinUnfinished == TRUE
Joinable == threadPc = "exited"

Join == /\ dtor = "joining" /\ Joinable
        /\ dtor' = "draining"
        /\ UNCHANGED <<message_queue_, stop_, asleep, pc, threadPc, message, printed, written>>

\* The loop behind the join prints what thread_ left.
Drain == /\ dtor = "draining"
         /\ printed' = printed \o message_queue_
         /\ message_queue_' = <<>>
         /\ dtor' = "done"
         /\ UNCHANGED <<stop_, asleep, pc, threadPc, message, written>>

DestroyStep == NotifyStop \/ Join \/ Drain

-------------------------------------------------------------------------------
ThreadStep == Fetch \/ PrintLine

Next == \/ \E t \in Writers : Push(t) \/ Notify(t)
        \/ ThreadStep \/ Spurious
        \/ Stop \/ DestroyStep

Spec == Init /\ [][Next]_vars

-------------------------------------------------------------------------------
\* The variables keep their types; thread_ holds a message exactly while it
\* prints it, and is gone once it is joined.
TypeOK == /\ message_queue_ \in Seq(1..MaxMessages)
          /\ stop_ \in BOOLEAN /\ asleep \in BOOLEAN
          /\ pc \in [Writers -> {"idle", "notify"}]
          /\ threadPc \in {"fetch", "print", "exited"}
          /\ message \in 0..MaxMessages
          /\ printed \in Seq(1..MaxMessages)
          /\ written \in 0..MaxMessages
          /\ dtor \in {"no", "stopped", "joining", "draining", "done"}
          /\ message # 0 <=> threadPc = "print"
          /\ dtor \in {"draining", "done"} => threadPc = "exited"

InHand == IF message = 0 THEN <<>> ELSE <<message>>

\* What was printed, what is being printed and what is queued are together all
\* messages in the order of their Write(): none is lost, repeated or overtaken.
NoneMissing == printed \o InHand \o message_queue_ = [i \in 1..written |-> i]

\* thread_ sleeps only if there is nothing to do or its wakeup is on the way.
SleepIsSafe ==
    asleep => /\ message_queue_ # <<>> => \E t \in Writers : pc[t] = "notify"
              /\ stop_ => dtor = "stopped"

\* The policy implements the abstract log.
Log == INSTANCE OrderedLog WITH
           accepted <- written, out <- printed, closed <- dtor = "done"

ImplementsLog == Log!LogSpec
===============================================================================
