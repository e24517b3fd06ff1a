----------------------------- MODULE MessageQueue -----------------------------
(* Utils::MessageQueue::MessageQueue (MessageQueue.hpp). Each member function *)
(* holds mutex_ throughout, except while pop() waits on cond_, so a call is   *)
(* one action, and a pop() that finds the queue empty is one action per       *)
(* evaluation of its wait predicate. A message is its push number. Producers  *)
(* keep no state between calls: any thread may push at any time.              *)
EXTENDS Integers, Sequences, FiniteSets, CondVar

CONSTANTS
    Consumers,          \* threads that call empty() and pop()
    maxMessageCount,
    coverageMode,
    MaxPush             \* bound: calls of push() in a behaviour

\* The constructor accepts any int. With 0 and coverageMode the first push
\* pops an empty std::queue, which is undefined.
ASSUME QueueAssumption ==
    /\ maxMessageCount \in Nat \ {0}
    /\ coverageMode \in BOOLEAN
    /\ MaxPush \in Nat
    /\ IsFiniteSet(Consumers)

VARIABLES
    queue_,
    currentMessageCount,
    waiting,     \* consumers blocked in cond_.wait
    pc,          \* what a consumer does: "idle", "checked" (empty() told it
                 \* false and it has not popped since) or "popping"
    pushed,      \* calls of push() so far: the number of the latest message
    lastPopped   \* the message pop() returned last, 0 before the first

vars == <<queue_, currentMessageCount, waiting, pc, pushed, lastPopped>>

Init == /\ queue_ = <<>>
        /\ currentMessageCount = 0
        /\ waiting = {}
        /\ pc = [c \in Consumers |-> "idle"]
        /\ pushed = 0
        /\ lastPopped = 0

\* Woken: inside pop(), no longer blocked, yet to look at the queue again.
Woken == {c \in Consumers : pc[c] = "popping"} \ waiting

-------------------------------------------------------------------------------
FullOffByOne == currentMessageCount > maxMessageCount
Full == currentMessageCount >= maxMessageCount

NotifyForgotten == waiting' = waiting
NotifyWhenFirst == IF queue_ = <<>> THEN waiting' \in NotifyOne(waiting)
                                    ELSE waiting' = waiting
Notify == waiting' \in NotifyOne(waiting)

\* The queue behind a push that found room.
Inserted == Append(queue_, pushed + 1)

\* The queue behind a push that dropped the oldest message first.
OverwriteNewest == Append(SubSeq(queue_, 1, Len(queue_) - 1), pushed + 1)
Overwritten == Append(Tail(queue_), pushed + 1)

PushRoom == /\ ~Full
            /\ queue_' = Inserted
            /\ currentMessageCount' = currentMessageCount + 1
            /\ Notify

PushOverOldest == /\ Full /\ coverageMode
                  /\ queue_' = Overwritten
                  /\ UNCHANGED currentMessageCount
                  /\ Notify

\* The early return: the message is lost and nobody is notified.
PushDropLatest == /\ Full /\ ~coverageMode
                  /\ UNCHANGED <<queue_, currentMessageCount, waiting>>

Push == /\ pushed < MaxPush
        /\ pushed' = pushed + 1
        /\ PushRoom \/ PushOverOldest \/ PushDropLatest
        /\ UNCHANGED <<pc, lastPopped>>

\* The wait predicate of pop().
Ready == currentMessageCount > 0

Take(c) == /\ Ready
           /\ lastPopped' = Head(queue_)
           /\ queue_' = Tail(queue_)
           /\ currentMessageCount' = currentMessageCount - 1
           /\ pc' = [pc EXCEPT ![c] = "idle"]
           /\ UNCHANGED <<waiting, pushed>>

Wait(c) == /\ ~Ready
           /\ waiting' = waiting \cup {c}
           /\ pc' = [pc EXCEPT ![c] = "popping"]
           /\ UNCHANGED <<queue_, currentMessageCount, pushed, lastPopped>>

Pop(c) == /\ c \notin waiting
          /\ Take(c) \/ Wait(c)

\* empty() returned false: the idiom `if (!q.empty()) q.pop()` of the README,
\* Server::GetMessage and Client::RecData. A call that returns true leaves no
\* trace.
CheckedAlways(c) == pc[c] = "idle"
SeenNonEmpty(c) == pc[c] = "idle" /\ currentMessageCount # 0

Empty(c) == /\ SeenNonEmpty(c)
            /\ pc' = [pc EXCEPT ![c] = "checked"]
            /\ UNCHANGED <<queue_, currentMessageCount, waiting, pushed, lastPopped>>

Spurious(c) == /\ c \in waiting
               /\ waiting' = waiting \ {c}
               /\ UNCHANGED <<queue_, currentMessageCount, pc, pushed, lastPopped>>

Next == \/ Push
        \/ \E c \in Consumers : Pop(c) \/ Empty(c) \/ Spurious(c)

Spec == Init /\ [][Next]_vars

\* A woken consumer eventually gets mutex_; nobody is obliged to call push or
\* pop in the first place.
Resume(c) == pc[c] = "popping" /\ Pop(c)

FairSpec == Spec /\ \A c \in Consumers : WF_vars(Resume(c))

-------------------------------------------------------------------------------
\* The variables keep their types; the counter never leaves 0..maxMessageCount.
TypeOK == /\ queue_ \in Seq(1..MaxPush)
          /\ currentMessageCount \in 0..maxMessageCount
          /\ waiting \subseteq Consumers
          /\ pc \in [Consumers -> {"idle", "checked", "popping"}]
          /\ pushed \in 0..MaxPush
          /\ lastPopped \in 0..MaxPush

\* The hand-kept counter is the length of the queue it stands for, and whoever
\* blocks on cond_ does so inside pop().
CountAgrees == /\ currentMessageCount = Len(queue_)
               /\ \A c \in waiting : pc[c] = "popping"

\* While some consumer stays blocked there are at least as many woken ones as
\* messages: a single notify_one per push never strands a message, whatever
\* calls of pop() overtake the woken consumers.
NoLostWakeup == waiting # {} => currentMessageCount <= Cardinality(Woken)

\* The queue holds messages in push order, all of them newer than anything a
\* pop() returned: nothing is delivered twice or out of order.
FifoOrder ==
    /\ lastPopped <= pushed
    /\ \A i, j \in 1..Len(queue_) : i < j => queue_[i] < queue_[j]
    /\ \A i \in 1..Len(queue_) : lastPopped < queue_[i] /\ queue_[i] <= pushed

\* In coverage mode what is queued is exactly the run of latest messages: a
\* loss only ever takes the oldest.
KeepsNewest ==
    coverageMode =>
        \A i \in 1..Len(queue_) : queue_[i] = pushed - Len(queue_) + i

\* With one consumer `if (!empty()) pop()` does not block: the message the
\* check saw (or, in coverage mode, a newer one) is still there.
GuardedPopNeverBlocks ==
    [][\A c \in Consumers : pc[c] = "checked" => c \notin waiting']_vars

\* A message at the head leaves the queue whenever a consumer is inside pop().
HeadIsTaken ==
    \A m \in 1..MaxPush :
        (queue_ # <<>> /\ Head(queue_) = m /\ \E c \in Consumers : pc[c] = "popping")
            ~> (\A i \in 1..Len(queue_) : queue_[i] # m)

\* The queue behaves as the abstract lossy FIFO.
Fifo == INSTANCE LossyFifo WITH
            Capacity <- maxMessageCount, KeepNewest <- coverageMode,
            sent <- pushed, delivered <- lastPopped,
            transit <- {queue_[i] : i \in 1..Len(queue_)}

ImplementsFifo == Fifo!FifoSpec
===============================================================================
