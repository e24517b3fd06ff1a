----------------------------- MODULE FileLogPolicy -----------------------------
(* Utils::Logger::FileLogPolicy (FileLogPolicy.cpp): a ring of buffers filled *)
(* by Write(), handed by Write() or Flush() to a file thread over a queue of  *)
(* buffer numbers. Write() and Flush() read the atomic current_buffer_ again  *)
(* and again while they hold one mutex or another, so each such read is a     *)
(* step: together with the access that uses it at once, or by itself where    *)
(* there is work between. A message is the number of its append. What the     *)
(* file thread's loop reads without a lock is read in one step; a write to a  *)
(* buffer while it is read (undefined in C++) only ever appends here.         *)
EXTENDS Integers, Sequences, FiniteSets

CONSTANTS
    Writers, Flushers,   \* threads that call Write() and Flush()
    owner,               \* the thread that runs the destructor
    MayDestroy,          \* whether it does so in the behaviours considered
    NBuf,                \* buffers in the ring: 16 in the code
    buffer_size_,        \* messages that make a buffer full: 65536 in the code
    MaxMessages,         \* bound: calls of Write() in a behaviour
    MaxBacklog           \* bound: calls begin only with at most this many
                         \* buffers pending; NBuf is no restriction

ASSUME RingAssumption ==
    /\ NBuf \in Nat \ {0, 1}
    /\ buffer_size_ \in Nat \ {0}
    /\ MaxMessages \in Nat /\ MaxBacklog \in Nat
    /\ MayDestroy \in BOOLEAN

Threads == Writers \cup Flushers \cup {owner}
Ring == 0..(NBuf - 1)

VARIABLES
    current_buffer_,
    buffers_,            \* the messages in each buffer
    buffer_is_empty_,    \* FALSE from queueing a buffer until it is written
    queue_buffers_,
    stop_thread_,
    pc, op,              \* where a thread is, in "write" or in "flush"
    lockIdx,             \* the buffer whose mutex it locks
    index,               \* a buffer number read before it is used: that of
                         \* push_back(), or the one NextBuffer() will store
    filePc, target,      \* the file thread and the buffer it has taken
    file,                \* what it has written
    written,             \* messages appended so far
    dtor                 \* "no", "stopped", "flushing", "joining", "done"

callVars == <<pc, op, lockIdx, index>>
fileVars == <<filePc, target, file>>
ringVars == <<current_buffer_, buffers_, buffer_is_empty_, queue_buffers_>>
vars == <<ringVars, callVars, fileVars, stop_thread_, written, dtor>>

Init == /\ current_buffer_ = 0
        /\ buffers_ = [b \in Ring |-> <<>>]
        /\ buffer_is_empty_ = [b \in Ring |-> TRUE]
        /\ queue_buffers_ = <<>>
        /\ stop_thread_ = FALSE
        /\ pc = [t \in Threads |-> "idle"]
        /\ op = [t \in Threads |-> "write"]
        /\ lockIdx = [t \in Threads |-> 0]
        /\ index = [t \in Threads |-> 0]
        /\ filePc = "wait" /\ target = 0 /\ file = <<>>
        /\ written = 0
        /\ dtor = "no"

\* The mutexes, by who is inside them. Write() leaves mutex_queue_ before it
\* looks for the next buffer, Flush() after.
Spinning == {"test", "compare", "sum", "store", "notify"}
Holding == {"format", "append", "full", "check", "queue", "mark"} \cup Spinning

BufferLocked(b) == \E t \in Threads : lockIdx[t] = b /\ pc[t] \in Holding

QueueLocked == \/ filePc = "blocking"
               \/ \E t \in Threads :
                     pc[t] = "mark" \/ (op[t] = "flush" /\ pc[t] \in Spinning)

\* An index past the ring is undefined behaviour: nothing is said beyond it.
InRange == current_buffer_ \in Ring

Goto(t, label) == pc' = [pc EXCEPT ![t] = label]

-------------------------------------------------------------------------------
(* Write() and Flush(). Both read current_buffer_ to choose a mutex and wait  *)
(* for that mutex, whatever current_buffer_ has become meanwhile.             *)

Begin(t, name) == /\ pc[t] = "idle" /\ InRange
                  /\ op' = [op EXCEPT ![t] = name]
                  /\ lockIdx' = [lockIdx EXCEPT ![t] = current_buffer_]
                  /\ Goto(t, "lock")
                  /\ UNCHANGED <<ringVars, fileVars, index, stop_thread_, written>>

Pending == {b \in Ring : ~buffer_is_empty_[b]}

Call(t) == /\ dtor = "no" /\ Cardinality(Pending) <= MaxBacklog
           /\ \/ t \in Writers /\ written < MaxMessages /\ Begin(t, "write")
              \/ t \in Flushers /\ Begin(t, "flush")
           /\ UNCHANGED dtor

LockFree(t) == ~BufferLocked(lockIdx[t])

Lock(t) == /\ pc[t] = "lock" /\ LockFree(t)
           /\ Goto(t, IF op[t] = "write" THEN "format" ELSE "check")
           /\ UNCHANGED <<ringVars, fileVars, op, lockIdx, index, stop_thread_, written, dtor>>

\* The buffer of push_back() is chosen before FormatMessage() runs.
ChooseBuffer(t) ==
    /\ pc[t] = "format" /\ InRange
    /\ index' = [index EXCEPT ![t] = current_buffer_]
    /\ Goto(t, "append")
    /\ UNCHANGED <<ringVars, fileVars, op, lockIdx, stop_thread_, written, dtor>>

Appended(b) == [buffers_ EXCEPT ![b] = Append(@, written + 1)]

AppendTo(t) ==
    /\ pc[t] = "append"
    /\ written' = written + 1
    /\ buffers_' = Appended(index[t])
    /\ index' = [index EXCEPT ![t] = 0]
    /\ Goto(t, "full")
    /\ UNCHANGED <<current_buffer_, buffer_is_empty_, queue_buffers_, fileVars,
                   op, lockIdx, stop_thread_, dtor>>

Full(t) ==
    /\ pc[t] = "full" /\ InRange
    /\ Goto(t, IF Len(buffers_[current_buffer_]) >= buffer_size_ THEN "queue" ELSE "idle")
    /\ UNCHANGED <<ringVars, fileVars, op, lockIdx, index, stop_thread_, written, dtor>>

WorthFlushing(t) == buffers_[current_buffer_] # <<>>

Check(t) == /\ pc[t] = "check" /\ InRange
            /\ Goto(t, IF WorthFlushing(t) THEN "queue" ELSE "idle")
            /\ UNCHANGED <<ringVars, fileVars, op, lockIdx, index, stop_thread_, written, dtor>>

Queued == Append(queue_buffers_, current_buffer_)

Queue(t) == /\ pc[t] = "queue" /\ InRange /\ ~QueueLocked
            /\ queue_buffers_' = Queued
            /\ Goto(t, "mark")
            /\ UNCHANGED <<current_buffer_, buffers_, buffer_is_empty_, fileVars, op,
                           lockIdx, index, stop_thread_, written, dtor>>

MarkForgotten == buffer_is_empty_
MarkedPending == [buffer_is_empty_ EXCEPT ![current_buffer_] = FALSE]

Mark(t) == /\ pc[t] = "mark" /\ InRange
           /\ buffer_is_empty_' = MarkedPending
           /\ Goto(t, "test")
           /\ UNCHANGED <<current_buffer_, buffers_, queue_buffers_, fileVars, op,
                          lockIdx, index, stop_thread_, written, dtor>>

\* NextBuffer(): test the buffer; read current_buffer_ for the comparison; if
\* it is not the last, read it once more for the sum; store.
Test(t) == /\ pc[t] = "test" /\ InRange
           /\ Goto(t, IF buffer_is_empty_[current_buffer_] THEN "notify" ELSE "compare")
           /\ UNCHANGED <<ringVars, fileVars, op, lockIdx, index, stop_thread_, written, dtor>>

WrapForgotten == FALSE
PastEnd == current_buffer_ + 1 > NBuf - 1

Compare(t) == /\ pc[t] = "compare"
              /\ index' = [index EXCEPT ![t] = 0]
              /\ Goto(t, IF PastEnd THEN "store" ELSE "sum")
              /\ UNCHANGED <<ringVars, fileVars, op, lockIdx, stop_thread_, written, dtor>>

Sum(t) == /\ pc[t] = "sum"
          /\ index' = [index EXCEPT ![t] = current_buffer_ + 1]
          /\ Goto(t, "store")
          /\ UNCHANGED <<ringVars, fileVars, op, lockIdx, stop_thread_, written, dtor>>

Store(t) == /\ pc[t] = "store"
            /\ current_buffer_' = index[t]
            /\ index' = [index EXCEPT ![t] = 0]
            /\ Goto(t, "test")
            /\ UNCHANGED <<buffers_, buffer_is_empty_, queue_buffers_, fileVars,
                           op, lockIdx, stop_thread_, written, dtor>>

\* condition_.notify_one() and notify_all(): the file thread is the only waiter.
WakeNobody == filePc
Woken == IF filePc = "asleep" THEN "wait" ELSE filePc

Notify(t) == /\ pc[t] = "notify"
             /\ filePc' = Woken
             /\ Goto(t, "idle")
             /\ UNCHANGED <<ringVars, target, file, op, lockIdx, index, stop_thread_,
                            written, dtor>>

CallStep(t) == \/ Lock(t) \/ ChooseBuffer(t) \/ AppendTo(t) \/ Full(t)
               \/ Check(t) \/ Queue(t) \/ Mark(t) \/ Test(t) \/ Compare(t) \/ Sum(t) \/ Store(t) \/ Notify(t)
-------------------------------------------------------------------------------
(* WriteToFile(), the file thread. Its predicate reads stop_thread_, which is *)
(* stored without mutex_queue_, so deciding to sleep ("blocking") and being   *)
(* asleep are two steps.                                                      *)

PopNext == /\ queue_buffers_ # <<>>
           /\ target' = Head(queue_buffers_)
           /\ queue_buffers_' = Tail(queue_buffers_)
           /\ filePc' = "write"

NothingQueued == /\ queue_buffers_ = <<>>
                 /\ filePc' = IF stop_thread_ THEN "exited" ELSE "blocking"
                 /\ UNCHANGED <<target, queue_buffers_>>

FileWait == /\ filePc = "wait" /\ ~QueueLocked
            /\ PopNext \/ NothingQueued
            /\ UNCHANGED <<current_buffer_, buffers_, buffer_is_empty_, callVars, file,
                           stop_thread_, written, dtor>>

FileBlock == /\ filePc = "blocking"
             /\ filePc' = "asleep"
             /\ UNCHANGED <<ringVars, callVars, target, file, stop_thread_, written, dtor>>

FileWithTarget == file \o buffers_[target]

FileWrite == /\ filePc = "write"
             /\ file' = FileWithTarget
             /\ filePc' = "clear"
             /\ UNCHANGED <<ringVars, callVars, target, stop_thread_, written, dtor>>

ClearCurrent == [buffers_ EXCEPT ![target] = <<>>, ![current_buffer_] = <<>>]
Cleared == [buffers_ EXCEPT ![target] = <<>>]

TargetOrQueueLocked == BufferLocked(target) \/ QueueLocked
TargetLocked == BufferLocked(target)

FileClear == /\ filePc = "clear" /\ ~TargetLocked
             /\ buffers_' = Cleared
             /\ buffer_is_empty_' = [buffer_is_empty_ EXCEPT ![target] = TRUE]
             /\ filePc' = "wait"
             /\ UNCHANGED <<current_buffer_, queue_buffers_, callVars, target, file,
                            stop_thread_, written, dtor>>

FileStep == FileWait \/ FileBlock \/ FileWrite \/ FileClear

Spurious == /\ filePc = "asleep"
            /\ filePc' = "wait"
            /\ UNCHANGED <<ringVars, callVars, target, file, stop_thread_, written, dtor>>

-------------------------------------------------------------------------------
(* ~FileLogPolicy(), once no call is in progress: stop, Flush(), notify_all,  *)
(* join.                                                                      *)

DestroyStop == /\ MayDestroy /\ dtor = "no" /\ \A t \in Threads : pc[t] = "idle"
               /\ stop_thread_' = TRUE
               /\ dtor' = "stopped"
               /\ UNCHANGED <<ringVars, callVars, fileVars, written>>

DestroyFlush == /\ dtor = "stopped"
                /\ Begin(owner, "flush")
                /\ dtor' = "flushing"

DestroyNotify == /\ dtor = "flushing" /\ pc[owner] = "idle"
                 /\ filePc' = Woken
                 /\ dtor' = "joining"
                 /\ UNCHANGED <<ringVars, callVars, target, file, stop_thread_, written>>

DestroyJoin == /\ dtor = "joining" /\ filePc = "exited"
               /\ dtor' = "done"
               /\ UNCHANGED <<ringVars, callVars, fileVars, stop_thread_, written>>

DestroyStep == DestroyFlush \/ DestroyNotify \/ DestroyJoin

-------------------------------------------------------------------------------
Next == \/ \E t \in Threads : Call(t) \/ CallStep(t)
        \/ FileStep
        \/ Spurious
        \/ DestroyStop
        \/ DestroyStep

Spec == Init /\ [][Next]_vars

\* Threads are scheduled; nobody has to call Write() or Flush(), or to destroy
\* the policy. Strong fairness for Queue: the file thread holds mutex_queue_ for
\* one look at the queue before it sleeps, so only spurious wakeups without end
\* could keep another thread from the mutex.
FairSpec == /\ Spec
            /\ \A t \in Threads : WF_vars(CallStep(t)) /\ SF_vars(Queue(t))
            /\ WF_vars(FileStep)
            /\ WF_vars(DestroyStep)

-------------------------------------------------------------------------------
\* The variables keep their types, and the ring index stays inside the ring.
TypeOK == /\ current_buffer_ \in Ring
          /\ buffers_ \in [Ring -> Seq(1..MaxMessages)]
          /\ buffer_is_empty_ \in [Ring -> BOOLEAN]
          /\ queue_buffers_ \in Seq(Ring)
          /\ stop_thread_ \in BOOLEAN
          /\ pc \in [Threads -> {"idle", "lock"} \cup Holding]
          /\ op \in [Threads -> {"write", "flush"}]
          /\ lockIdx \in [Threads -> Ring]
          /\ index \in [Threads -> Ring]
          /\ filePc \in {"wait", "blocking", "asleep", "write", "clear", "exited"}
          /\ target \in Ring
          /\ file \in Seq(1..MaxMessages)
          /\ written \in 0..MaxMessages
          /\ dtor \in {"no", "stopped", "flushing", "joining", "done"}

InFile(m) == \E i \in 1..Len(file) : file[i] = m
InBuffer(m) == \E b \in Ring : \E i \in 1..Len(buffers_[b]) : buffers_[b][i] = m

\* A message that Write() accepted stays in a buffer until it is in the file.
NothingLost == \A m \in 1..written : InFile(m) \/ InBuffer(m)

\* And the file holds the messages in the order of their appends, each once.
FileIntact == /\ NothingLost
              /\ \A i, j \in 1..Len(file) : i < j => file[i] < file[j]

\* A buffer that is queued, or that the file thread works on without its mutex,
\* receives no further message.
HandedOver == {queue_buffers_[i] : i \in 1..Len(queue_buffers_)}
                  \cup (IF filePc \in {"write", "clear"} THEN {target} ELSE {})

PendingIsFrozen ==
    [][\A b \in HandedOver : Len(buffers_'[b]) <= Len(buffers_[b])]_vars

\* What was written before a call of Flush() gets into the file.
FlushedReachesFile ==
    \A t \in Threads : \A m \in 1..MaxMessages :
        (pc[t] = "lock" /\ op[t] = "flush" /\ m <= written) ~> InFile(m)

\* Flush() returns, or it has found the ring with every buffer in the queue: then
\* it looks for a free one inside mutex_queue_, without which the file thread does
\* not get at any of them, and both wait for ever (FileLogPolicy.cpp:57-60).
RingQueued == Len(queue_buffers_) = NBuf

FlushReturnsOrSticks ==
    \A t \in Threads :
        (pc[t] # "idle" /\ op[t] = "flush") ~> (pc[t] = "idle" \/ RingQueued)

\* Write() returns.
WriteReturns == \A t \in Threads :
                    (pc[t] # "idle" /\ op[t] = "write") ~> (pc[t] = "idle")
===============================================================================
