-------------------------- MODULE MessageQueueProofs --------------------------
(* Theorems about MessageQueue for every capacity, mode and set of consumers. *)
EXTENDS MessageQueue, FiniteSetTheorems, SequenceTheorems, TLAPS

\* What one call leaves in the queue: Append behind, Tail in front, or both.
LEMMA InsertedSeq ==
    ASSUME NEW S, NEW q \in Seq(S), NEW m \in S
    PROVE  /\ Append(q, m) \in Seq(S)
           /\ Len(Append(q, m)) = Len(q) + 1
           /\ \A i \in 1..Len(q) : Append(q, m)[i] = q[i]
           /\ Append(q, m)[Len(q) + 1] = m
  BY AppendProperties

\* The first of a sequence, and the rest.
LEMMA TakenSeq ==
    ASSUME NEW S, NEW q \in Seq(S), Len(q) > 0
    PROVE  /\ Head(q) \in S
           /\ Head(q) = q[1]
           /\ Tail(q) \in Seq(S)
           /\ Len(Tail(q)) = Len(q) - 1
           /\ \A i \in 1..(Len(q) - 1) : Tail(q)[i] = q[i + 1]
  <1>1. q # <<>>
    BY EmptySeq
  <1> QED
    BY <1>1, HeadTailProperties

\* A sequence that has lost its first and gained a last element.
LEMMA OverwrittenSeq ==
    ASSUME NEW S, NEW q \in Seq(S), Len(q) > 0, NEW m \in S
    PROVE  /\ Append(Tail(q), m) \in Seq(S)
           /\ Len(Append(Tail(q), m)) = Len(q)
           /\ \A i \in 1..(Len(q) - 1) : Append(Tail(q), m)[i] = q[i + 1]
           /\ Append(Tail(q), m)[Len(q)] = m
  <1>1. /\ Tail(q) \in Seq(S)
        /\ Len(Tail(q)) = Len(q) - 1
        /\ \A i \in 1..(Len(q) - 1) : Tail(q)[i] = q[i + 1]
    BY TakenSeq
  <1>2. Len(q) \in Nat
    BY LenProperties
  <1> QED
    BY <1>1, <1>2, InsertedSeq

-------------------------------------------------------------------------------
\* notify_one only ever shrinks the wait set.
LEMMA NotifyShrinks == Notify => waiting' \subseteq waiting
  BY DEF Notify, NotifyOne

\* The types hold of an empty queue.
LEMMA TypedInit == Init => TypeOK /\ CountAgrees
  BY QueueAssumption, EmptySeq DEF Init, TypeOK, CountAgrees, QueueAssumption

\* Types and the counter: a pop finds a message because the counter says so.
LEMMA TypedStep == TypeOK /\ CountAgrees /\ [Next]_vars => (TypeOK /\ CountAgrees)'
  <1> SUFFICES ASSUME TypeOK, CountAgrees, [Next]_vars
               PROVE  (TypeOK /\ CountAgrees)'
    OBVIOUS
  <1> USE QueueAssumption DEF QueueAssumption
  <1>q. queue_ \in Seq(1..MaxPush) /\ Len(queue_) \in Nat
    BY LenProperties DEF TypeOK
  <1>1. CASE Push
    <2>1. /\ pushed + 1 \in 1..MaxPush
          /\ pushed' = pushed + 1
          /\ pc' = pc
          /\ lastPopped' = lastPopped
      BY <1>1 DEF Push, TypeOK
    <2>2. CASE PushRoom
      <3>1. queue_' \in Seq(1..MaxPush) /\ Len(queue_') = Len(queue_) + 1
        BY <1>q, <2>1, <2>2, InsertedSeq DEF PushRoom, Inserted
      <3> QED
        BY <2>1, <2>2, <3>1, NotifyShrinks DEF PushRoom, Full, TypeOK, CountAgrees
    <2>3. CASE PushOverOldest
      <3>1. Len(queue_) > 0
        BY <2>3 DEF PushOverOldest, Full, TypeOK, CountAgrees
      <3>2. queue_' \in Seq(1..MaxPush) /\ Len(queue_') = Len(queue_)
        BY <1>q, <2>1, <2>3, <3>1, OverwrittenSeq DEF PushOverOldest, Overwritten
      <3> QED
        BY <2>1, <2>3, <3>2, NotifyShrinks DEF PushOverOldest, TypeOK, CountAgrees
    <2>4. CASE PushDropLatest
      BY <2>1, <2>4 DEF PushDropLatest, TypeOK, CountAgrees
    <2> QED
      BY <1>1, <2>2, <2>3, <2>4 DEF Push
  <1>2. ASSUME NEW c \in Consumers, Pop(c), Take(c)
        PROVE  (TypeOK /\ CountAgrees)'
    <2>1. Len(queue_) > 0
      BY <1>2 DEF Take, Ready, CountAgrees
    <2>2. /\ queue_' \in Seq(1..MaxPush)
          /\ Len(queue_') = Len(queue_) - 1
          /\ lastPopped' \in 1..MaxPush
      BY <1>q, <1>2, <2>1, TakenSeq DEF Take
    <2> QED
      BY <1>2, <2>1, <2>2 DEF Pop, Take, TypeOK, CountAgrees
  <1>3. ASSUME NEW c \in Consumers, Pop(c), Wait(c)
        PROVE  (TypeOK /\ CountAgrees)'
    BY <1>3 DEF Wait, TypeOK, CountAgrees
  <1>4. ASSUME NEW c \in Consumers, Empty(c)
        PROVE  (TypeOK /\ CountAgrees)'
    BY <1>4 DEF Empty, SeenNonEmpty, TypeOK, CountAgrees
  <1>5. ASSUME NEW c \in Consumers, Spurious(c)
        PROVE  (TypeOK /\ CountAgrees)'
    BY <1>5 DEF Spurious, TypeOK, CountAgrees
  <1>6. CASE UNCHANGED vars
    BY <1>6 DEF vars, TypeOK, CountAgrees
  <1> QED
    BY <1>1, <1>2, <1>3, <1>4, <1>5, <1>6 DEF Next, Pop

\* Every variable keeps its type and currentMessageCount stays within
\* 0..maxMessageCount: the test on line 22 bounds the queue in both modes.
THEOREM TypeCorrect == Spec => []TypeOK
  BY TypedInit, TypedStep, PTL DEF Spec

\* The counter that push() and pop() keep by hand is the length of the queue.
THEOREM CounterCorrect == Spec => []CountAgrees
  BY TypedInit, TypedStep, PTL DEF Spec
-------------------------------------------------------------------------------
\* The woken consumers are a finite set, and gain the thread that leaves the
\* wait set or loses the one that takes a message.
LEMMA WokenFinite == TypeOK => IsFiniteSet(Woken) /\ Cardinality(Woken) \in Nat
  BY QueueAssumption, FS_Subset, FS_CardinalityType DEF QueueAssumption, Woken

\* A consumer that is notified is one more that is woken.
LEMMA WokenGrows ==
    ASSUME TypeOK, CountAgrees, NEW t \in waiting,
           waiting' = waiting \ {t}, pc' = pc
    PROVE  Cardinality(Woken') = Cardinality(Woken) + 1
  <1>1. Woken' = Woken \cup {t} /\ t \notin Woken
    BY DEF Woken, TypeOK, CountAgrees
  <1> QED
    BY <1>1, WokenFinite, FS_AddElement

\* While a consumer is blocked, one push wakes another: the message it adds has
\* a consumer on its way to it.
LEMMA NotifyWakes ==
    ASSUME TypeOK, CountAgrees, Notify, waiting # {}, pc' = pc
    PROVE  Cardinality(Woken') = Cardinality(Woken) + 1
  <1>1. PICK t \in waiting : waiting' = waiting \ {t}
    BY DEF Notify, NotifyOne
  <1> QED
    BY <1>1, WokenGrows

\* Every step keeps a woken consumer for each message while others sleep.
LEMMA WakeupStep ==
    TypeOK /\ CountAgrees /\ NoLostWakeup /\ [Next]_vars => NoLostWakeup'
  <1> SUFFICES ASSUME TypeOK, CountAgrees, NoLostWakeup, [Next]_vars, waiting' # {}
               PROVE  currentMessageCount' <= Cardinality(Woken')
    BY DEF NoLostWakeup
  <1>c. currentMessageCount \in Nat /\ Cardinality(Woken) \in Nat
    BY QueueAssumption, WokenFinite DEF TypeOK, QueueAssumption
  <1>1. CASE Push
    <2>1. pc' = pc
      BY <1>1 DEF Push
    <2>2. CASE PushDropLatest
      BY <2>1, <2>2 DEF PushDropLatest, NoLostWakeup, Woken
    <2>3. CASE PushRoom \/ PushOverOldest
      <3>1. Notify /\ currentMessageCount' <= currentMessageCount + 1
        BY <1>c, <2>3 DEF PushRoom, PushOverOldest
      <3>2. waiting # {}
        BY <3>1, NotifyShrinks
      <3> QED
        BY <1>c, <2>1, <2>3, <3>1, <3>2, NotifyWakes
           DEF NoLostWakeup, PushRoom, PushOverOldest
    <2> QED
      BY <1>1, <2>2, <2>3 DEF Push
  <1>2. ASSUME NEW c \in Consumers, Pop(c), Take(c)
        PROVE  currentMessageCount' <= Cardinality(Woken')
    <2>1. /\ waiting' = waiting
          /\ currentMessageCount' = currentMessageCount - 1
          /\ currentMessageCount <= Cardinality(Woken)
      BY <1>2 DEF Take, NoLostWakeup
    <2>2. Woken' = Woken \ {c}
      BY <1>2 DEF Take, Woken, TypeOK
    <2>3. Cardinality(Woken') \in {Cardinality(Woken), Cardinality(Woken) - 1}
      BY <2>2, WokenFinite, FS_RemoveElement
    <2> QED
      BY <1>c, <2>1, <2>3
  <1>3. ASSUME NEW c \in Consumers, Pop(c), Wait(c)
        PROVE  currentMessageCount' <= Cardinality(Woken')
    <2>1. currentMessageCount' = 0
      BY <1>c, <1>3 DEF Wait, Ready
    <2>2. TypeOK'
      BY TypedStep
    <2>3. Cardinality(Woken') \in Nat
      <3>1. Woken' \subseteq Consumers
        BY DEF Woken
      <3> QED
        BY <3>1, QueueAssumption, FS_Subset, FS_CardinalityType DEF QueueAssumption
    <2> QED
      BY <2>1, <2>3
  <1>4. ASSUME NEW c \in Consumers, Empty(c)
        PROVE  currentMessageCount' <= Cardinality(Woken')
    <2>1. Woken' = Woken
      BY <1>4 DEF Empty, SeenNonEmpty, Woken, TypeOK
    <2> QED
      BY <1>4, <2>1 DEF Empty, NoLostWakeup
  <1>5. ASSUME NEW c \in Consumers, Spurious(c)
        PROVE  currentMessageCount' <= Cardinality(Woken')
    <2>1. Cardinality(Woken') = Cardinality(Woken) + 1
      BY <1>5, WokenGrows DEF Spurious
    <2> QED
      BY <1>c, <1>5, <2>1 DEF Spurious, NoLostWakeup
  <1>6. CASE UNCHANGED vars
    BY <1>6 DEF vars, NoLostWakeup, Woken
  <1> QED
    BY <1>1, <1>2, <1>3, <1>4, <1>5, <1>6 DEF Next, Pop

\* However many consumers share the queue, a blocked one never coexists with
\* more messages than woken consumers: one notify_one per push is enough.
THEOREM WakeupsSuffice == Spec => []NoLostWakeup
  <1>1. Init => NoLostWakeup
    BY DEF Init, NoLostWakeup
  <1> QED
    BY <1>1, TypedInit, TypedStep, WakeupStep, PTL DEF Spec
-------------------------------------------------------------------------------
\* The order of a queue q between the last message popped and the last pushed.
Ordered(q, low, high) ==
    /\ low <= high
    /\ \A i, j \in 1..Len(q) : i < j => q[i] < q[j]
    /\ \A i \in 1..Len(q) : low < q[i] /\ q[i] <= high

\* A message with the next number goes behind all others.
LEMMA OrderedInsert ==
    ASSUME NEW q \in Seq(Nat), NEW low \in Nat, NEW high \in Nat,
           Ordered(q, low, high)
    PROVE  Ordered(Append(q, high + 1), low, high + 1)
  <1> DEFINE r == Append(q, high + 1)
  <1>r. /\ Len(q) \in Nat
        /\ \A i \in 1..Len(q) : q[i] \in Nat
        /\ Len(r) = Len(q) + 1
        /\ \A i \in 1..Len(q) : r[i] = q[i]
        /\ r[Len(q) + 1] = high + 1
    BY LenProperties, ElementOfSeq, InsertedSeq
  <1> HIDE DEF r
  <1>1. ASSUME NEW i \in 1..Len(r), NEW j \in 1..Len(r), i < j
        PROVE  r[i] < r[j]
    <2>1. i \in 1..Len(q) /\ r[i] = q[i] /\ q[i] \in Nat /\ q[i] <= high
      BY <1>r, <1>1 DEF Ordered
    <2>2. CASE j = Len(q) + 1
      BY <1>r, <2>1, <2>2
    <2>3. CASE j # Len(q) + 1
      <3>1. j \in 1..Len(q) /\ r[j] = q[j]
        BY <1>r, <2>3
      <3> QED
        BY <1>1, <2>1, <3>1 DEF Ordered
    <2> QED
      BY <2>2, <2>3
  <1>2. ASSUME NEW i \in 1..Len(r)
        PROVE  low < r[i] /\ r[i] <= high + 1
    <2>1. CASE i = Len(q) + 1
      BY <1>r, <2>1 DEF Ordered
    <2>2. CASE i # Len(q) + 1
      <3>1. i \in 1..Len(q) /\ r[i] = q[i] /\ q[i] \in Nat
        BY <1>r, <2>2
      <3> QED
        BY <3>1 DEF Ordered
    <2> QED
      BY <2>1, <2>2
  <1>3. low <= high + 1
    BY DEF Ordered
  <1> QED
    BY <1>1, <1>2, <1>3 DEF Ordered, r

\* What is behind the first message has higher numbers than it.
LEMMA OrderedTail ==
    ASSUME NEW q \in Seq(Nat), NEW low \in Nat, NEW high \in Nat, Len(q) > 0,
           Ordered(q, low, high)
    PROVE  Ordered(Tail(q), low, high) /\ Ordered(Tail(q), Head(q), high)
  <1> DEFINE r == Tail(q)
  <1>r. /\ Len(q) \in Nat
        /\ \A i \in 1..Len(q) : q[i] \in Nat
        /\ Len(r) = Len(q) - 1
        /\ \A i \in 1..(Len(q) - 1) : r[i] = q[i + 1]
        /\ Head(q) = q[1]
    BY LenProperties, ElementOfSeq, TakenSeq
  <1> HIDE DEF r
  <1>1. ASSUME NEW i \in 1..Len(r), NEW j \in 1..Len(r), i < j
        PROVE  r[i] < r[j]
    <2>1. /\ i + 1 \in 1..Len(q) /\ r[i] = q[i + 1]
          /\ j + 1 \in 1..Len(q) /\ r[j] = q[j + 1]
      BY <1>r
    <2> QED
      BY <1>1, <2>1 DEF Ordered
  <1>2. ASSUME NEW i \in 1..Len(r)
        PROVE  low < r[i] /\ q[1] < r[i] /\ r[i] <= high
    <2>1. /\ i + 1 \in 1..Len(q) /\ r[i] = q[i + 1] /\ q[i + 1] \in Nat
          /\ 1 \in 1..Len(q) /\ 1 < i + 1
      BY <1>r
    <2> QED
      BY <2>1 DEF Ordered
  <1>3. 1 \in 1..Len(q)
    BY <1>r
  <1>4. low <= high /\ q[1] <= high
    BY <1>r, <1>3 DEF Ordered
  <1> QED
    BY <1>r, <1>1, <1>2, <1>4 DEF Ordered, r

\* Every step keeps the queue in push order, above what has been popped.
LEMMA FifoStep ==
    TypeOK /\ CountAgrees /\ FifoOrder /\ [Next]_vars => FifoOrder'
  <1> SUFFICES ASSUME TypeOK, CountAgrees, FifoOrder, [Next]_vars
               PROVE  FifoOrder'
    OBVIOUS
  <1> USE QueueAssumption DEF QueueAssumption
  <1>q. /\ queue_ \in Seq(Nat) /\ Len(queue_) \in Nat
        /\ \A i \in 1..Len(queue_) : queue_[i] \in Nat
        /\ pushed \in Nat /\ lastPopped \in Nat
    BY SeqMonotonic, LenProperties, ElementOfSeq DEF TypeOK
  <1>o. Ordered(queue_, lastPopped, pushed)
    BY DEF Ordered, FifoOrder
  <1>p. Ordered(queue_', lastPopped', pushed') => FifoOrder'
    BY DEF Ordered, FifoOrder
  <1>1. CASE Push
    <2>1. pushed' = pushed + 1 /\ lastPopped' = lastPopped
      BY <1>1 DEF Push
    <2>2. CASE PushRoom
      BY <1>q, <1>o, <1>p, <2>1, <2>2, OrderedInsert DEF PushRoom, Inserted
    <2>3. CASE PushOverOldest
      <3>1. Len(queue_) > 0
        BY <2>3 DEF PushOverOldest, Full, TypeOK, CountAgrees
      <3>2. Tail(queue_) \in Seq(Nat) /\ Ordered(Tail(queue_), lastPopped, pushed)
        BY <1>q, <1>o, <3>1, TakenSeq, OrderedTail
      <3>3. Ordered(queue_', lastPopped, pushed + 1)
        BY <1>q, <2>3, <3>2, OrderedInsert DEF PushOverOldest, Overwritten
      <3> QED
        BY <1>p, <2>1, <3>3
    <2>4. CASE PushDropLatest
      BY <1>q, <2>1, <2>4 DEF PushDropLatest, FifoOrder
    <2> QED
      BY <1>1, <2>2, <2>3, <2>4 DEF Push
  <1>2. ASSUME NEW c \in Consumers, Pop(c), Take(c)
        PROVE  FifoOrder'
    <2>1. Len(queue_) > 0
      BY <1>2 DEF Take, Ready, CountAgrees
    <2>2. Ordered(Tail(queue_), Head(queue_), pushed)
      BY <1>q, <1>o, <2>1, OrderedTail
    <2> QED
      BY <1>2, <1>p, <2>2 DEF Take
  <1>3. CASE UNCHANGED <<queue_, pushed, lastPopped>>
    BY <1>3 DEF FifoOrder
  <1> QED
    BY <1>1, <1>2, <1>3 DEF Next, vars, Pop, Wait, Empty, Spurious

\* Messages come out in push order and none comes out twice, whatever is
\* overwritten or refused in between.
THEOREM OrderKept == Spec => []FifoOrder
  <1>1. Init => FifoOrder
    BY DEF Init, FifoOrder
  <1> QED
    BY <1>1, TypedInit, TypedStep, FifoStep, PTL DEF Spec

-------------------------------------------------------------------------------
\* Every step keeps the latest messages in coverage mode.
LEMMA NewestStep ==
    TypeOK /\ CountAgrees /\ KeepsNewest /\ [Next]_vars => KeepsNewest'
  <1> SUFFICES ASSUME TypeOK, CountAgrees, KeepsNewest, [Next]_vars, coverageMode
               PROVE  \A i \in 1..Len(queue_') : queue_'[i] = pushed' - Len(queue_') + i
    BY DEF KeepsNewest
  <1> USE QueueAssumption DEF QueueAssumption
  <1>q. /\ queue_ \in Seq(1..MaxPush)
        /\ Len(queue_) \in Nat
        /\ \A i \in 1..Len(queue_) : queue_[i] = pushed - Len(queue_) + i
        /\ pushed \in Nat
    BY LenProperties DEF TypeOK, KeepsNewest
  <1>1. CASE Push
    <2>1. pushed + 1 \in 1..MaxPush /\ pushed' = pushed + 1
      BY <1>1 DEF Push, TypeOK
    <2>2. CASE PushRoom
      <3>1. /\ Len(queue_') = Len(queue_) + 1
            /\ \A i \in 1..Len(queue_) : queue_'[i] = queue_[i]
            /\ queue_'[Len(queue_) + 1] = pushed + 1
        BY <1>q, <2>1, <2>2, InsertedSeq DEF PushRoom, Inserted
      <3>2. ASSUME NEW i \in 1..Len(queue_')
            PROVE  queue_'[i] = pushed' - Len(queue_') + i
        <4>1. CASE i = Len(queue_) + 1
          BY <1>q, <2>1, <3>1, <4>1
        <4>2. CASE i # Len(queue_) + 1
          <5>1. i \in 1..Len(queue_) /\ queue_'[i] = queue_[i]
            BY <1>q, <3>1, <4>2
          <5> QED
            BY <1>q, <2>1, <3>1, <5>1
        <4> QED
          BY <4>1, <4>2
      <3> QED
        BY <3>2
    <2>3. CASE PushOverOldest
      <3>1. Len(queue_) > 0
        BY <2>3 DEF PushOverOldest, Full, TypeOK, CountAgrees
      <3>2. /\ Len(queue_') = Len(queue_)
            /\ \A i \in 1..(Len(queue_) - 1) : queue_'[i] = queue_[i + 1]
            /\ queue_'[Len(queue_)] = pushed + 1
        BY <1>q, <2>1, <2>3, <3>1, OverwrittenSeq DEF PushOverOldest, Overwritten
      <3>3. ASSUME NEW i \in 1..Len(queue_')
            PROVE  queue_'[i] = pushed' - Len(queue_') + i
        <4>1. CASE i = Len(queue_)
          BY <1>q, <2>1, <3>1, <3>2, <4>1
        <4>2. CASE i # Len(queue_)
          <5>1. /\ i \in 1..(Len(queue_) - 1) /\ queue_'[i] = queue_[i + 1]
                /\ i + 1 \in 1..Len(queue_)
            BY <1>q, <3>1, <3>2, <4>2
          <5> QED
            BY <1>q, <2>1, <3>2, <5>1
        <4> QED
          BY <4>1, <4>2
      <3> QED
        BY <3>3
    <2> QED
      BY <1>1, <2>2, <2>3 DEF Push, PushDropLatest
  <1>2. ASSUME NEW c \in Consumers, Pop(c), Take(c)
        PROVE  \A i \in 1..Len(queue_') : queue_'[i] = pushed' - Len(queue_') + i
    <2>1. Len(queue_) > 0
      BY <1>2 DEF Take, Ready, CountAgrees
    <2>2. /\ pushed' = pushed
          /\ Len(queue_') = Len(queue_) - 1
          /\ \A i \in 1..(Len(queue_) - 1) : queue_'[i] = queue_[i + 1]
      BY <1>q, <1>2, <2>1, TakenSeq DEF Take
    <2>3. ASSUME NEW i \in 1..Len(queue_')
          PROVE  queue_'[i] = pushed' - Len(queue_') + i
      <3>1. /\ i \in 1..(Len(queue_) - 1) /\ queue_'[i] = queue_[i + 1]
            /\ i + 1 \in 1..Len(queue_)
        BY <1>q, <2>2
      <3> QED
        BY <1>q, <2>2, <3>1
    <2> QED
      BY <2>3
  <1>3. CASE UNCHANGED <<queue_, pushed>>
    BY <1>q, <1>3
  <1> QED
    BY <1>1, <1>2, <1>3 DEF Next, vars, Pop, Wait, Empty, Spurious

\* In coverage mode the queue is always the latest Len(queue_) messages.
THEOREM NewestKept == Spec => []KeepsNewest
  <1>1. Init => KeepsNewest
    BY DEF Init, KeepsNewest
  <1> QED
    BY <1>1, TypedInit, TypedStep, NewestStep, PTL DEF Spec

-------------------------------------------------------------------------------
\* What empty() told the only consumer stays true until that consumer pops.
CheckHolds == \A c \in Consumers : pc[c] = "checked" => currentMessageCount > 0

\* Nobody but the only consumer takes messages away.
LEMMA CheckStep ==
    ASSUME NEW k, Consumers = {k}, TypeOK, CountAgrees, CheckHolds, [Next]_vars
    PROVE  CheckHolds'
  <1> USE QueueAssumption DEF QueueAssumption
  <1>c. currentMessageCount \in Nat
    BY DEF TypeOK
  <1>1. CASE Push
    <2>1. pc' = pc /\ currentMessageCount' >= currentMessageCount
      BY <1>c, <1>1 DEF Push, PushRoom, PushOverOldest, PushDropLatest
    <2>2. currentMessageCount' \in Nat
      BY TypedStep DEF TypeOK
    <2> QED
      BY <1>c, <2>1, <2>2 DEF CheckHolds
  <1>2. ASSUME NEW c \in Consumers, Pop(c) \/ Empty(c) \/ Spurious(c)
        PROVE  CheckHolds'
    BY <1>c, <1>2 DEF Pop, Take, Wait, Ready, Empty, SeenNonEmpty, Spurious,
                      CheckHolds, TypeOK
  <1>3. CASE UNCHANGED vars
    BY <1>3 DEF vars, CheckHolds
  <1> QED
    BY <1>1, <1>2, <1>3 DEF Next

\* For a single consumer the idiom `if (!empty()) pop()` never blocks.
THEOREM SingleConsumerNeverBlocks ==
    ASSUME NEW k, Consumers = {k}
    PROVE  Spec => GuardedPopNeverBlocks
  <1>1. Init => CheckHolds
    BY DEF Init, CheckHolds
  <1>2. TypeOK /\ CountAgrees /\ CheckHolds /\ [Next]_vars => CheckHolds'
    BY CheckStep
  <1>3. TypeOK /\ CountAgrees /\ CheckHolds /\ [Next]_vars
            => [\A c \in Consumers : pc[c] = "checked" => c \notin waiting']_vars
    <2> SUFFICES ASSUME TypeOK, CountAgrees, CheckHolds, Next,
                        NEW c \in Consumers, pc[c] = "checked"
                 PROVE  c \notin waiting'
      OBVIOUS
    <2>1. c \notin waiting
      BY DEF CountAgrees
    <2>2. CASE Push
      BY <2>1, <2>2, NotifyShrinks DEF Push, PushRoom, PushOverOldest, PushDropLatest
    <2>3. ASSUME NEW d \in Consumers, Pop(d) \/ Empty(d) \/ Spurious(d)
          PROVE  c \notin waiting'
      BY <2>1, <2>3 DEF Pop, Take, Wait, Ready, Empty, Spurious, CheckHolds
    <2> QED
      BY <2>2, <2>3 DEF Next
  <1> QED
    BY <1>1, <1>2, <1>3, TypedInit, TypedStep, PTL DEF Spec, GuardedPopNeverBlocks
-------------------------------------------------------------------------------
\* The abstract view of a queue: the set of messages in it.
Elements(q) == {q[i] : i \in 1..Len(q)}

\* Appending a message adds it to the set of messages.
LEMMA ElementsInserted ==
    ASSUME NEW q \in Seq(Nat), NEW m \in Nat
    PROVE  Elements(Append(q, m)) = Elements(q) \cup {m}
  <1>1. /\ Len(q) \in Nat
        /\ Len(Append(q, m)) = Len(q) + 1
        /\ \A i \in 1..Len(q) : Append(q, m)[i] = q[i]
        /\ Append(q, m)[Len(q) + 1] = m
    BY LenProperties, InsertedSeq
  <1>2. 1..(Len(q) + 1) = (1..Len(q)) \cup {Len(q) + 1}
    BY <1>1
  <1> QED
    BY <1>1, <1>2 DEF Elements

\* In an ordered queue no message occurs twice ...
LEMMA ElementsCounted ==
    ASSUME NEW q \in Seq(Nat), NEW low \in Nat, NEW high \in Nat,
           Ordered(q, low, high)
    PROVE  Cardinality(Elements(q)) = Len(q)
  <1>1. /\ Len(q) \in Nat
        /\ q \in [1..Len(q) -> Elements(q)]
        /\ \A i \in 1..Len(q) : q[i] \in Nat
    BY LenProperties, ElementOfSeq DEF Elements
  <1>2. ASSUME NEW i \in 1..Len(q), NEW j \in 1..Len(q), q[i] = q[j]
        PROVE  i = j
    BY <1>1, <1>2 DEF Ordered
  <1>3. q \in Bijection(1..Len(q), Elements(q))
    BY <1>1, <1>2 DEF Bijection, Injection, Surjection, IsInjective, Elements
  <1> QED
    BY <1>1, <1>3, FS_CountingElements DEF ExistsBijection

\* ... and the head is the oldest one.
LEMMA ElementsTaken ==
    ASSUME NEW q \in Seq(Nat), NEW low \in Nat, NEW high \in Nat,
           Ordered(q, low, high), Len(q) > 0
    PROVE  /\ Elements(q) # {}
           /\ Fifo!Oldest(Elements(q)) = Head(q)
           /\ Elements(Tail(q)) = Elements(q) \ {Head(q)}
  <1>1. /\ Len(q) \in Nat
        /\ \A i \in 1..Len(q) : q[i] \in Nat
        /\ Head(q) = q[1]
        /\ Len(Tail(q)) = Len(q) - 1
        /\ \A i \in 1..(Len(q) - 1) : Tail(q)[i] = q[i + 1]
    BY LenProperties, ElementOfSeq, TakenSeq
  <1>2. \A i \in 1..Len(q) : i # 1 => q[1] < q[i]
    BY <1>1 DEF Ordered
  <1>3. 1 \in 1..Len(q) /\ q[1] \in Elements(q)
    BY <1>1 DEF Elements
  <1>4. /\ \A n \in Elements(q) : n \in Nat /\ q[1] <= n
        /\ q[1] \in Nat
    BY <1>1, <1>2, <1>3 DEF Elements
  <1>5. Fifo!Oldest(Elements(q)) = q[1]
    <2>1. \A m \in Elements(q) : (\A n \in Elements(q) : m <= n) => m = q[1]
      BY <1>3, <1>4
    <2> QED
      BY <1>3, <1>4, <2>1 DEF Fifo!Oldest
  <1>6. Elements(Tail(q)) = Elements(q) \ {q[1]}
    <2>1. ASSUME NEW i \in 1..(Len(q) - 1)
          PROVE  Tail(q)[i] \in Elements(q) /\ Tail(q)[i] # q[1]
      <3>1. i + 1 \in 1..Len(q) /\ i + 1 # 1 /\ Tail(q)[i] = q[i + 1]
        BY <1>1
      <3> QED
        BY <1>1, <1>2, <1>3, <3>1 DEF Elements
    <2>2. ASSUME NEW i \in 1..Len(q), i # 1
          PROVE  q[i] \in Elements(Tail(q))
      <3>1. i - 1 \in 1..(Len(q) - 1) /\ (i - 1) + 1 = i
        BY <1>1, <2>2
      <3>2. q[i] = Tail(q)[i - 1]
        BY <1>1, <3>1
      <3> QED
        BY <1>1, <3>1, <3>2 DEF Elements
    <2> QED
      BY <1>1, <2>1, <2>2 DEF Elements
  <1> QED
    BY <1>1, <1>3, <1>5, <1>6

\* The abstract module counts as this one does.
LEMMA SameCardinality == \A S : Fifo!Cardinality(S) = Cardinality(S)
  BY DEF Fifo!Cardinality, Cardinality

\* Every step of the queue is one of the lossy FIFO, or none.
LEMMA FifoSimulation ==
    TypeOK /\ CountAgrees /\ FifoOrder /\ [Next]_vars
        => [Fifo!Send \/ Fifo!Deliver]_(Fifo!fifoVars)
  <1> SUFFICES ASSUME TypeOK, CountAgrees, FifoOrder, [Next]_vars
               PROVE  [Fifo!Send \/ Fifo!Deliver]_(Fifo!fifoVars)
    OBVIOUS
  <1> USE QueueAssumption DEF QueueAssumption
  <1>q. /\ queue_ \in Seq(Nat) /\ Len(queue_) \in Nat
        /\ pushed \in Nat /\ lastPopped \in Nat
    BY SeqMonotonic, LenProperties DEF TypeOK
  <1>o. Ordered(queue_, lastPopped, pushed)
    BY DEF Ordered, FifoOrder
  <1>n. /\ Cardinality(Elements(queue_)) = currentMessageCount
        /\ currentMessageCount = Len(queue_)
        /\ currentMessageCount <= maxMessageCount
    BY <1>q, <1>o, ElementsCounted DEF CountAgrees, TypeOK
  <1>s. Fifo!Send <=>
            /\ pushed' = pushed + 1
            /\ \/ /\ Cardinality(Elements(queue_)) < maxMessageCount
                  /\ Elements(queue_') = Elements(queue_) \cup {pushed + 1}
               \/ /\ Cardinality(Elements(queue_)) = maxMessageCount
                  /\ coverageMode
                  /\ Elements(queue_') =
                        (Elements(queue_) \ {Fifo!Oldest(Elements(queue_))})
                            \cup {pushed + 1}
               \/ /\ Cardinality(Elements(queue_)) = maxMessageCount
                  /\ ~coverageMode
                  /\ Elements(queue_') = Elements(queue_)
            /\ lastPopped' = lastPopped
    BY SameCardinality
       DEF Fifo!Send, Fifo!Accept, Fifo!Overwrite, Fifo!Refuse, Elements
  <1>d. Fifo!Deliver <=>
            /\ Elements(queue_) # {}
            /\ lastPopped' = Fifo!Oldest(Elements(queue_))
            /\ Elements(queue_') =
                    Elements(queue_) \ {Fifo!Oldest(Elements(queue_))}
            /\ pushed' = pushed
    BY DEF Fifo!Deliver, Elements
  <1>1. CASE Push
    <2>1. pushed' = pushed + 1 /\ lastPopped' = lastPopped
      BY <1>1 DEF Push
    <2>2. CASE PushRoom
      <3>1. Elements(queue_') = Elements(queue_) \cup {pushed + 1}
        BY <1>q, <2>2, ElementsInserted DEF PushRoom, Inserted
      <3> QED
        BY <1>n, <1>q, <1>s, <2>1, <2>2, <3>1 DEF PushRoom, Full
    <2>3. CASE PushOverOldest
      <3>1. Len(queue_) > 0 /\ currentMessageCount = maxMessageCount
        BY <1>q, <1>n, <2>3 DEF PushOverOldest, Full
      <3>2. Tail(queue_) \in Seq(Nat)
        BY <1>q, <3>1, TakenSeq
      <3>3. Elements(queue_') = Elements(Tail(queue_)) \cup {pushed + 1}
        <4>1. pushed + 1 \in Nat /\ queue_' = Append(Tail(queue_), pushed + 1)
          BY <1>q, <2>3 DEF PushOverOldest, Overwritten
        <4> QED
          BY <3>2, <4>1, ElementsInserted
      <3>4. /\ Fifo!Oldest(Elements(queue_)) = Head(queue_)
            /\ Elements(Tail(queue_)) = Elements(queue_) \ {Head(queue_)}
        BY <1>q, <1>o, <3>1, ElementsTaken
      <3> QED
        BY <1>n, <1>s, <2>1, <2>3, <3>1, <3>3, <3>4 DEF PushOverOldest
    <2>4. CASE PushDropLatest
      <3>1. currentMessageCount = maxMessageCount
        BY <1>q, <1>n, <2>4 DEF PushDropLatest, Full
      <3> QED
        BY <1>n, <1>s, <2>1, <2>4, <3>1 DEF PushDropLatest
    <2> QED
      BY <1>1, <2>2, <2>3, <2>4 DEF Push
  <1>2. ASSUME NEW c \in Consumers, Pop(c), Take(c)
        PROVE  Fifo!Deliver
    <2>1. Len(queue_) > 0
      BY <1>2 DEF Take, Ready, CountAgrees
    <2>2. /\ Elements(queue_) # {}
          /\ Fifo!Oldest(Elements(queue_)) = Head(queue_)
          /\ Elements(Tail(queue_)) = Elements(queue_) \ {Head(queue_)}
      BY <1>q, <1>o, <2>1, ElementsTaken
    <2> QED
      BY <1>2, <1>d, <2>2 DEF Take
  <1>3. CASE UNCHANGED <<queue_, pushed, lastPopped>>
    BY <1>3 DEF Fifo!fifoVars
  <1> QED
    BY <1>1, <1>2, <1>3 DEF Next, vars, Pop, Wait, Empty, Spurious

\* push() and pop() implement the abstract lossy FIFO: the only message ever
\* lost is the one the full queue's mode says.
THEOREM QueueIsFifo == Spec => ImplementsFifo
  <1>1. Init => Fifo!FifoInit
    BY EmptySeq DEF Init, Fifo!FifoInit
  <1>2. Init => FifoOrder
    BY DEF Init, FifoOrder
  <1> QED
    BY <1>1, <1>2, TypedInit, TypedStep, FifoStep, FifoSimulation, PTL
       DEF Spec, ImplementsFifo, Fifo!FifoSpec
===============================================================================
