-------------------------- MODULE FileLogPolicyProofs --------------------------
(* Theorems about FileLogPolicy with a single caller, the thread that owns    *)
(* it: it calls Write() and Flush(), and at last the destructor. The file     *)
(* thread runs beside it. (With two callers messages are lost, see the runs.) *)
EXTENDS FileLogPolicy, SequenceTheorems, TLAPS

SingleCaller == Threads = {owner}

-------------------------------------------------------------------------------
(* The invariant. The caller is at `at`; the buffer it fills is `current`.    *)

Increasing(seq) == \A i, j \in 1..Len(seq) : i < j => seq[i] < seq[j]

Precede(seq, later) == \A i \in 1..Len(seq), j \in 1..Len(later) : seq[i] < later[j]

Labels == {"idle", "lock"} \cup Holding

RingTypes ==
    /\ current_buffer_ \in Ring
    /\ buffers_ \in [Ring -> Seq(1..MaxMessages)]
    /\ buffer_is_empty_ \in [Ring -> BOOLEAN]
    /\ queue_buffers_ \in Seq(Ring)

CallTypes ==
    /\ pc \in [{owner} -> Labels] /\ op \in [{owner} -> {"write", "flush"}]
    /\ lockIdx \in [{owner} -> Ring] /\ index \in [{owner} -> Ring]
    /\ pc[owner] = "sum" => current_buffer_ + 1 \in Ring
    /\ pc[owner] \in {"format", "append"} => op[owner] = "write"
    /\ pc[owner] = "append" => index[owner] = current_buffer_
    /\ pc[owner] \in {"lock", "format", "append"} /\ op[owner] = "write" => written < MaxMessages

OtherTypes ==
    /\ filePc \in {"wait", "blocking", "asleep", "write", "clear", "exited"}
    /\ target \in Ring /\ file \in Seq(1..MaxMessages)
    /\ written \in 0..MaxMessages
    /\ stop_thread_ \in BOOLEAN
    /\ dtor \in {"no", "stopped", "flushing", "joining", "done"}

Types == RingTypes /\ CallTypes /\ OtherTypes

InHand == filePc \in {"write", "clear"}

\* NextBuffer() is looking for a buffer.
Seeking == pc[owner] \in {"test", "compare", "sum", "store"}

\* A buffer is handed over once, and marked from then on until it is written;
\* the caller fills one that is not.
HandedOnce ==
    /\ \A i, j \in 1..Len(queue_buffers_) :
          queue_buffers_[i] = queue_buffers_[j] => i = j
    /\ InHand => \A i \in 1..Len(queue_buffers_) : queue_buffers_[i] # target

MarkedRight ==
    /\ pc[owner] = "mark" => /\ current_buffer_ \in HandedOver
                             /\ ~(InHand /\ target = current_buffer_)
                             /\ buffer_is_empty_[current_buffer_]
    /\ ~Seeking /\ pc[owner] # "mark" => current_buffer_ \notin HandedOver
    /\ \A b \in Ring : ~(pc[owner] = "mark" /\ b = current_buffer_) =>
          (buffer_is_empty_[b] <=> b \notin HandedOver)

\* Only buffers that are handed over, and the one being filled, have messages.
OthersEmpty ==
    \A b \in Ring : b \notin HandedOver /\ (b # current_buffer_ \/ Seeking \/ pc[owner] = "notify")
                        => buffers_[b] = <<>>

\* What is in the file comes before what is in the buffer in hand, this before
\* what is in those queued, in the order of the queue, and all of it before what
\* is in the buffer being filled.
InOrder ==
    /\ Increasing(file)
    /\ \A b \in Ring : Increasing(buffers_[b])
    /\ \A b \in Ring : ~(filePc = "clear" /\ b = target) => Precede(file, buffers_[b])
    /\ \A i, j \in 1..Len(queue_buffers_) :
          i < j => Precede(buffers_[queue_buffers_[i]], buffers_[queue_buffers_[j]])
    /\ InHand => \A i \in 1..Len(queue_buffers_) :
                    Precede(buffers_[target], buffers_[queue_buffers_[i]])
    /\ current_buffer_ \notin HandedOver =>
          \A b \in HandedOver : Precede(buffers_[b], buffers_[current_buffer_])

UpToNow ==
    /\ \A i \in 1..Len(file) : file[i] <= written
    /\ \A b \in Ring : \A i \in 1..Len(buffers_[b]) : buffers_[b][i] <= written

\* What the file thread is about to clear is in the file.
Saved == filePc = "clear" => \A i \in 1..Len(buffers_[target]) : InFile(buffers_[target][i])

FileInv == /\ Types /\ HandedOnce /\ MarkedRight /\ OthersEmpty
           /\ InOrder /\ UpToNow /\ Saved /\ NothingLost

-------------------------------------------------------------------------------
(* Sequences of messages. *)

\* Nothing comes before, and nothing after, the empty sequence.
LEMMA NothingIn == Len(<<>>) = 0 /\ 1..Len(<<>>) = {}
OBVIOUS

\* It is in order with anything before or behind it.
LEMMA EmptyOrder ==
    ASSUME NEW seq
    PROVE  Increasing(<<>>) /\ Precede(<<>>, seq) /\ Precede(seq, <<>>)
BY NothingIn DEF Increasing, Precede

\* A message that is the latest can be put at the end of what has come before.
LEMMA LatestAtEnd ==
    ASSUME NEW seq \in Seq(Nat), NEW m \in Nat, \A i \in 1..Len(seq) : seq[i] < m
    PROVE  /\ Append(seq, m) \in Seq(Nat)
           /\ Len(Append(seq, m)) = Len(seq) + 1
           /\ Append(seq, m)[Len(seq) + 1] = m
           /\ \A i \in 1..Len(seq) : Append(seq, m)[i] = seq[i]
           /\ \A i \in 1..Len(Append(seq, m)) : Append(seq, m)[i] <= m
           /\ Increasing(seq) => Increasing(Append(seq, m))
<1> DEFINE longer == Append(seq, m)
<1>1. /\ longer \in Seq(Nat) /\ Len(longer) = Len(seq) + 1
      /\ longer[Len(seq) + 1] = m
      /\ \A i \in 1..Len(seq) : longer[i] = seq[i]
      BY AppendProperties
<1>2. Len(seq) \in Nat /\ \A i \in 1..Len(seq) : seq[i] \in Nat  OBVIOUS
<1> HIDE DEF longer
<1>3. \A i \in 1..Len(longer) : i \in 1..Len(seq) \/ i = Len(seq) + 1  BY <1>1, <1>2
<1>4. \A i \in 1..Len(longer) : longer[i] <= m  BY <1>1, <1>2, <1>3
<1>5. ASSUME Increasing(seq), NEW i \in 1..Len(longer), NEW j \in 1..Len(longer), i < j
      PROVE  longer[i] < longer[j]
  <2>1. i \in 1..Len(seq)  BY <1>1, <1>2, <1>5
  <2>2. CASE j \in 1..Len(seq)  BY <1>1, <1>5, <2>1, <2>2 DEF Increasing
  <2>3. CASE j = Len(seq) + 1  BY <1>1, <2>1, <2>3
  <2> QED  BY <1>3, <2>2, <2>3
<1> QED  BY <1>1, <1>4, <1>5 DEF Increasing, longer

\* Where the elements of a concatenation come from.
LEMMA ConcatAt ==
    ASSUME NEW T, NEW p \in Seq(T), NEW q \in Seq(T)
    PROVE  /\ p \o q \in Seq(T) /\ Len(p \o q) = Len(p) + Len(q)
           /\ \A i \in 1..Len(p) : i \in 1..Len(p \o q) /\ (p \o q)[i] = p[i]
           /\ \A i \in 1..Len(q) : /\ Len(p) + i \in 1..Len(p \o q)
                                   /\ (p \o q)[Len(p) + i] = q[i]
           /\ \A i \in 1..Len(p \o q) :
                 i \in 1..Len(p) \/ (i - Len(p) \in 1..Len(q) /\ i = Len(p) + (i - Len(p)))
<1>1. Len(p) \in Nat /\ Len(q) \in Nat /\ Len(p \o q) = Len(p) + Len(q) /\ p \o q \in Seq(T)
      BY ConcatProperties, LenProperties
<1>2. \A i \in 1..Len(q) : (p \o q)[Len(p) + i] = q[i]
  <2> TAKE i \in 1..Len(q)
  <2>1. Len(p) + i \in (Len(p) + 1)..(Len(p) + Len(q)) /\ Len(p) + i - Len(p) = i  BY <1>1
  <2> QED  BY <1>1, <2>1, ConcatProperties
<1>3. \A i \in 1..Len(p) : (p \o q)[i] = p[i]  BY <1>1, ConcatProperties
<1> QED  BY <1>1, <1>2, <1>3

\* Two increasing sequences, one after the other.
LEMMA ConcatIncreases ==
    ASSUME NEW p \in Seq(Nat), NEW q \in Seq(Nat),
           Increasing(p), Increasing(q), Precede(p, q)
    PROVE  Increasing(p \o q)
<1> SUFFICES ASSUME NEW i \in 1..Len(p \o q), NEW j \in 1..Len(p \o q), i < j
             PROVE  (p \o q)[i] < (p \o q)[j]
    BY DEF Increasing
<1>0. Len(p) \in Nat /\ Len(q) \in Nat  OBVIOUS
<1>1. CASE i \in 1..Len(p) /\ j \in 1..Len(p)  BY <1>1, ConcatAt DEF Increasing
<1>2. CASE i \in 1..Len(p) /\ j - Len(p) \in 1..Len(q) /\ j = Len(p) + (j - Len(p))
      BY <1>2, ConcatAt DEF Precede
<1>3. CASE /\ i - Len(p) \in 1..Len(q) /\ i = Len(p) + (i - Len(p))
           /\ j - Len(p) \in 1..Len(q) /\ j = Len(p) + (j - Len(p))
  <2>1. i - Len(p) < j - Len(p)  BY <1>0
  <2>2. q[i - Len(p)] < q[j - Len(p)]  BY <1>3, <2>1 DEF Increasing
  <2>3. (p \o q)[i] = q[i - Len(p)] /\ (p \o q)[j] = q[j - Len(p)]  BY <1>3, ConcatAt
  <2> QED  BY <2>2, <2>3
<1>4. ~(i - Len(p) \in 1..Len(q) /\ j \in 1..Len(p))  BY <1>0
<1> QED  BY <1>1, <1>2, <1>3, <1>4, ConcatAt

\* The head of a queue and the rest of it.
LEMMA TailAt ==
    ASSUME NEW T, NEW seq \in Seq(T), seq # <<>>
    PROVE  /\ Head(seq) = seq[1] /\ 1 \in 1..Len(seq) /\ Head(seq) \in T
           /\ Tail(seq) \in Seq(T) /\ Len(Tail(seq)) = Len(seq) - 1
           /\ \A i \in 1..Len(Tail(seq)) : i + 1 \in 1..Len(seq) /\ Tail(seq)[i] = seq[i + 1]
           /\ \A i \in 1..Len(seq) : i = 1 \/ i - 1 \in 1..Len(Tail(seq))
<1>1. Len(seq) \in Nat /\ Len(seq) # 0  BY EmptySeq, LenProperties
<1> QED  BY <1>1, HeadTailProperties

-------------------------------------------------------------------------------
\* Nothing is written at first, and the caller is in no call.
LEMMA FileStarts == ASSUME SingleCaller, Init PROVE FileInv
<1> USE DEF Init
<1>0. 0 \in Ring /\ Threads = {owner}  BY RingAssumption DEF Ring, SingleCaller
<1>1. HandedOver = {}  BY NothingIn DEF HandedOver
<1>2. Types
  <2>0. <<>> \in Seq(Ring) /\ <<>> \in Seq(1..MaxMessages) /\ 0 \in 0..MaxMessages
        BY RingAssumption
  <2>1. RingTypes /\ OtherTypes  BY <1>0, <2>0 DEF RingTypes, OtherTypes
  <2>2. CallTypes  BY <1>0 DEF CallTypes, Labels
  <2> QED  BY <2>1, <2>2 DEF Types
<1>3. HandedOnce /\ MarkedRight /\ OthersEmpty
  <2>1. pc[owner] = "idle" /\ ~InHand /\ ~Seeking  BY <1>0 DEF InHand, Seeking
  <2>2. \A b \in Ring : buffers_[b] = <<>> /\ buffer_is_empty_[b]  OBVIOUS
  <2>3. HandedOnce  BY <2>1, NothingIn DEF HandedOnce
  <2>4. MarkedRight  BY <1>1, <2>1, <2>2 DEF MarkedRight
  <2>5. OthersEmpty  BY <2>2 DEF OthersEmpty
  <2> QED  BY <2>3, <2>4, <2>5
<1>4. InOrder
  <2>1. file = <<>> /\ \A b \in Ring : buffers_[b] = <<>>  OBVIOUS
  <2> QED  BY <1>1, <2>1, EmptyOrder, NothingIn DEF InOrder, InHand
<1>5. UpToNow /\ Saved /\ NothingLost
      BY NothingIn DEF UpToNow, Saved, NothingLost
<1> QED  BY <1>2, <1>3, <1>4, <1>5 DEF FileInv

-------------------------------------------------------------------------------
(* Steps that move no message. *)

Contents == <<buffers_, queue_buffers_, target, file, written>>

\* When neither messages nor buffers move, and the caller goes on with its
\* buffer or has found the next one, what the invariant says of them stays true.
LEMMA ContentsKept ==
    ASSUME FileInv, UNCHANGED Contents,
           InHand' <=> InHand, filePc' = "clear" <=> filePc = "clear",
           current_buffer_' = current_buffer_ \/ (Seeking /\ Seeking'),
           Seeking' \/ pc'[owner] = "notify" => Seeking \/ pc[owner] = "notify" \/ pc[owner] = "mark",
           current_buffer_' \in Ring
    PROVE  /\ HandedOver' = HandedOver
           /\ HandedOnce' /\ OthersEmpty' /\ InOrder' /\ UpToNow' /\ Saved' /\ NothingLost'
<1> USE DEF FileInv, Contents
<1>1. HandedOver' = HandedOver  BY DEF HandedOver, InHand
<1>2. HandedOnce'  BY DEF HandedOnce
<1>3. OthersEmpty'
  <2> SUFFICES ASSUME NEW b \in Ring, b \notin HandedOver,
                      b # current_buffer_' \/ Seeking' \/ pc'[owner] = "notify"
               PROVE  buffers_[b] = <<>>
      BY <1>1 DEF OthersEmpty
  <2>1. pc[owner] = "mark" => b # current_buffer_  BY DEF MarkedRight
  <2> QED  BY <2>1 DEF OthersEmpty
<1>4. InOrder'
  <2>1. ASSUME current_buffer_' \notin HandedOver, NEW b \in HandedOver
        PROVE  Precede(buffers_[b], buffers_[current_buffer_'])
    <3>1. CASE current_buffer_' = current_buffer_  BY <2>1, <3>1 DEF InOrder
    <3>2. CASE Seeking
      <4>1. buffers_[current_buffer_'] = <<>>  BY <2>1, <3>2 DEF OthersEmpty
      <4> QED  BY <4>1, EmptyOrder
    <3> QED  BY <3>1, <3>2
  <2> QED  BY <1>1, <2>1 DEF InOrder
<1>5. UpToNow' /\ Saved' /\ NothingLost'
      BY DEF UpToNow, Saved, InFile, NothingLost, InBuffer
<1> QED  BY <1>1, <1>2, <1>3, <1>4, <1>5

\* The caller begins a call, locks, chooses or looks at its buffer, seeks the next
\* one or notifies the file thread: all its steps but AppendTo, Queue and Mark.
LEMMA CallerMoves ==
    ASSUME SingleCaller, FileInv,
           \/ Call(owner) \/ DestroyFlush
           \/ Lock(owner) \/ ChooseBuffer(owner) \/ Full(owner) \/ Check(owner) \/ Notify(owner)
           \/ Test(owner) \/ Compare(owner) \/ Sum(owner) \/ Store(owner)
    PROVE  FileInv'
<1> USE RingAssumption DEF SingleCaller
<1>0. Types  BY DEF FileInv
<1>1. UNCHANGED Contents
      BY DEF Call, DestroyFlush, Begin, Lock, ChooseBuffer, Full, Check, Notify, Test, Compare, Sum,
             Store, ringVars, fileVars, Contents
<1>2. UNCHANGED buffer_is_empty_ /\ (filePc' = filePc \/ (filePc = "asleep" /\ filePc' = "wait"))
      BY DEF Call, DestroyFlush, Begin, Lock, ChooseBuffer, Full, Check, Notify, Woken, Test, Compare, Sum,
             Store, ringVars, fileVars
<1>3. /\ current_buffer_' \in Ring
      /\ current_buffer_' = current_buffer_ \/ (Seeking /\ Seeking')
  <2>1. CASE Store(owner)
        BY <1>0, <2>1 DEF Types, CallTypes, Seeking, Goto, Store
  <2>2. CASE \/ Call(owner) \/ DestroyFlush \/ Lock(owner) \/ ChooseBuffer(owner) \/ Full(owner) \/ Check(owner)
             \/ Notify(owner) \/ Test(owner) \/ Compare(owner) \/ Sum(owner)
    <3>1. UNCHANGED ringVars
          BY <2>2 DEF Call, DestroyFlush, Begin, Lock, ChooseBuffer, Full, Check, Notify, Test, Compare, Sum
    <3>2. current_buffer_' = current_buffer_  BY <3>1 DEF ringVars
    <3>3. current_buffer_ \in Ring  BY <1>0 DEF Types, RingTypes
    <3> QED  BY <3>2, <3>3
  <2> QED  BY <2>1, <2>2
<1>4. Seeking' \/ pc'[owner] = "notify" => Seeking
      BY <1>0
      DEF Types, CallTypes, Seeking, Goto, Call, DestroyFlush, Begin, Lock, ChooseBuffer, Full,
          Check, Notify, Test, Compare, Sum, Store
<1>5. /\ HandedOver' = HandedOver
      /\ HandedOnce' /\ OthersEmpty' /\ InOrder' /\ UpToNow' /\ Saved' /\ NothingLost'
      BY <1>1, <1>2, <1>3, <1>4, ContentsKept DEF InHand
<1>6. pc[owner] # "mark" /\ pc'[owner] # "mark"
      BY <1>0
      DEF Types, CallTypes, Goto, Call, DestroyFlush, Begin, Lock, ChooseBuffer, Full,
          Check, Notify, Test, Compare, Sum, Store
<1>9. ~Seeking' => /\ current_buffer_' = current_buffer_
                   /\ ~Seeking \/ buffer_is_empty_[current_buffer_]
  <2>1. CASE Test(owner)
        BY <1>0, <2>1 DEF Types, CallTypes, Seeking, Goto, Test, ringVars
  <2>2. CASE Compare(owner) \/ Sum(owner) \/ Store(owner)
        BY <1>0, <2>2 DEF Types, CallTypes, Seeking, Goto, Compare, Sum, Store
  <2>3. CASE \/ Call(owner) \/ DestroyFlush
             \/ Lock(owner) \/ ChooseBuffer(owner) \/ Full(owner) \/ Check(owner) \/ Notify(owner)
        BY <2>3 DEF Seeking, Call, DestroyFlush, Begin, Lock, ChooseBuffer, Full, Check, Notify, ringVars
  <2> QED  BY <2>1, <2>2, <2>3
<1>7. MarkedRight'
      BY <1>0, <1>2, <1>3, <1>5, <1>6, <1>9
      DEF FileInv, MarkedRight, Types, RingTypes
<1>8. Types'
  <2>1. RingTypes' /\ OtherTypes'
        BY <1>0, <1>1, <1>2, <1>3
        DEF Types, RingTypes, OtherTypes, Contents, Call, DestroyFlush, Begin, Lock, ChooseBuffer, Full,
            Check, Notify, Test, Compare, Sum, Store
  <2>2. CallTypes'
    <3> USE DEF Types, RingTypes, CallTypes, Labels, Holding, Spinning, Goto
    <3>1. CASE Call(owner) \/ DestroyFlush
          BY <1>0, <3>1 DEF Call, DestroyFlush, Begin, InRange
    <3>2. CASE Lock(owner) \/ ChooseBuffer(owner) \/ Full(owner) \/ Check(owner) \/ Notify(owner) \/ Test(owner)
          BY <1>0, <3>2 DEF Lock, ChooseBuffer, InRange, Full, Check, Notify, Test, ringVars
    <3>3. CASE Compare(owner)
      <4>1. 0 \in Ring /\ (~PastEnd => current_buffer_ + 1 \in Ring)
            BY <1>0 DEF Ring, PastEnd
      <4> QED  BY <1>0, <3>3, <4>1 DEF Compare, ringVars
    <3>4. CASE Sum(owner) \/ Store(owner)
      <4>1. 0 \in Ring  BY DEF Ring
      <4> QED  BY <1>0, <3>4, <4>1 DEF Sum, Store
    <3> QED  BY <3>1, <3>2, <3>3, <3>4
  <2> QED  BY <2>1, <2>2 DEF Types
<1> QED  BY <1>5, <1>7, <1>8 DEF FileInv

-------------------------------------------------------------------------------
(* Steps that move messages. *)

\* Write() appends a message to its buffer, which is not handed over.
LEMMA CallerAppends ==
    ASSUME SingleCaller, FileInv, AppendTo(owner)
    PROVE  FileInv'
<1> USE RingAssumption DEF SingleCaller, FileInv
<1> DEFINE c == current_buffer_
           m == written + 1
           longer == Append(buffers_[c], m)
<1>1. /\ c \in Ring /\ pc[owner] = "append" /\ index' = [index EXCEPT ![owner] = 0]
      /\ written' = m /\ buffers_' = [buffers_ EXCEPT ![c] = longer]
      /\ pc' = [pc EXCEPT ![owner] = "full"]
      /\ UNCHANGED <<current_buffer_, buffer_is_empty_, queue_buffers_, fileVars,
                     op, lockIdx, stop_thread_, dtor>>
      BY DEF AppendTo, Appended, Goto, Types, RingTypes, CallTypes
<1>2. /\ buffers_ \in [Ring -> Seq(1..MaxMessages)] /\ file \in Seq(1..MaxMessages)
      /\ written \in Nat /\ m \in 1..MaxMessages /\ m \in Nat
      BY <1>1 DEF Types, RingTypes, CallTypes, OtherTypes
<1>3. \A b \in Ring : /\ buffers_[b] \in Seq(Nat) /\ buffers_[b] \in Seq(1..MaxMessages)
                      /\ \A i \in 1..Len(buffers_[b]) : buffers_[b][i] < m
  <2> TAKE b \in Ring
  <2>1. buffers_[b] \in Seq(1..MaxMessages)  BY <1>2
  <2>2. buffers_[b] \in Seq(Nat)  BY <2>1
  <2>3. \A i \in 1..Len(buffers_[b]) : buffers_[b][i] \in Nat /\ buffers_[b][i] <= written
        BY <2>2 DEF UpToNow
  <2> QED  BY <1>2, <2>1, <2>2, <2>3
<1>4. file \in Seq(Nat) /\ \A i \in 1..Len(file) : file[i] < m
  <2>1. file \in Seq(Nat)  BY <1>2
  <2>2. \A i \in 1..Len(file) : file[i] \in Nat /\ file[i] <= written
        BY <2>1 DEF UpToNow
  <2> QED  BY <1>2, <2>1, <2>2
<1>5. /\ longer \in Seq(Nat) /\ longer \in Seq(1..MaxMessages)
      /\ Len(longer) = Len(buffers_[c]) + 1 /\ Len(buffers_[c]) \in Nat
      /\ longer[Len(buffers_[c]) + 1] = m
      /\ \A i \in 1..Len(buffers_[c]) : longer[i] = buffers_[c][i]
      /\ \A i \in 1..Len(longer) : longer[i] <= m
      /\ Increasing(longer)
  <2>1. buffers_[c] \in Seq(Nat) /\ \A i \in 1..Len(buffers_[c]) : buffers_[c][i] < m
        BY <1>1, <1>3
  <2>2. Increasing(buffers_[c])  BY <1>1 DEF InOrder
  <2>3. buffers_[c] \in Seq(1..MaxMessages)  BY <1>1, <1>3
  <2> HIDE DEF c, m
  <2>4. longer \in Seq(1..MaxMessages) /\ Len(buffers_[c]) \in Nat
        BY <1>2, <2>3, AppendProperties
  <2> QED  BY <1>2, <2>1, <2>2, <2>4, LatestAtEnd
<1> HIDE DEF longer, m
<1>6. /\ buffers_'[c] = longer
      /\ \A b \in Ring : b # c => buffers_'[b] = buffers_[b]
      BY <1>1, <1>2
<1>7. /\ HandedOver' = HandedOver /\ c \notin HandedOver
      /\ (InHand' <=> InHand) /\ UNCHANGED <<filePc, target, file>>
      BY <1>1 DEF HandedOver, InHand, MarkedRight, Seeking, fileVars
<1>8. \A i \in 1..Len(queue_buffers_) : queue_buffers_[i] \in HandedOver /\ queue_buffers_[i] \in Ring
      BY DEF HandedOver, Types, RingTypes
<1>9. InHand => target \in HandedOver  BY DEF HandedOver, InHand
<1>10. Types'
  <2>1. RingTypes'  BY <1>1, <1>2, <1>5 DEF Types, RingTypes
  <2>2. CallTypes'
    <3>1. 0 \in Ring  BY DEF Ring
    <3> QED  BY <1>1, <3>1 DEF Types, CallTypes, Labels, Holding
  <2>3. OtherTypes'  BY <1>1, <1>2 DEF Types, OtherTypes, fileVars
  <2> QED  BY <2>1, <2>2, <2>3 DEF Types
<1>11. HandedOnce' /\ MarkedRight'
  <2>1. HandedOnce'  BY <1>1, <1>7 DEF HandedOnce
  <2>2. pc'[owner] = "full"  BY <1>1 DEF Types, CallTypes
  <2>3. MarkedRight'  BY <1>1, <1>7, <2>2 DEF MarkedRight, Seeking
  <2> QED  BY <2>1, <2>3
<1>12. OthersEmpty'
  <2>1. pc'[owner] = "full"  BY <1>1 DEF Types, CallTypes
  <2> QED  BY <1>1, <1>6, <1>7, <2>1 DEF OthersEmpty, Seeking
<1>13. \A seq : (\A i \in 1..Len(seq) : seq[i] < m) => (Precede(seq, buffers_[c]) => Precede(seq, longer))
  <2> SUFFICES ASSUME NEW seq, \A i \in 1..Len(seq) : seq[i] < m, Precede(seq, buffers_[c]),
                      NEW i \in 1..Len(seq), NEW j \in 1..Len(longer)
               PROVE  seq[i] < longer[j]
      BY DEF Precede
  <2>1. j \in 1..Len(buffers_[c]) \/ j = Len(buffers_[c]) + 1  BY <1>5
  <2> QED  BY <1>5, <2>1 DEF Precede
<1>14. InOrder'
  <2>1. \A b \in Ring : Increasing(buffers_[b]')  BY <1>5, <1>6 DEF InOrder
  <2>2. ASSUME NEW b \in Ring, ~(filePc = "clear" /\ b = target)
        PROVE  Precede(file, buffers_'[b])
        BY <1>4, <1>6, <1>13, <2>2 DEF InOrder
  <2>3. \A b \in HandedOver : b \in Ring /\ buffers_'[b] = buffers_[b]
    <3>1. HandedOver \subseteq Ring  BY <1>8 DEF HandedOver, Types, OtherTypes
    <3> QED  BY <1>6, <1>7, <3>1
  <2>4. \A b \in HandedOver : Precede(buffers_[b], longer)
        BY <1>3, <1>7, <1>13, <2>3 DEF InOrder
  <2> QED  BY <1>1, <1>6, <1>7, <1>8, <1>9, <2>1, <2>2, <2>3, <2>4 DEF InOrder
<1>15. UpToNow'
      BY <1>1, <1>2, <1>3, <1>4, <1>5, <1>6, <1>7 DEF UpToNow, m
<1>16. Saved'
      BY <1>1, <1>6, <1>7, <1>9 DEF Saved, InFile, InHand, Types, OtherTypes
<1>17. NothingLost'
  <2> SUFFICES ASSUME NEW k \in 1..m PROVE InFile(k)' \/ InBuffer(k)'
      BY <1>1 DEF NothingLost
  <2>1. CASE k = m
    <3>1. Len(buffers_[c]) + 1 \in 1..Len(buffers_'[c])  BY <1>5, <1>6
    <3> QED  BY <1>1, <1>5, <1>6, <2>1, <3>1 DEF InBuffer
  <2>2. CASE k # m
    <3>1. k \in 1..written  BY <1>2, <2>2 DEF m
    <3>2. CASE InFile(k)  BY <1>7, <3>2 DEF InFile
    <3>3. CASE InBuffer(k)
      <4>1. PICK b \in Ring : \E i \in 1..Len(buffers_[b]) : buffers_[b][i] = k
            BY <3>3 DEF InBuffer
      <4>2. \E i \in 1..Len(buffers_'[b]) : buffers_'[b][i] = k
        <5>1. CASE b = c
          <6>1. PICK i \in 1..Len(buffers_[c]) : buffers_[c][i] = k  BY <4>1, <5>1
          <6>2. i \in 1..Len(longer) /\ longer[i] = k  BY <1>5, <6>1
          <6> QED  BY <1>6, <5>1, <6>2
        <5>2. CASE b # c  BY <1>6, <4>1, <5>2
        <5> QED  BY <5>1, <5>2
      <4> QED  BY <4>2 DEF InBuffer
    <3> QED  BY <3>1, <3>2, <3>3 DEF NothingLost
  <2> QED  BY <2>1, <2>2
<1> QED  BY <1>10, <1>11, <1>12, <1>14, <1>15, <1>16, <1>17

\* The caller hands its buffer over: it becomes the last of the queue.
LEMMA CallerQueues ==
    ASSUME SingleCaller, FileInv, Queue(owner)
    PROVE  FileInv'
<1> USE RingAssumption DEF SingleCaller, FileInv
<1> DEFINE c == current_buffer_
           n == Len(queue_buffers_)
<1>1. /\ c \in Ring /\ pc[owner] = "queue" /\ queue_buffers_' = Append(queue_buffers_, c)
      /\ pc' = [pc EXCEPT ![owner] = "mark"] /\ pc'[owner] = "mark"
      /\ UNCHANGED <<current_buffer_, buffers_, buffer_is_empty_, fileVars, op,
                     lockIdx, index, stop_thread_, written, dtor>>
      BY DEF Queue, InRange, Queued, Goto, Types, CallTypes
<1>2. /\ queue_buffers_ \in Seq(Ring) /\ n \in Nat /\ queue_buffers_' \in Seq(Ring)
      /\ Len(queue_buffers_') = n + 1 /\ queue_buffers_'[n + 1] = c
      /\ \A i \in 1..n : queue_buffers_'[i] = queue_buffers_[i]
  <2>1. queue_buffers_ \in Seq(Ring)  BY DEF Types, RingTypes
  <2> QED  BY <1>1, <2>1, AppendProperties, LenProperties
<1>3. \A i \in 1..Len(queue_buffers_') : i \in 1..n \/ i = n + 1  BY <1>2
<1>4. /\ (InHand' <=> InHand) /\ UNCHANGED <<filePc, target, file>>
      /\ c \notin HandedOver /\ (InHand => target \in HandedOver)
      /\ \A i \in 1..n : queue_buffers_[i] \in HandedOver
      BY <1>1 DEF InHand, MarkedRight, Seeking, fileVars, HandedOver
<1>5. HandedOver' = HandedOver \cup {c}
  <2>1. {queue_buffers_'[i] : i \in 1..Len(queue_buffers_')}
            = {queue_buffers_[i] : i \in 1..n} \cup {c}
    <3>1. \A x : (\E i \in 1..Len(queue_buffers_') : x = queue_buffers_'[i])
                     <=> (\E i \in 1..n : x = queue_buffers_[i]) \/ x = c
      <4>1. \A i \in 1..n : i \in 1..Len(queue_buffers_')  BY <1>2
      <4>2. n + 1 \in 1..Len(queue_buffers_')  BY <1>2
      <4> QED  BY <1>2, <1>3, <4>1, <4>2
    <3> QED  BY <3>1
  <2> QED  BY <1>4, <2>1 DEF HandedOver
<1> HIDE DEF c, n
<1>6. Types'
  <2>1. RingTypes'  BY <1>1, <1>2 DEF Types, RingTypes
  <2>2. CallTypes'  BY <1>1 DEF Types, CallTypes, Labels, Holding
  <2>3. OtherTypes'  BY <1>1 DEF Types, OtherTypes, fileVars
  <2> QED  BY <2>1, <2>2, <2>3 DEF Types
<1>7. HandedOnce'
  <2>1. \A i, j \in 1..Len(queue_buffers_') : queue_buffers_'[i] = queue_buffers_'[j] => i = j
        BY <1>2, <1>3, <1>4 DEF HandedOnce, n
  <2>2. InHand => \A i \in 1..Len(queue_buffers_') : queue_buffers_'[i] # target
        BY <1>2, <1>3, <1>4 DEF HandedOnce, n
  <2> QED  BY <1>4, <2>1, <2>2 DEF HandedOnce
<1>8. MarkedRight'
  <2>1. buffer_is_empty_[c]  BY <1>1, <1>4 DEF MarkedRight, c
  <2>2. \A b \in Ring : b # c => (buffer_is_empty_[b] <=> b \notin HandedOver)
        BY <1>1 DEF MarkedRight
  <2> QED  BY <1>1, <1>4, <1>5, <2>1, <2>2 DEF MarkedRight, Seeking, c
<1>9. OthersEmpty'
      BY <1>1, <1>5 DEF OthersEmpty, c
<1>10. InOrder'
  <2>1. \A b \in HandedOver : Precede(buffers_[b], buffers_[c])  BY <1>4 DEF InOrder, c
  <2>2. ASSUME NEW i \in 1..Len(queue_buffers_'), NEW j \in 1..Len(queue_buffers_'), i < j
        PROVE  Precede(buffers_[queue_buffers_'[i]], buffers_[queue_buffers_'[j]])
    <3>1. i \in 1..n  BY <1>2, <1>3, <2>2
    <3>2. CASE j \in 1..n  BY <1>2, <2>2, <3>1, <3>2 DEF InOrder, n
    <3>3. CASE j = n + 1  BY <1>2, <1>4, <2>1, <3>1, <3>3
    <3> QED  BY <1>3, <3>2, <3>3
  <2>3. InHand => \A i \in 1..Len(queue_buffers_') :
                     Precede(buffers_[target], buffers_[queue_buffers_'[i]])
        BY <1>2, <1>3, <1>4, <2>1 DEF InOrder, n
  <2>4. c \in HandedOver'  BY <1>5
  <2> QED  BY <1>1, <1>4, <2>2, <2>3, <2>4 DEF InOrder, c
<1>11. UpToNow' /\ Saved' /\ NothingLost'
      BY <1>1, <1>4 DEF UpToNow, Saved, InFile, NothingLost, InBuffer
<1> QED  BY <1>6, <1>7, <1>8, <1>9, <1>10, <1>11

\* The caller marks the buffer that it has handed over.
LEMMA CallerMarks ==
    ASSUME SingleCaller, FileInv, Mark(owner)
    PROVE  FileInv'
<1> USE RingAssumption DEF SingleCaller
<1>1. /\ pc[owner] = "mark" /\ pc'[owner] = "test"
      /\ pc' = [pc EXCEPT ![owner] = "test"]
      /\ buffer_is_empty_' = [buffer_is_empty_ EXCEPT ![current_buffer_] = FALSE]
      /\ UNCHANGED <<current_buffer_, buffers_, queue_buffers_, fileVars, op, lockIdx,
                     index, stop_thread_, written, dtor>>
      BY DEF Mark, MarkedPending, Goto, FileInv, Types, CallTypes
<1>2. Types  BY DEF FileInv
<1>3. /\ HandedOver' = HandedOver
      /\ HandedOnce' /\ OthersEmpty' /\ InOrder' /\ UpToNow' /\ Saved' /\ NothingLost'
  <2>1. UNCHANGED Contents /\ (InHand' <=> InHand) /\ UNCHANGED filePc
        BY <1>1 DEF Contents, InHand, fileVars
  <2>2. current_buffer_' \in Ring  BY <1>1, <1>2 DEF Types, RingTypes
  <2> QED  BY <1>1, <2>1, <2>2, ContentsKept
<1>4. MarkedRight'
  <2>1. current_buffer_ \in HandedOver  BY <1>1 DEF FileInv, MarkedRight
  <2>2. ASSUME NEW b \in Ring
        PROVE  buffer_is_empty_'[b] <=> b \notin HandedOver
    <3>1. CASE b = current_buffer_  BY <1>1, <1>2, <2>1, <3>1 DEF Types, RingTypes
    <3>2. CASE b # current_buffer_
      <4>1. buffer_is_empty_'[b] <=> buffer_is_empty_[b]
            BY <1>1, <1>2, <3>2 DEF Types, RingTypes
      <4> QED  BY <3>2, <4>1 DEF FileInv, MarkedRight
    <3> QED  BY <3>1, <3>2
  <2> QED  BY <1>1, <1>3, <2>2 DEF MarkedRight, Seeking
<1>5. Types'
  <2>1. RingTypes'  BY <1>1, <1>2 DEF Types, RingTypes
  <2>2. CallTypes'  BY <1>1, <1>2 DEF Types, CallTypes, Labels, Holding, Spinning
  <2>3. OtherTypes'  BY <1>1, <1>2 DEF Types, OtherTypes, fileVars
  <2> QED  BY <2>1, <2>2, <2>3 DEF Types
<1> QED  BY <1>3, <1>4, <1>5 DEF FileInv

\* The file thread takes the first buffer of the queue: it is still handed over.
LEMMA FileTakes ==
    ASSUME SingleCaller, FileInv, FileWait, PopNext
    PROVE  FileInv'
<1> USE RingAssumption DEF SingleCaller, FileInv
<1> DEFINE rest == Tail(queue_buffers_)
<1>1. /\ filePc = "wait" /\ filePc' = "write" /\ queue_buffers_ # <<>>
      /\ target' = Head(queue_buffers_) /\ queue_buffers_' = rest
      /\ UNCHANGED <<current_buffer_, buffers_, buffer_is_empty_, callVars, file,
                     stop_thread_, written, dtor>>
      /\ pc[owner] # "mark" /\ UNCHANGED <<pc, op, lockIdx, index>>
      BY DEF FileWait, PopNext, QueueLocked, callVars
<1>2. /\ Head(queue_buffers_) = queue_buffers_[1] /\ 1 \in 1..Len(queue_buffers_)
      /\ Head(queue_buffers_) \in Ring /\ rest \in Seq(Ring)
      /\ Len(rest) \in Nat /\ Len(queue_buffers_) \in Nat
      /\ \A i \in 1..Len(rest) : i + 1 \in 1..Len(queue_buffers_) /\ rest[i] = queue_buffers_[i + 1]
      /\ \A i \in 1..Len(queue_buffers_) : i = 1 \/ i - 1 \in 1..Len(rest)
  <2>1. queue_buffers_ \in Seq(Ring)  BY DEF Types, RingTypes
  <2> HIDE DEF FileInv
  <2>2. rest \in Seq(Ring)  BY <1>1, <2>1, TailAt
  <2>3. Len(rest) \in Nat /\ Len(queue_buffers_) \in Nat  BY <2>1, <2>2, LenProperties
  <2> QED  BY <1>1, <2>1, <2>2, <2>3, TailAt
<1> HIDE DEF rest
<1>3. ~InHand /\ InHand'  BY <1>1 DEF InHand
<1>4. HandedOver' = HandedOver
  <2>1. HandedOver = {queue_buffers_[i] : i \in 1..Len(queue_buffers_)}
        BY <1>1 DEF HandedOver
  <2>2. HandedOver' = {rest[i] : i \in 1..Len(rest)} \cup {queue_buffers_[1]}
        BY <1>1, <1>2 DEF HandedOver
  <2>3. ASSUME NEW i \in 1..Len(queue_buffers_) PROVE queue_buffers_[i] \in HandedOver'
    <3>1. CASE i = 1  BY <2>2, <3>1
    <3>2. CASE i - 1 \in 1..Len(rest)
      <4>1. rest[i - 1] = queue_buffers_[(i - 1) + 1] /\ (i - 1) + 1 = i  BY <1>2, <3>2
      <4> QED  BY <2>2, <3>2, <4>1
    <3> QED  BY <1>2, <3>1, <3>2
  <2>4. ASSUME NEW i \in 1..Len(rest) PROVE rest[i] \in HandedOver
        BY <1>2, <2>1
  <2>5. queue_buffers_[1] \in HandedOver  BY <1>2, <2>1
  <2>6. HandedOver' \subseteq HandedOver
    <3> HIDE DEF HandedOver
    <3> QED  BY <2>2, <2>4, <2>5
  <2>7. HandedOver \subseteq HandedOver'
    <3> HIDE DEF HandedOver
    <3> QED  BY <2>1, <2>3
  <2> QED  BY <2>6, <2>7
<1>5. Types'
  <2>1. RingTypes'  BY <1>1, <1>2 DEF Types, RingTypes
  <2>2. CallTypes'  BY <1>1 DEF Types, CallTypes
  <2>3. OtherTypes'  BY <1>1, <1>2 DEF Types, OtherTypes
  <2> QED  BY <2>1, <2>2, <2>3 DEF Types
<1>6. HandedOnce'
  <2>1. \A i \in 1..Len(rest), j \in 1..Len(rest) : rest[i] = rest[j] => i = j
    <3> TAKE i \in 1..Len(rest), j \in 1..Len(rest)
    <3> HAVE rest[i] = rest[j]
    <3>1. queue_buffers_[i + 1] = queue_buffers_[j + 1]  BY <1>2
    <3>2. i + 1 = j + 1  BY <1>2, <3>1 DEF HandedOnce
    <3> QED  BY <3>2
  <2>2. \A i \in 1..Len(rest) : rest[i] # queue_buffers_[1]
    <3> TAKE i \in 1..Len(rest)
    <3>1. i + 1 # 1 /\ i + 1 \in 1..Len(queue_buffers_)  BY <1>2
    <3> QED  BY <1>2, <3>1 DEF HandedOnce
  <2> QED  BY <1>1, <1>2, <2>1, <2>2 DEF HandedOnce
<1>7. MarkedRight'  BY <1>1, <1>4 DEF MarkedRight, Seeking
<1>8. OthersEmpty'  BY <1>1, <1>4 DEF OthersEmpty, Seeking
<1>9. InOrder'
  <2>1. ASSUME NEW i \in 1..Len(rest), NEW j \in 1..Len(rest), i < j
        PROVE  Precede(buffers_[rest[i]], buffers_[rest[j]])
    <3>1. i + 1 \in 1..Len(queue_buffers_) /\ j + 1 \in 1..Len(queue_buffers_) /\ i + 1 < j + 1
          BY <1>2, <2>1
    <3>2. Precede(buffers_[queue_buffers_[i + 1]], buffers_[queue_buffers_[j + 1]])
          BY <3>1 DEF InOrder
    <3> QED  BY <1>2, <3>2
  <2>2. ASSUME NEW i \in 1..Len(rest)
        PROVE  Precede(buffers_[queue_buffers_[1]], buffers_[rest[i]])
    <3>1. i + 1 \in 1..Len(queue_buffers_) /\ 1 < i + 1  BY <1>2
    <3>2. Precede(buffers_[queue_buffers_[1]], buffers_[queue_buffers_[i + 1]])
          BY <1>2, <3>1 DEF InOrder
    <3> QED  BY <1>2, <3>2
  <2> QED  BY <1>1, <1>2, <1>4, <2>1, <2>2 DEF InOrder
<1>10. UpToNow' /\ Saved' /\ NothingLost'
      BY <1>1 DEF UpToNow, Saved, InFile, NothingLost, InBuffer
<1> QED  BY <1>5, <1>6, <1>7, <1>8, <1>9, <1>10

\* The file thread writes the buffer in hand: what it holds comes after what is
\* in the file and before what is in every other buffer.
LEMMA FileWrites ==
    ASSUME SingleCaller, FileInv, FileWrite
    PROVE  FileInv'
<1> USE RingAssumption DEF SingleCaller, FileInv
<1> DEFINE taken == buffers_[target]
           longer == file \o taken
<1>1. /\ filePc = "write" /\ filePc' = "clear" /\ file' = longer
      /\ UNCHANGED <<current_buffer_, buffers_, buffer_is_empty_, queue_buffers_,
                     pc, op, lockIdx, index, target, stop_thread_, written, dtor>>
      BY DEF FileWrite, FileWithTarget, ringVars, callVars
<1>2. /\ file \in Seq(1..MaxMessages) /\ taken \in Seq(1..MaxMessages) /\ target \in Ring
      /\ file \in Seq(Nat) /\ taken \in Seq(Nat)
  <2>1. file \in Seq(1..MaxMessages) /\ target \in Ring
        /\ buffers_ \in [Ring -> Seq(1..MaxMessages)]
        BY DEF Types, RingTypes, OtherTypes
  <2>2. taken \in Seq(1..MaxMessages)  BY <2>1
  <2> HIDE DEF taken, FileInv
  <2>3. file \in Seq(Nat) /\ taken \in Seq(Nat)  BY <2>1, <2>2
  <2> QED  BY <2>1, <2>2, <2>3
<1>3. /\ longer \in Seq(1..MaxMessages)
      /\ \A i \in 1..Len(file) : i \in 1..Len(longer) /\ longer[i] = file[i]
      /\ \A i \in 1..Len(taken) : Len(file) + i \in 1..Len(longer) /\ longer[Len(file) + i] = taken[i]
      /\ \A i \in 1..Len(longer) : i \in 1..Len(file)
             \/ (i - Len(file) \in 1..Len(taken) /\ i = Len(file) + (i - Len(file)))
  <2> HIDE DEF taken, FileInv
  <2> QED  BY <1>2, ConcatAt
<1>4. Increasing(longer)
  <2>1. Increasing(file) /\ Increasing(taken) /\ Precede(file, taken)
        BY <1>1, <1>2 DEF InOrder
  <2> HIDE DEF taken, FileInv
  <2> QED  BY <1>2, <2>1, ConcatIncreases
<1> HIDE DEF longer
<1>5. HandedOver' = HandedOver /\ InHand /\ InHand' /\ target \in HandedOver
      BY <1>1 DEF HandedOver, InHand
<1>6. \A i \in 1..Len(longer) : (\E j \in 1..Len(file) : longer[i] = file[j])
                                 \/ (\E j \in 1..Len(taken) : longer[i] = taken[j])
      BY <1>3
<1>7. Types'
  <2>1. RingTypes'  BY <1>1 DEF Types, RingTypes
  <2>2. CallTypes'  BY <1>1 DEF Types, CallTypes
  <2>3. OtherTypes'  BY <1>1, <1>3 DEF Types, OtherTypes
  <2> QED  BY <2>1, <2>2, <2>3 DEF Types
<1>8. HandedOnce' /\ MarkedRight' /\ OthersEmpty'
      BY <1>1, <1>5 DEF HandedOnce, MarkedRight, OthersEmpty, Seeking
<1>9. ASSUME NEW b \in Ring, b # target
      PROVE  Precede(taken, buffers_[b])
  <2>1. CASE b \in HandedOver
    <3>1. PICK i \in 1..Len(queue_buffers_) : b = queue_buffers_[i]
          BY <1>5, <1>9, <2>1 DEF HandedOver
    <3> QED  BY <1>5, <3>1 DEF InOrder
  <2>2. CASE b \notin HandedOver /\ b = current_buffer_  BY <1>5, <2>2 DEF InOrder
  <2>3. CASE b \notin HandedOver /\ b # current_buffer_
    <3>1. buffers_[b] = <<>>  BY <2>3 DEF OthersEmpty
    <3> QED  BY <3>1, EmptyOrder
  <2> QED  BY <2>1, <2>2, <2>3
<1>10. InOrder'
  <2>1. ASSUME NEW b \in Ring, b # target
        PROVE  Precede(longer, buffers_[b])
    <3>1. Precede(file, buffers_[b]) /\ Precede(taken, buffers_[b])
          BY <1>1, <1>9, <2>1 DEF InOrder
    <3> HIDE DEF taken
    <3> QED  BY <1>6, <3>1 DEF Precede
  <2> QED  BY <1>1, <1>4, <1>5, <2>1 DEF InOrder
<1>11. UpToNow'
  <2>1. \A j \in 1..Len(taken) : taken[j] <= written  BY <1>2 DEF UpToNow
  <2>2. \A j \in 1..Len(file) : file[j] <= written  BY DEF UpToNow
  <2>3. \A i \in 1..Len(longer) : longer[i] <= written
    <3> HIDE DEF taken, FileInv
    <3> QED  BY <1>6, <2>1, <2>2
  <2> QED  BY <1>1, <2>3 DEF UpToNow
<1>12. Saved'
  <2>1. \A j \in 1..Len(taken) : \E i \in 1..Len(longer) : longer[i] = taken[j]
        BY <1>3
  <2> QED  BY <1>1, <2>1 DEF Saved, InFile
<1>13. NothingLost'
  <2>1. \A m : InFile(m) => InFile(m)'  BY <1>1, <1>3 DEF InFile
  <2>2. \A m : InBuffer(m) => InBuffer(m)'  BY <1>1 DEF InBuffer
  <2> QED  BY <1>1, <2>1, <2>2 DEF NothingLost
<1> QED  BY <1>7, <1>8, <1>10, <1>11, <1>12, <1>13

\* The file thread empties the buffer that it has written: it is no longer
\* handed over, and nothing of it is needed.
LEMMA FileClears ==
    ASSUME SingleCaller, FileInv, FileClear
    PROVE  FileInv'
<1> USE RingAssumption DEF SingleCaller, FileInv
<1>1. /\ filePc = "clear" /\ filePc' = "wait"
      /\ buffers_' = [buffers_ EXCEPT ![target] = <<>>]
      /\ buffer_is_empty_' = [buffer_is_empty_ EXCEPT ![target] = TRUE]
      /\ UNCHANGED <<current_buffer_, queue_buffers_, pc, op, lockIdx, index, target,
                     file, stop_thread_, written, dtor>>
      BY DEF FileClear, Cleared, callVars
<1>2. /\ buffers_ \in [Ring -> Seq(1..MaxMessages)] /\ target \in Ring
      /\ buffer_is_empty_ \in [Ring -> BOOLEAN] /\ queue_buffers_ \in Seq(Ring)
      BY DEF Types, RingTypes, OtherTypes
<1>3. /\ buffers_'[target] = <<>> /\ buffer_is_empty_'[target]
      /\ \A b \in Ring : b # target => /\ buffers_'[b] = buffers_[b]
                                       /\ buffer_is_empty_'[b] <=> buffer_is_empty_[b]
      BY <1>1, <1>2
<1>4. InHand /\ ~InHand' /\ HandedOver' = HandedOver \ {target} /\ target \in HandedOver
  <2>1. InHand /\ ~InHand'  BY <1>1 DEF InHand
  <2>2. \A i \in 1..Len(queue_buffers_) : queue_buffers_[i] # target  BY <2>1 DEF HandedOnce
  <2> QED  BY <1>1, <2>1, <2>2 DEF HandedOver
<1>5. \A i \in 1..Len(queue_buffers_) : queue_buffers_[i] \in Ring /\ queue_buffers_[i] # target
      BY <1>2, <1>4 DEF HandedOnce
<1>6. Types'
  <2>1. RingTypes'
    <3>1. <<>> \in Seq(1..MaxMessages)  OBVIOUS
    <3> QED  BY <1>1, <1>2, <3>1 DEF Types, RingTypes
  <2>2. CallTypes'  BY <1>1 DEF Types, CallTypes
  <2>3. OtherTypes'  BY <1>1 DEF Types, OtherTypes
  <2> QED  BY <2>1, <2>2, <2>3 DEF Types
<1>7. HandedOnce'  BY <1>1, <1>4 DEF HandedOnce
<1>8. MarkedRight'
  <2>1. pc[owner] = "mark" => current_buffer_ # target  BY <1>4 DEF MarkedRight
  <2>2. pc[owner] = "mark" => buffer_is_empty_'[current_buffer_] /\ current_buffer_ \in HandedOver'
        BY <1>2, <1>3, <1>4, <2>1 DEF MarkedRight, Types, RingTypes
  <2>3. ASSUME NEW b \in Ring, ~(pc[owner] = "mark" /\ b = current_buffer_)
        PROVE  buffer_is_empty_'[b] <=> b \notin HandedOver'
    <3>1. CASE b = target  BY <1>3, <1>4, <3>1
    <3>2. CASE b # target
      <4>1. buffer_is_empty_[b] <=> b \notin HandedOver  BY <2>3 DEF MarkedRight
      <4> QED  BY <1>3, <1>4, <3>2, <4>1
    <3> QED  BY <3>1, <3>2
  <2>4. ~Seeking /\ pc[owner] # "mark" => current_buffer_ \notin HandedOver
        BY DEF MarkedRight
  <2> QED  BY <1>1, <1>4, <2>2, <2>3, <2>4 DEF MarkedRight, Seeking
<1>9. OthersEmpty'
  <2> SUFFICES ASSUME NEW b \in Ring, b \notin HandedOver',
                      b # current_buffer_ \/ Seeking \/ pc[owner] = "notify"
               PROVE  buffers_'[b] = <<>>
      BY <1>1 DEF OthersEmpty, Seeking
  <2>1. CASE b = target  BY <1>3, <2>1
  <2>2. CASE b # target
    <3>1. buffers_[b] = <<>>  BY <1>4, <2>2 DEF OthersEmpty
    <3> QED  BY <1>3, <2>2, <3>1
  <2> QED  BY <2>1, <2>2
<1>10. InOrder'
  <2>1. ASSUME NEW b \in Ring
        PROVE  Increasing(buffers_'[b]) /\ Precede(file, buffers_'[b])
    <3>1. CASE b = target  BY <1>3, <3>1, EmptyOrder
    <3>2. CASE b # target  BY <1>3, <3>2 DEF InOrder
    <3> QED  BY <3>1, <3>2
  <2>2. \A i, j \in 1..Len(queue_buffers_) :
           i < j => Precede(buffers_'[queue_buffers_[i]], buffers_'[queue_buffers_[j]])
        BY <1>3, <1>5 DEF InOrder
  <2>3. ASSUME current_buffer_ \notin HandedOver', NEW b \in HandedOver'
        PROVE  Precede(buffers_'[b], buffers_'[current_buffer_])
    <3>0. current_buffer_ \in Ring /\ b \in Ring /\ b # target /\ b \in HandedOver
      <4>1. b # target /\ b \in HandedOver  BY <1>4, <2>3
      <4>2. b \in Ring  BY <1>2, <1>5, <4>1 DEF HandedOver
      <4>3. current_buffer_ \in Ring  BY DEF Types, RingTypes
      <4> QED  BY <4>1, <4>2, <4>3
    <3>1. CASE current_buffer_ = target  BY <1>3, <3>1, EmptyOrder
    <3>2. CASE current_buffer_ # target
      <4>1. current_buffer_ \notin HandedOver  BY <1>4, <2>3, <3>2
      <4> QED  BY <1>3, <3>0, <3>2, <4>1 DEF InOrder
    <3> QED  BY <3>1, <3>2
  <2>4. Increasing(file)  BY DEF InOrder
  <2> QED  BY <1>1, <1>4, <2>1, <2>2, <2>3, <2>4 DEF InOrder
<1>11. UpToNow'
  <2>1. ASSUME NEW b \in Ring, NEW i \in 1..Len(buffers_'[b])
        PROVE  buffers_'[b][i] <= written
    <3>1. CASE b = target  BY <1>3, <2>1, <3>1, NothingIn
    <3>2. CASE b # target  BY <1>3, <2>1, <3>2 DEF UpToNow
    <3> QED  BY <3>1, <3>2
  <2> QED  BY <1>1, <2>1 DEF UpToNow
<1>12. Saved'  BY <1>1 DEF Saved
<1>13. NothingLost'
  <2> SUFFICES ASSUME NEW m \in 1..written PROVE InFile(m)' \/ InBuffer(m)'
      BY <1>1 DEF NothingLost
  <2>1. CASE InFile(m)  BY <1>1, <2>1 DEF InFile
  <2>2. CASE InBuffer(m)
    <3>1. PICK b \in Ring : \E i \in 1..Len(buffers_[b]) : buffers_[b][i] = m
          BY <2>2 DEF InBuffer
    <3>2. CASE b = target
      <4>1. InFile(m)  BY <1>1, <3>1, <3>2 DEF Saved
      <4> QED  BY <1>1, <4>1 DEF InFile
    <3>3. CASE b # target
      <4>1. buffers_'[b] = buffers_[b]  BY <1>3, <3>3
      <4>2. \E i \in 1..Len(buffers_'[b]) : buffers_'[b][i] = m  BY <3>1, <4>1
      <4> QED  BY <4>2 DEF InBuffer
    <3> QED  BY <3>2, <3>3
  <2> QED  BY <2>1, <2>2 DEF NothingLost
<1> QED  BY <1>6, <1>7, <1>8, <1>9, <1>10, <1>11, <1>12, <1>13

-------------------------------------------------------------------------------
(* Steps of the file thread and of the destructor that move no message. *)

\* The file thread finds nothing, sleeps and wakes; the destructor stops it,
\* notifies it and joins it.
LEMMA FileRests ==
    ASSUME SingleCaller, FileInv,
           \/ FileWait /\ NothingQueued
           \/ FileBlock \/ Spurious
           \/ DestroyStop \/ DestroyNotify \/ DestroyJoin
    PROVE  FileInv' /\ UNCHANGED buffers_
<1> USE RingAssumption DEF SingleCaller
<1>1. /\ UNCHANGED ringVars /\ UNCHANGED <<pc, op, lockIdx, index, target, file, written>>
      /\ stop_thread_' \in {TRUE, stop_thread_}
      /\ filePc' = filePc \/ {filePc, filePc'} \subseteq {"wait", "blocking", "asleep", "exited"}
      /\ dtor' \in {"no", "stopped", "flushing", "joining", "done"} \/ dtor' = dtor
      BY DEF FileWait, NothingQueued, FileBlock, Spurious, DestroyStop, DestroyNotify,
             Woken, DestroyJoin, ringVars, callVars, fileVars
<1>2. Types  BY DEF FileInv
<1>3. filePc' \in {"wait", "blocking", "asleep", "write", "clear", "exited"}
  <2>1. filePc \in {"wait", "blocking", "asleep", "write", "clear", "exited"}
        BY <1>2 DEF Types, OtherTypes
  <2> QED  BY <1>1, <2>1
<1>4. (InHand' <=> InHand) /\ (filePc' = "clear" <=> filePc = "clear")
      BY <1>1 DEF InHand
<1>5. Types'
  <2>1. RingTypes'  BY <1>1, <1>2 DEF Types, RingTypes, ringVars
  <2>2. CallTypes'  BY <1>1, <1>2 DEF Types, CallTypes, ringVars
  <2>3. OtherTypes'  BY <1>1, <1>2, <1>3 DEF Types, OtherTypes
  <2> QED  BY <2>1, <2>2, <2>3 DEF Types
<1>6. /\ HandedOver' = HandedOver
      /\ HandedOnce' /\ OthersEmpty' /\ InOrder' /\ UpToNow' /\ Saved' /\ NothingLost'
  <2>1. UNCHANGED Contents /\ current_buffer_' = current_buffer_
        BY <1>1 DEF Contents, ringVars
  <2>2. current_buffer_' \in Ring  BY <1>2, <2>1 DEF Types, RingTypes
  <2>3. Seeking' \/ pc'[owner] = "notify" => Seeking \/ pc[owner] = "notify" \/ pc[owner] = "mark"
        BY <1>1 DEF Seeking
  <2> QED  BY <1>4, <2>1, <2>2, <2>3, ContentsKept
<1>7. MarkedRight'
      BY <1>1, <1>4, <1>6 DEF FileInv, MarkedRight, Seeking, ringVars
<1> QED  BY <1>1, <1>5, <1>6, <1>7 DEF FileInv, ringVars

\* Every step keeps the invariant, and a buffer handed over gets no message.
LEMMA FileSteps ==
    ASSUME SingleCaller, FileInv, [Next]_vars
    PROVE  /\ FileInv'
           /\ \A b \in HandedOver : Len(buffers_'[b]) <= Len(buffers_[b])
<1>0. HandedOver \subseteq Ring /\ \A b \in Ring : Len(buffers_[b]) \in Nat
  <2>1. /\ queue_buffers_ \in Seq(Ring) /\ target \in Ring
        /\ buffers_ \in [Ring -> Seq(1..MaxMessages)]
        BY DEF FileInv, Types, RingTypes, OtherTypes
  <2> QED  BY <2>1 DEF HandedOver
<1>q. ASSUME UNCHANGED buffers_
      PROVE  \A b \in HandedOver : Len(buffers_'[b]) <= Len(buffers_[b])
      BY <1>0, <1>q
<1>1. CASE \/ Call(owner) \/ DestroyFlush
           \/ Lock(owner) \/ ChooseBuffer(owner) \/ Full(owner) \/ Check(owner) \/ Notify(owner)
           \/ Test(owner) \/ Compare(owner) \/ Sum(owner) \/ Store(owner)
  <2>1. UNCHANGED buffers_
        BY <1>1 DEF Call, DestroyFlush, Begin, Lock, ChooseBuffer, Full, Check, Notify, Test, Compare,
                    Sum, Store, ringVars
  <2> QED  BY <1>1, <1>q, <2>1, CallerMoves
<1>2. CASE AppendTo(owner)
  <2>1. current_buffer_ \notin HandedOver
        BY <1>2 DEF AppendTo, FileInv, MarkedRight, Seeking
  <2>2. \A b \in HandedOver : buffers_'[b] = buffers_[b]
        BY <1>0, <1>2, <2>1 DEF AppendTo, Appended, FileInv, Types, RingTypes, CallTypes
  <2> QED  BY <1>0, <1>2, <2>2, CallerAppends
<1>3. CASE Queue(owner)
  <2>1. UNCHANGED buffers_  BY <1>3 DEF Queue
  <2> QED  BY <1>3, <1>q, <2>1, CallerQueues
<1>4. CASE Mark(owner)
  <2>1. UNCHANGED buffers_  BY <1>4 DEF Mark
  <2> QED  BY <1>4, <1>q, <2>1, CallerMarks
<1>5. CASE FileWait /\ PopNext
  <2>1. UNCHANGED buffers_  BY <1>5 DEF FileWait
  <2> QED  BY <1>5, <1>q, <2>1, FileTakes
<1>6. CASE FileWrite
  <2>1. UNCHANGED buffers_  BY <1>6 DEF FileWrite, ringVars
  <2> QED  BY <1>6, <1>q, <2>1, FileWrites
<1>7. CASE FileClear
  <2>1. \A b \in Ring : buffers_'[b] = IF b = target THEN <<>> ELSE buffers_[b]
        BY <1>7 DEF FileClear, Cleared, FileInv, Types, RingTypes
  <2>2. \A b \in Ring : Len(buffers_'[b]) <= Len(buffers_[b])
        BY <1>0, <2>1, NothingIn
  <2> QED  BY <1>0, <1>7, <2>2, FileClears
<1>8. CASE \/ FileWait /\ NothingQueued
           \/ FileBlock \/ Spurious
           \/ DestroyStop \/ DestroyNotify \/ DestroyJoin
      BY <1>8, <1>q, FileRests
<1>9. CASE UNCHANGED vars
  <2>1. /\ UNCHANGED ringVars /\ UNCHANGED callVars /\ UNCHANGED fileVars
        /\ UNCHANGED <<stop_thread_, written, dtor>> /\ UNCHANGED buffers_
        BY <1>9 DEF vars, ringVars
  <2>2. FileInv'
        BY <2>1
        DEF ringVars, callVars, fileVars, FileInv, Types, RingTypes, CallTypes, OtherTypes,
            HandedOnce, MarkedRight, OthersEmpty, InOrder, UpToNow, Saved, NothingLost,
            HandedOver, InHand, Seeking, InFile, InBuffer
  <2> QED  BY <1>q, <2>1, <2>2
<1> QED  BY <1>1, <1>2, <1>3, <1>4, <1>5, <1>6, <1>7, <1>8, <1>9
         DEF Next, CallStep, FileStep, FileWait, DestroyStep, SingleCaller

\* With one caller the invariant holds throughout.
LEMMA FileInvariant ==
    ASSUME SingleCaller PROVE Spec => []FileInv
<1>1. Init => FileInv  BY FileStarts
<1>2. FileInv /\ [Next]_vars => FileInv'  BY FileSteps
<1> QED  BY <1>1, <1>2, PTL DEF Spec

-------------------------------------------------------------------------------
(* What a single caller relies on. *)

\* The variables of FileLogPolicy keep their types: NextBuffer() leaves
\* current_buffer_ inside the ring, for a ring of any size (FileLogPolicy.cpp).
THEOREM FileTypeCorrect ==
    ASSUME SingleCaller PROVE Spec => []TypeOK
<1>1. FileInv => TypeOK
  <2> SUFFICES ASSUME Types PROVE TypeOK  BY DEF FileInv
  <2> QED  BY DEF SingleCaller, Types, RingTypes, CallTypes, OtherTypes, Labels, TypeOK
<1> QED  BY <1>1, FileInvariant, PTL

\* No message that Write() accepted from a single caller is lost: it is in a
\* buffer until it is in the file, and the file has the messages in the order
\* of their appends, each once.
THEOREM FileKeepsEverything ==
    ASSUME SingleCaller PROVE Spec => []FileIntact
<1>1. FileInv => FileIntact  BY DEF FileInv, InOrder, Increasing, FileIntact
<1> QED  BY <1>1, FileInvariant, PTL

\* At every moment the file of a single caller has no gap: with a message all
\* those before it are there, however many buffers wait (FileLogPolicy.cpp:66-89).
FileHasNoGap == \A i \in 1..Len(file) : \A m \in 1..file[i] : InFile(m)

\* So it is in every behaviour with one caller.
THEOREM FileIsPrefix ==
    ASSUME SingleCaller PROVE Spec => []FileHasNoGap
<1>1. ASSUME FileInv, NEW i \in 1..Len(file), NEW m \in 1..file[i]
      PROVE  InFile(m)
  <2>1. /\ file \in Seq(1..MaxMessages) /\ written \in Nat /\ file[i] <= written
        /\ \A b \in Ring : buffers_[b] \in Seq(1..MaxMessages)
        BY <1>1, RingAssumption DEF FileInv, Types, RingTypes, OtherTypes, UpToNow
  <2>2. file[i] \in 1..MaxMessages  BY <2>1, ElementOfSeq
  <2>3. m \in 1..written  BY <2>1, <2>2
  <2>4. CASE InFile(m)  BY <2>4
  <2>5. CASE InBuffer(m)
    <3>1. PICK b \in Ring : \E k \in 1..Len(buffers_[b]) : buffers_[b][k] = m
          BY <2>5 DEF InBuffer
    <3>2. PICK j \in 1..Len(buffers_[b]) : buffers_[b][j] = m  BY <3>1
    <3>3. CASE filePc = "clear" /\ b = target  BY <1>1, <3>2, <3>3 DEF FileInv, Saved
    <3>4. CASE ~(filePc = "clear" /\ b = target)
      <4>1. file[i] < m  BY <1>1, <3>2, <3>4 DEF FileInv, InOrder, Precede
      <4> QED  BY <2>2, <4>1
    <3> QED  BY <3>3, <3>4
  <2> QED  BY <1>1, <2>3, <2>4, <2>5 DEF FileInv, NothingLost
<1>2. FileInv => FileHasNoGap  BY <1>1 DEF FileHasNoGap
<1> QED  BY <1>2, FileInvariant, PTL

\* A buffer that a single caller has handed over, or that the file thread
\* writes without its mutex, receives no further message.
THEOREM PendingStaysFrozen ==
    ASSUME SingleCaller PROVE Spec => PendingIsFrozen
<1>1. FileInv /\ [Next]_vars
         => [\A b \in HandedOver : Len(buffers_'[b]) <= Len(buffers_[b])]_vars
      BY FileSteps
<1> QED  BY <1>1, FileInvariant, PTL DEF Spec, PendingIsFrozen
===============================================================================
