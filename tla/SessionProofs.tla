---------------------------- MODULE SessionProofs ----------------------------
(* Theorems about Session and Inbox: the write chain and the read chain, with *)
(* handlers, SentData() and Close() in any order, from any threads, on any    *)
(* number of sessions, and the queue that the read handlers fill.             *)
EXTENDS Inbox, SequenceTheorems, WellFoundedInduction, TLAPS

-------------------------------------------------------------------------------
(* The write variables of a session, and what holds of them. *)

WriteTypeOK ==
    /\ open \in [Sessions -> BOOLEAN] /\ peerOpen \in [Sessions -> BOOLEAN]
    /\ asked \in [Sessions -> Nat]
    /\ writeQueue_ \in [Sessions -> Seq(Nat)]
    /\ inFlight \in [Sessions -> Seq(Nat)]
    /\ out \in [Sessions -> Seq(Nat)]
    /\ outcomes \in [Sessions -> Seq({"ok", "failed"})]

\* The head of the queue has been written, and its handler has yet to run.
HeadIsOut(o) == o # <<>> /\ Head(o) = "ok"

HeadsOut(o) == IF HeadIsOut(o) THEN 1 ELSE 0

(* Of a session that is open (isOpen) or not, with `a` messages so far, queue *)
(* q, writes f in flight, outcomes o and output w:                            *)

\* the queue is the run of latest messages,
Numbered(a, q) == /\ Len(q) <= a
                  /\ \A i \in 1..Len(q) : q[i] = a - Len(q) + i

\* those before it are out,
Sent(a, q, o, w) == /\ \A i \in 1..Len(w) : w[i] = i
                    /\ Len(w) = a - Len(q) + HeadsOut(o)

\* and one write, that of its head, is under way unless the socket is closed.
Attended(isOpen, q, f, o) == /\ Len(f) + Len(o) <= 1
                             /\ q = <<>> => f = <<>> /\ o = <<>>
                             /\ f # <<>> => f[1] = q[1]
                             /\ q # <<>> /\ isOpen => Len(f) + Len(o) = 1

Linked(isOpen, a, q, f, o, w) ==
    Numbered(a, q) /\ Sent(a, q, o, w) /\ Attended(isOpen, q, f, o)

ChainOf(s) ==
    Linked(open[s], asked[s], writeQueue_[s], inFlight[s], outcomes[s], out[s])

Chain == \A s \in Sessions : ChainOf(s)

WriteInv == WriteTypeOK /\ Chain

-------------------------------------------------------------------------------
\* Only the empty sequence has length 0.
LEMMA EmptyIffLen0 ==
    ASSUME NEW T, NEW seq \in Seq(T)
    PROVE  Len(seq) \in Nat /\ (seq = <<>> <=> Len(seq) = 0)
OBVIOUS

\* Two naturals whose sum is at most 1.
LEMMA AtMostOne ==
    ASSUME NEW m \in Nat, NEW n \in Nat, m + n <= 1, m # 0
    PROVE  m = 1 /\ n = 0
OBVIOUS

\* Behind the only element of a sequence there is nothing.
LEMMA OnlyOne ==
    ASSUME NEW T, NEW seq \in Seq(T), Len(seq) = 1
    PROVE  Tail(seq) = <<>>
<1>0. Len(<<>>) = 0  OBVIOUS
<1>1. Len(seq) # 0  OBVIOUS
<1>2. seq # <<>>  BY <1>0, <1>1
<1>3. Tail(seq) \in Seq(T) /\ Len(Tail(seq)) = 0  BY <1>2
<1> DEFINE rest == Tail(seq)
<1>4. rest \in Seq(T) /\ Len(rest) = 0  BY <1>3
<1> HIDE DEF rest
<1>5. rest = <<>>  BY <1>4
<1> QED  BY <1>5 DEF rest

\* A sequence of naturals each at its own place.
LEMMA InPlace ==
    ASSUME NEW w \in Seq(Nat), \A i \in 1..Len(w) : w[i] = i
    PROVE  w = [i \in 1..Len(w) |-> i]
<1>1. w \in [1..Len(w) -> Nat]  BY LenProperties
<1> QED  BY <1>1

\* What is left of a sequence of one element without it.
LEMMA WithoutOnly ==
    ASSUME NEW T, NEW seq \in Seq(T), Len(seq) = 1
    PROVE  Without(seq, 1) = <<>>
<1>1. SubSeq(seq, 1, 0) = <<>> /\ SubSeq(seq, 2, 1) = <<>>  OBVIOUS
<1> QED  BY <1>1 DEF Without

\* A sequence without one of its elements is a sequence over the same set.
LEMMA WithoutType ==
    ASSUME NEW T, NEW seq \in Seq(T), NEW i \in 1..Len(seq)
    PROVE  Without(seq, i) \in Seq(T)
<1>1. SubSeq(seq, 1, i - 1) \in Seq(T) /\ SubSeq(seq, i + 1, Len(seq)) \in Seq(T)
      OBVIOUS
<1> QED  BY <1>1 DEF Without

-------------------------------------------------------------------------------
\* Nothing is queued at first.
LEMMA WriteInit == SessionInit => WriteInv
<1> SUFFICES ASSUME SessionInit PROVE WriteInv
    OBVIOUS
<1>1. WriteTypeOK  BY DEF SessionInit, WriteTypeOK
<1>2. ASSUME NEW s \in Sessions PROVE ChainOf(s)
      BY <1>2 DEF SessionInit, ChainOf, Linked, Numbered, Sent, Attended, HeadsOut, HeadIsOut
<1> QED  BY <1>1, <1>2 DEF WriteInv, Chain

\* The steps of a session keep the types.
LEMMA WriteTypeStep ==
    ASSUME WriteInv, NEW s \in Sessions,
           Handler(s) \/ Network(s) \/ Peer(s) \/ User(s) \/ Expire(s)
    PROVE  WriteTypeOK'
<1> USE DEF WriteInv, WriteTypeOK
<1>1. CASE AsyncWrite(s)
  <2>1. outcomes[s] # <<>> /\ ChainOf(s)  BY <1>1 DEF AsyncWrite, Chain
  <2>2. writeQueue_[s] # <<>>  BY <2>1 DEF ChainOf, Linked, Attended
  <2>3. Tail(outcomes[s]) \in Seq({"ok", "failed"})  BY <2>1
  <2>4. CASE WriteOk(s)
    <3> DEFINE rest == Tail(writeQueue_[s])
    <3>1. rest \in Seq(Nat)  BY <2>2
    <3>2. ~AllSent(rest) => Append(inFlight[s], Head(rest)) \in Seq(Nat)
          BY <3>1 DEF AllSent
    <3> QED  BY <1>1, <2>3, <2>4, <3>1, <3>2 DEF AsyncWrite, WriteOk, DoWrite
  <2>5. CASE WriteError(s)  BY <1>1, <2>3, <2>5 DEF AsyncWrite, WriteError
  <2> QED  BY <1>1, <2>4, <2>5 DEF AsyncWrite
<1>2. CASE SentData(s)
  <2> DEFINE longer == Append(writeQueue_[s], asked[s] + 1)
  <2>1. longer \in Seq(Nat) /\ Append(inFlight[s], Head(longer)) \in Seq(Nat)
        OBVIOUS
  <2>2. /\ asked' = [asked EXCEPT ![s] = @ + 1]
        /\ writeQueue_' = [writeQueue_ EXCEPT ![s] = longer]
        /\ UNCHANGED <<open, peerOpen, outcomes, out>>
        /\ \/ UNCHANGED inFlight
           \/ inFlight' = [inFlight EXCEPT ![s] = Append(@, Head(longer))]
        BY <1>2 DEF SentData, DoWrite
  <2> HIDE DEF longer
  <2>3. asked' \in [Sessions -> Nat]  BY <2>2
  <2>4. writeQueue_' \in [Sessions -> Seq(Nat)]  BY <2>1, <2>2
  <2>5. inFlight' \in [Sessions -> Seq(Nat)]  BY <2>1, <2>2
  <2> QED  BY <2>2, <2>3, <2>4, <2>5
<1>3. CASE Transmit(s)
  <2>1. PICK i \in 1..Len(inFlight[s]) :
            out' = [out EXCEPT ![s] = Append(@, inFlight[s][i])] /\ Completed(s, i, "ok")
        BY <1>3 DEF Transmit
  <2>2. Without(inFlight[s], i) \in Seq(Nat)  BY <2>1, WithoutType
  <2> QED  BY <2>1, <2>2 DEF Completed, readVars
<1>4. CASE WriteFails(s)
  <2>1. PICK i \in 1..Len(inFlight[s]) : Completed(s, i, "failed")
        BY <1>4 DEF WriteFails
  <2>2. Without(inFlight[s], i) \in Seq(Nat)  BY <2>1, WithoutType
  <2> QED  BY <1>4, <2>1, <2>2 DEF WriteFails, Completed, readVars
<1>5. CASE ReadError(s) \/ Close(s) \/ PeerClose(s)
      BY <1>5 DEF ReadError, Close, PeerClose, readVars, writeVars
<1>6. CASE ReadOk(s) \/ ReadSome(s) \/ ReadFails(s) \/ PeerSend(s) \/ Start(s) \/ Expire(s)
      BY <1>6 DEF ReadOk, ReadSome, ReadFails, PeerSend, Start, Expire, writeVars, readVars
<1> QED  BY <1>1, <1>2, <1>3, <1>4, <1>5, <1>6 DEF Handler, Network, Peer, User

\* A step of one session does not touch the chain of another.
LEMMA ChainElsewhere ==
    ASSUME WriteTypeOK, NEW s \in Sessions, NEW t \in Sessions, t # s, ChainOf(t),
           Handler(s) \/ Network(s) \/ Peer(s) \/ User(s) \/ Expire(s)
    PROVE  ChainOf(t)'
<1> DEFINE Same == /\ open'[t] = open[t] /\ asked'[t] = asked[t]
                   /\ writeQueue_'[t] = writeQueue_[t] /\ inFlight'[t] = inFlight[t]
                   /\ outcomes'[t] = outcomes[t] /\ out'[t] = out[t]
<1> USE DEF WriteTypeOK
<1>1. AsyncWrite(s) => Same  BY DEF AsyncWrite, WriteOk, WriteError, DoWrite
<1>2. SentData(s) => Same  BY DEF SentData, DoWrite
<1>3. Transmit(s) => Same  BY DEF Transmit, Completed, readVars
<1>4. WriteFails(s) => Same  BY DEF WriteFails, Completed, readVars
<1>5. ReadError(s) \/ Close(s) \/ PeerClose(s) => Same
      BY DEF ReadError, Close, PeerClose, readVars, writeVars
<1>6. ReadOk(s) \/ ReadSome(s) \/ ReadFails(s) \/ PeerSend(s) \/ Start(s) \/ Expire(s)
          => Same
      BY DEF ReadOk, ReadSome, ReadFails, PeerSend, Start, Expire, writeVars, readVars
<1>7. Same
      BY <1>1, <1>2, <1>3, <1>4, <1>5, <1>6 DEF Handler, Network, Peer, User
<1> QED  BY <1>7 DEF ChainOf
-------------------------------------------------------------------------------
(* What each step does to a chain. *)

\* An outcome is the only one, and no write is in flight beside it.
LEMMA OutcomeAlone ==
    ASSUME NEW isOpen \in BOOLEAN, NEW a \in Nat, NEW q \in Seq(Nat), NEW f \in Seq(Nat),
           NEW o \in Seq({"ok", "failed"}), NEW w \in Seq(Nat),
           Linked(isOpen, a, q, f, o, w), o # <<>>
    PROVE  q # <<>> /\ f = <<>> /\ Len(o) = 1 /\ Tail(o) = <<>>
<1>1. q # <<>> /\ Len(o) + Len(f) <= 1  BY EmptyIffLen0 DEF Linked, Attended
<1>2. Len(o) \in Nat /\ Len(o) # 0  BY EmptyIffLen0
<1>3. Len(f) \in Nat /\ (Len(f) = 0 => f = <<>>)  BY EmptyIffLen0
<1>4. Len(o) = 1 /\ Len(f) = 0  BY <1>1, <1>2, <1>3, AtMostOne
<1>5. Tail(o) = <<>>  BY <1>4, OnlyOne
<1> QED  BY <1>1, <1>3, <1>4, <1>5

\* So is a write in flight.
LEMMA WriteAlone ==
    ASSUME NEW isOpen \in BOOLEAN, NEW a \in Nat, NEW q \in Seq(Nat), NEW f \in Seq(Nat),
           NEW o \in Seq({"ok", "failed"}), NEW w \in Seq(Nat),
           Linked(isOpen, a, q, f, o, w), f # <<>>
    PROVE  q # <<>> /\ o = <<>> /\ Len(f) = 1
<1>1. q # <<>> /\ Len(f) + Len(o) <= 1  BY DEF Linked, Attended
<1>2. Len(f) \in Nat /\ Len(f) # 0  BY EmptyIffLen0
<1>3. Len(o) \in Nat /\ (Len(o) = 0 => o = <<>>)  BY EmptyIffLen0
<1>4. Len(f) = 1 /\ Len(o) = 0  BY <1>1, <1>2, <1>3, AtMostOne
<1> QED  BY <1>1, <1>3, <1>4

\* SentData() behind other messages.
LEMMA LinkQueued ==
    ASSUME NEW isOpen \in BOOLEAN, NEW a \in Nat, NEW q \in Seq(Nat), NEW f \in Seq(Nat),
           NEW o \in Seq({"ok", "failed"}), NEW w \in Seq(Nat),
           Linked(isOpen, a, q, f, o, w), q # <<>>
    PROVE  Linked(isOpen, a + 1, Append(q, a + 1), f, o, w)
<1> DEFINE longer == Append(q, a + 1)
<1>1. Len(longer) = Len(q) + 1 /\ longer[Len(q) + 1] = a + 1 /\ longer # <<>>
  <2>1. Len(longer) = Len(q) + 1 /\ longer[Len(q) + 1] = a + 1  OBVIOUS
  <2>2. Len(longer) # 0  BY <2>1, EmptyIffLen0
  <2>3. longer # <<>>
    <3>1. Len(<<>>) = 0  OBVIOUS
    <3> HIDE DEF longer
    <3> QED  BY <2>2, <3>1
  <2> QED  BY <2>1, <2>3
<1>9. \A i \in 1..Len(q) : longer[i] = q[i]
      OBVIOUS
<1>2. Numbered(a, q)  BY DEF Linked
<1>3. ASSUME NEW i \in 1..Len(longer) PROVE longer[i] = a + 1 - Len(longer) + i
  <2>1. Len(q) \in Nat /\ (i \in 1..Len(q) \/ i = Len(q) + 1)  BY <1>1
  <2> HIDE DEF longer
  <2>2. CASE i \in 1..Len(q)  BY <1>1, <1>2, <1>9, <2>1, <2>2 DEF Numbered
  <2>3. CASE i = Len(q) + 1  BY <1>1, <2>1, <2>3
  <2> QED  BY <2>1, <2>2, <2>3
<1>4. Numbered(a + 1, longer)
  <2>1. Len(q) \in Nat /\ Len(q) <= a  BY <1>2 DEF Numbered
  <2> HIDE DEF longer
  <2> QED  BY <1>1, <1>3, <2>1 DEF Numbered
<1>5. a + 1 - Len(longer) = a - Len(q)  BY <1>1
<1> HIDE DEF longer
<1>6. Sent(a + 1, longer, o, w)
  <2>1. Len(w) = a - Len(q) + HeadsOut(o) /\ \A i \in 1..Len(w) : w[i] = i
        BY DEF Linked, Sent
  <2>2. Len(w) = a + 1 - Len(longer) + HeadsOut(o)  BY <1>5, <2>1
  <2> QED  BY <2>1, <2>2 DEF Sent
<1>7. longer[1] = q[1]  BY <1>9, EmptyIffLen0
<1>8. Attended(isOpen, longer, f, o)  BY <1>1, <1>7 DEF Linked, Attended
<1> QED  BY <1>4, <1>6, <1>8 DEF Linked, longer

\* SentData() on an empty queue starts the chain.
LEMMA LinkStarted ==
    ASSUME NEW isOpen \in BOOLEAN, NEW a \in Nat, NEW q \in Seq(Nat), NEW f \in Seq(Nat),
           NEW o \in Seq({"ok", "failed"}), NEW w \in Seq(Nat),
           Linked(isOpen, a, q, f, o, w), q = <<>>
    PROVE  f = <<>> /\ Linked(isOpen, a + 1, <<a + 1>>, <<a + 1>>, o, w)
<1>1. f = <<>> /\ o = <<>>  BY DEF Linked, Attended
<1>2. Numbered(a + 1, <<a + 1>>)  BY DEF Numbered
<1>3. Sent(a + 1, <<a + 1>>, o, w)  BY <1>1 DEF Linked, Sent, HeadsOut, HeadIsOut
<1>4. Attended(isOpen, <<a + 1>>, <<a + 1>>, o)  BY <1>1 DEF Attended
<1> QED  BY <1>1, <1>2, <1>3, <1>4 DEF Linked

\* The write in flight goes out.
LEMMA LinkWritten ==
    ASSUME NEW isOpen \in BOOLEAN, NEW a \in Nat, NEW q \in Seq(Nat), NEW f \in Seq(Nat),
           NEW o \in Seq({"ok", "failed"}), NEW w \in Seq(Nat),
           Linked(isOpen, a, q, f, o, w), f # <<>>
    PROVE  Linked(isOpen, a, q, <<>>, Append(o, "ok"), Append(w, f[1]))
<1>1. q # <<>> /\ Len(f) = 1 /\ o = <<>>  BY WriteAlone
<1>2. Append(o, "ok") = <<"ok">> /\ HeadIsOut(<<"ok">>) /\ ~HeadIsOut(o)
      BY <1>1 DEF HeadIsOut
<1>3. f[1] = q[1] /\ Len(w) = a - Len(q)  BY <1>2 DEF Linked, Attended, Sent, HeadsOut
<1>4. q[1] = a - Len(q) + 1  BY <1>1, EmptyIffLen0 DEF Linked, Numbered
<1>5. Sent(a, q, <<"ok">>, Append(w, f[1]))
  <2>1. f[1] = Len(w) + 1  BY <1>3, <1>4
  <2>2. \A i \in 1..Len(w) : w[i] = i  BY DEF Linked, Sent
  <2>3. \A i \in 1..Len(Append(w, f[1])) : Append(w, f[1])[i] = i  BY <2>1, <2>2
  <2>4. Len(Append(w, f[1])) = Len(w) + 1  OBVIOUS
  <2>5. Len(Append(w, f[1])) = a - Len(q) + 1  BY <1>3, <2>4
  <2> QED  BY <1>2, <2>3, <2>5 DEF Sent, HeadsOut
<1>6. Attended(isOpen, q, <<>>, <<"ok">>)  BY <1>1 DEF Attended
<1> QED  BY <1>2, <1>5, <1>6 DEF Linked

\* The write in flight fails.
LEMMA LinkFailed ==
    ASSUME NEW isOpen \in BOOLEAN, NEW a \in Nat, NEW q \in Seq(Nat), NEW f \in Seq(Nat),
           NEW o \in Seq({"ok", "failed"}), NEW w \in Seq(Nat),
           Linked(isOpen, a, q, f, o, w), f # <<>>
    PROVE  Linked(isOpen, a, q, <<>>, Append(o, "failed"), w)
<1>1. q # <<>> /\ Len(f) = 1 /\ o = <<>>  BY WriteAlone
<1>2. Append(o, "failed") = <<"failed">> /\ ~HeadIsOut(<<"failed">>) /\ ~HeadIsOut(o)
      BY <1>1 DEF HeadIsOut
<1>3. Sent(a, q, <<"failed">>, w)  BY <1>2 DEF Linked, Sent, HeadsOut
<1>4. Attended(isOpen, q, <<>>, <<"failed">>)  BY <1>1 DEF Attended
<1> QED  BY <1>2, <1>3, <1>4 DEF Linked

\* The handler of a write that went out, the last one of the queue.
LEMMA LinkEnded ==
    ASSUME NEW isOpen \in BOOLEAN, NEW a \in Nat, NEW q \in Seq(Nat), NEW f \in Seq(Nat),
           NEW o \in Seq({"ok", "failed"}), NEW w \in Seq(Nat),
           Linked(isOpen, a, q, f, o, w), HeadIsOut(o),
           Tail(q) = <<>>
    PROVE  Linked(isOpen, a, Tail(q), f, Tail(o), w)
<1>1. q # <<>> /\ f = <<>> /\ Tail(o) = <<>>  BY OutcomeAlone DEF HeadIsOut
<1>2. Len(q) = 1 /\ Len(Tail(q)) = 0
  <2>1. Len(Tail(q)) = Len(q) - 1 /\ Len(q) \in Nat  BY <1>1
  <2>2. Len(Tail(q)) = Len(<<>>)  OBVIOUS
  <2> QED  BY <2>1, <2>2
<1>3. ~HeadIsOut(Tail(o))  BY <1>1 DEF HeadIsOut
<1>4. Numbered(a, <<>>)  BY DEF Numbered
<1>5. Sent(a, Tail(q), Tail(o), w)
  <2>1. Len(w) = a - 1 + 1 /\ \A i \in 1..Len(w) : w[i] = i
        BY <1>2 DEF Linked, Sent, HeadsOut
  <2>2. Len(w) = a - 0 + 0  BY <2>1
  <2>3. HeadsOut(Tail(o)) = 0  BY <1>3 DEF HeadsOut
  <2> QED  BY <1>2, <2>1, <2>2, <2>3 DEF Sent
<1>6. Attended(isOpen, <<>>, <<>>, <<>>)  BY DEF Attended
<1> QED  BY <1>1, <1>4, <1>5, <1>6 DEF Linked

\* The handler of a write that went out, with more in the queue.
LEMMA LinkContinued ==
    ASSUME NEW isOpen \in BOOLEAN, NEW a \in Nat, NEW q \in Seq(Nat), NEW f \in Seq(Nat),
           NEW o \in Seq({"ok", "failed"}), NEW w \in Seq(Nat),
           Linked(isOpen, a, q, f, o, w), HeadIsOut(o),
           Tail(q) # <<>>
    PROVE  Linked(isOpen, a, Tail(q), Append(f, Head(Tail(q))), Tail(o), w)
<1>1. q # <<>> /\ f = <<>> /\ Tail(o) = <<>>  BY OutcomeAlone DEF HeadIsOut
<1>2. ~HeadIsOut(Tail(o))  BY <1>1 DEF HeadIsOut
<1>3. Len(Tail(q)) = Len(q) - 1 /\ \A i \in 1..Len(Tail(q)) : Tail(q)[i] = q[i + 1]
      BY <1>1
<1>4. Append(f, Head(Tail(q))) = <<Tail(q)[1]>>  BY <1>1
<1>5. Numbered(a, Tail(q))  BY <1>1, <1>3 DEF Linked, Numbered
<1>6. Sent(a, Tail(q), Tail(o), w)
  <2>1. Len(w) = a - Len(q) + 1 /\ \A i \in 1..Len(w) : w[i] = i
        BY DEF Linked, Sent, HeadsOut
  <2>2. Len(q) \in Nat /\ Len(Tail(q)) = Len(q) - 1  BY <1>3
  <2>3. ASSUME NEW n \in Nat, NEW m, m = n - 1 PROVE a - n + 1 = a - m + 0
        BY <2>3
  <2>5. Len(w) = a - Len(Tail(q)) + 0  BY <2>1, <2>2, <2>3
  <2>4. HeadsOut(Tail(o)) = 0  BY <1>2 DEF HeadsOut
  <2> QED  BY <2>1, <2>4, <2>5 DEF Sent
<1>7. Attended(isOpen, Tail(q), <<Tail(q)[1]>>, <<>>)  BY DEF Attended
<1> QED  BY <1>1, <1>4, <1>5, <1>6, <1>7 DEF Linked

\* The handler of a failed write closes the socket and leaves the queue alone.
LEMMA LinkBroken ==
    ASSUME NEW isOpen \in BOOLEAN, NEW a \in Nat, NEW q \in Seq(Nat), NEW f \in Seq(Nat),
           NEW o \in Seq({"ok", "failed"}), NEW w \in Seq(Nat),
           Linked(isOpen, a, q, f, o, w), o # <<>>,
           ~HeadIsOut(o)
    PROVE  Linked(FALSE, a, q, f, Tail(o), w)
<1>1. q # <<>> /\ f = <<>> /\ Tail(o) = <<>>  BY OutcomeAlone
<1>2. ~HeadIsOut(Tail(o))  BY <1>1 DEF HeadIsOut
<1>3. Sent(a, q, Tail(o), w)  BY <1>2 DEF Linked, Sent, HeadsOut
<1>4. Attended(FALSE, q, <<>>, <<>>)  BY <1>1 DEF Attended
<1> QED  BY <1>1, <1>3, <1>4 DEF Linked
\* A closed socket asks for less.
LEMMA LinkClosed ==
    ASSUME NEW isOpen \in BOOLEAN, NEW a \in Nat, NEW q \in Seq(Nat), NEW f \in Seq(Nat),
           NEW o \in Seq({"ok", "failed"}), NEW w \in Seq(Nat),
           Linked(isOpen, a, q, f, o, w)
    PROVE  Linked(FALSE, a, q, f, o, w)
BY DEF Linked, Attended

-------------------------------------------------------------------------------
(* The steps of a session and its own chain. *)

\* SentData() lengthens the chain or starts it.
LEMMA ChainWhenSent ==
    ASSUME WriteInv, NEW s \in Sessions, SentData(s)
    PROVE  ChainOf(s)'
<1> DEFINE q == writeQueue_[s]
<1> DEFINE a == asked[s]
<1> DEFINE f == inFlight[s]
<1> DEFINE longer == Append(q, a + 1)
<1>1. /\ open[s] \in BOOLEAN /\ a \in Nat /\ q \in Seq(Nat) /\ f \in Seq(Nat)
      /\ outcomes[s] \in Seq({"ok", "failed"}) /\ out[s] \in Seq(Nat)
      BY DEF WriteInv, WriteTypeOK
<1>2. Linked(open[s], a, q, f, outcomes[s], out[s])
      BY DEF WriteInv, Chain, ChainOf
<1>3. /\ open'[s] = open[s] /\ outcomes'[s] = outcomes[s] /\ out'[s] = out[s]
      /\ asked'[s] = a + 1 /\ writeQueue_'[s] = longer
      BY DEF SentData, WriteInv, WriteTypeOK
<1>4. CASE q # <<>>
  <2>1. inFlight'[s] = f  BY <1>4 DEF SentData, WriteInProgress
  <2>2. Linked(open[s], a + 1, longer, f, outcomes[s], out[s])
        BY <1>1, <1>2, <1>4, LinkQueued
  <2> QED  BY <1>3, <2>1, <2>2 DEF ChainOf
<1>5. CASE q = <<>>
  <2>1. f = <<>> /\ Linked(open[s], a + 1, <<a + 1>>, <<a + 1>>, outcomes[s], out[s])
        BY <1>1, <1>2, <1>5, LinkStarted
  <2>2. longer = <<a + 1>> /\ Head(<<a + 1>>) = a + 1  BY <1>5
  <2>3. inFlight'[s] = Append(f, Head(longer))
        BY <1>5 DEF SentData, WriteInProgress, DoWrite, WriteInv, WriteTypeOK
  <2>4. inFlight'[s] = <<a + 1>>  BY <2>1, <2>2, <2>3
  <2> QED  BY <1>3, <2>1, <2>2, <2>4 DEF ChainOf
<1> QED  BY <1>4, <1>5

\* A write that completes leaves its outcome behind.
LEMMA ChainWhenCompleted ==
    ASSUME WriteInv, NEW s \in Sessions, Transmit(s) \/ WriteFails(s)
    PROVE  ChainOf(s)'
<1>1. /\ open[s] \in BOOLEAN /\ asked[s] \in Nat /\ writeQueue_[s] \in Seq(Nat)
      /\ inFlight[s] \in Seq(Nat) /\ outcomes[s] \in Seq({"ok", "failed"})
      /\ out[s] \in Seq(Nat)
      BY DEF WriteInv, WriteTypeOK
<1>2. Linked(open[s], asked[s], writeQueue_[s], inFlight[s], outcomes[s], out[s])
      BY DEF WriteInv, Chain, ChainOf
<1>3. PICK i \in 1..Len(inFlight[s]) :
          \/ out' = [out EXCEPT ![s] = Append(@, inFlight[s][i])] /\ Completed(s, i, "ok")
          \/ UNCHANGED out /\ Completed(s, i, "failed")
      BY DEF Transmit, WriteFails
<1>4. inFlight[s] # <<>>
  <2>1. Len(inFlight[s]) # 0  BY <1>1, <1>3
  <2> QED  BY <1>1, <2>1, EmptyIffLen0
<1>5. Len(inFlight[s]) = 1  BY <1>1, <1>2, <1>4, WriteAlone
<1>6. i = 1 /\ Without(inFlight[s], i) = <<>>
  <2>1. i = 1  BY <1>3, <1>5
  <2> QED  BY <1>1, <1>5, <2>1, WithoutOnly
<1>7. /\ open'[s] = open[s] /\ asked'[s] = asked[s] /\ writeQueue_'[s] = writeQueue_[s]
      /\ inFlight'[s] = <<>>
      BY <1>3, <1>6 DEF Completed, WriteInv, WriteTypeOK
<1>8. CASE out' = [out EXCEPT ![s] = Append(@, inFlight[s][i])] /\ Completed(s, i, "ok")
  <2>1. out'[s] = Append(out[s], inFlight[s][1]) /\ outcomes'[s] = Append(outcomes[s], "ok")
        BY <1>6, <1>8 DEF Completed, WriteInv, WriteTypeOK
  <2>2. Linked(open[s], asked[s], writeQueue_[s], <<>>, Append(outcomes[s], "ok"),
               Append(out[s], inFlight[s][1]))
        BY <1>1, <1>2, <1>4, LinkWritten
  <2> QED  BY <1>7, <2>1, <2>2 DEF ChainOf
<1>9. CASE UNCHANGED out /\ Completed(s, i, "failed")
  <2>1. out'[s] = out[s] /\ outcomes'[s] = Append(outcomes[s], "failed")
        BY <1>9 DEF Completed, WriteInv, WriteTypeOK
  <2>2. Linked(open[s], asked[s], writeQueue_[s], <<>>, Append(outcomes[s], "failed"), out[s])
        BY <1>1, <1>2, <1>4, LinkFailed
  <2> QED  BY <1>7, <2>1, <2>2 DEF ChainOf
<1> QED  BY <1>3, <1>8, <1>9

\* The handler of a write takes the head off and starts the next, or closes.
LEMMA ChainWhenHandled ==
    ASSUME WriteInv, NEW s \in Sessions, AsyncWrite(s)
    PROVE  ChainOf(s)'
<1> DEFINE rest == Tail(writeQueue_[s])
<1>1. /\ open[s] \in BOOLEAN /\ asked[s] \in Nat /\ writeQueue_[s] \in Seq(Nat)
      /\ inFlight[s] \in Seq(Nat) /\ outcomes[s] \in Seq({"ok", "failed"})
      /\ out[s] \in Seq(Nat)
      BY DEF WriteInv, WriteTypeOK
<1>2. Linked(open[s], asked[s], writeQueue_[s], inFlight[s], outcomes[s], out[s])
      BY DEF WriteInv, Chain, ChainOf
<1>3. /\ outcomes[s] # <<>> /\ outcomes'[s] = Tail(outcomes[s])
      /\ asked'[s] = asked[s] /\ out'[s] = out[s]
      BY DEF AsyncWrite, WriteInv, WriteTypeOK
<1>4. CASE WriteOk(s)
  <2>1. HeadIsOut(outcomes[s])  BY <1>3, <1>4 DEF WriteOk, HeadIsOut
  <2>2. writeQueue_'[s] = rest /\ open'[s] = open[s]
        BY <1>4 DEF WriteOk, WriteInv, WriteTypeOK
  <2>3. CASE rest = <<>>
    <3>1. inFlight'[s] = inFlight[s]  BY <1>4, <2>3 DEF WriteOk, AllSent
    <3>2. Linked(open[s], asked[s], rest, inFlight[s], Tail(outcomes[s]), out[s])
          BY <1>1, <1>2, <2>1, <2>3, LinkEnded
    <3> QED  BY <1>3, <2>2, <3>1, <3>2 DEF ChainOf
  <2>4. CASE rest # <<>>
    <3>1. inFlight'[s] = Append(inFlight[s], Head(rest))
          BY <1>4, <2>4 DEF WriteOk, AllSent, DoWrite, WriteInv, WriteTypeOK
    <3>2. Linked(open[s], asked[s], rest, Append(inFlight[s], Head(rest)),
                 Tail(outcomes[s]), out[s])
          BY <1>1, <1>2, <2>1, <2>4, LinkContinued
    <3> QED  BY <1>3, <2>2, <3>1, <3>2 DEF ChainOf
  <2> QED  BY <2>3, <2>4
<1>5. CASE WriteError(s)
  <2>1. ~HeadIsOut(outcomes[s])  BY <1>5 DEF WriteError, HeadIsOut
  <2>2. /\ open'[s] = FALSE /\ writeQueue_'[s] = writeQueue_[s]
        /\ inFlight'[s] = inFlight[s]
        BY <1>5 DEF WriteError, WriteInv, WriteTypeOK
  <2>3. Linked(FALSE, asked[s], writeQueue_[s], inFlight[s], Tail(outcomes[s]), out[s])
        BY <1>1, <1>2, <1>3, <2>1, LinkBroken
  <2> QED  BY <1>3, <2>2, <2>3 DEF ChainOf
<1> QED  BY <1>4, <1>5 DEF AsyncWrite

\* Nothing else touches the chain; some of it closes the socket.
LEMMA ChainOtherwise ==
    ASSUME WriteInv, NEW s \in Sessions,
           \/ ReadError(s) \/ Close(s) \/ PeerClose(s) \/ ReadOk(s) \/ ReadSome(s)
           \/ ReadFails(s) \/ PeerSend(s) \/ Start(s) \/ Expire(s)
    PROVE  ChainOf(s)'
<1>1. /\ open[s] \in BOOLEAN /\ asked[s] \in Nat /\ writeQueue_[s] \in Seq(Nat)
      /\ inFlight[s] \in Seq(Nat) /\ outcomes[s] \in Seq({"ok", "failed"})
      /\ out[s] \in Seq(Nat)
      BY DEF WriteInv, WriteTypeOK
<1>2. Linked(open[s], asked[s], writeQueue_[s], inFlight[s], outcomes[s], out[s])
      BY DEF WriteInv, Chain, ChainOf
<1>3. UNCHANGED writeVars
      BY DEF ReadError, Close, PeerClose, ReadOk, ReadSome, ReadFails, PeerSend, Start,
             Expire
<1>4. open'[s] = open[s] \/ open'[s] = FALSE
      BY DEF ReadError, Close, PeerClose, ReadOk, ReadSome, ReadFails, PeerSend, Start,
             Expire, WriteInv, WriteTypeOK
<1>5. Linked(FALSE, asked[s], writeQueue_[s], inFlight[s], outcomes[s], out[s])
      BY <1>1, <1>2, LinkClosed
<1> QED  BY <1>2, <1>3, <1>4, <1>5 DEF ChainOf, writeVars

\* The invariant is inductive.
LEMMA WriteStep == WriteInv /\ [\E s \in Sessions : Handler(s) \/ Network(s) \/ Peer(s)
                                    \/ User(s) \/ Expire(s)]_sessionVars => WriteInv'
<1> SUFFICES ASSUME WriteInv,
                    [\E s \in Sessions : Handler(s) \/ Network(s) \/ Peer(s)
                        \/ User(s) \/ Expire(s)]_sessionVars
             PROVE  WriteInv'
    OBVIOUS
<1>1. CASE UNCHANGED sessionVars
      BY <1>1 DEF sessionVars, readVars, writeVars, WriteInv, WriteTypeOK, Chain, ChainOf
<1>2. ASSUME NEW s \in Sessions,
             Handler(s) \/ Network(s) \/ Peer(s) \/ User(s) \/ Expire(s)
      PROVE  WriteInv'
  <2>1. WriteTypeOK'  BY <1>2, WriteTypeStep
  <2>2. ChainOf(s)'
        BY <1>2, ChainWhenSent, ChainWhenCompleted, ChainWhenHandled, ChainOtherwise
        DEF Handler, Network, Peer, User
  <2>3. ASSUME NEW t \in Sessions, t # s PROVE ChainOf(t)'
        BY <1>2, <2>3, ChainElsewhere DEF WriteInv, Chain
  <2> QED  BY <2>1, <2>2, <2>3 DEF WriteInv, Chain
<1> QED  BY <1>1, <1>2

\* It holds of every behaviour.
LEMMA WriteInvariant == Spec => []WriteInv
<1> QED  BY WriteInit, WriteStep, PTL DEF Spec

\* It implies that what goes out is in order, one write at a time.
LEMMA InvInOrder == WriteInv => OneWriteInOrder
<1> SUFFICES ASSUME WriteInv, NEW s \in Sessions
             PROVE  /\ out[s] = [i \in 1..Len(out[s]) |-> i]
                    /\ Len(inFlight[s]) + Len(outcomes[s]) <= 1
                    /\ \A i \in 1..Len(inFlight[s]) :
                          writeQueue_[s] # <<>> /\ inFlight[s][i] = Head(writeQueue_[s])
    BY DEF OneWriteInOrder
<1>1. /\ open[s] \in BOOLEAN /\ asked[s] \in Nat /\ writeQueue_[s] \in Seq(Nat)
      /\ inFlight[s] \in Seq(Nat) /\ outcomes[s] \in Seq({"ok", "failed"})
      /\ out[s] \in Seq(Nat)
      BY DEF WriteInv, WriteTypeOK
<1>2. Linked(open[s], asked[s], writeQueue_[s], inFlight[s], outcomes[s], out[s])
      BY DEF WriteInv, Chain, ChainOf
<1>3. out[s] = [i \in 1..Len(out[s]) |-> i]  BY <1>1, <1>2, InPlace DEF Linked, Sent
<1>4. Len(inFlight[s]) + Len(outcomes[s]) <= 1  BY <1>2 DEF Linked, Attended
<1>5. ASSUME NEW i \in 1..Len(inFlight[s])
      PROVE  writeQueue_[s] # <<>> /\ inFlight[s][i] = Head(writeQueue_[s])
  <2>1. inFlight[s] # <<>>
    <3>1. Len(inFlight[s]) # 0  BY <1>1, <1>5
    <3> QED  BY <1>1, <3>1, EmptyIffLen0
  <2>2. writeQueue_[s] # <<>> /\ Len(inFlight[s]) = 1
        BY <1>1, <1>2, <2>1, WriteAlone
  <2>3. inFlight[s][1] = writeQueue_[s][1]  BY <1>2, <2>1 DEF Linked, Attended
  <2>4. i = 1  BY <1>5, <2>2
  <2>5. Head(writeQueue_[s]) = writeQueue_[s][1]  BY <1>1, <2>2
  <2> QED  BY <2>2, <2>3, <2>4, <2>5
<1> QED  BY <1>3, <1>4, <1>5

\* It implies that a writer with an open socket has something to go on with.
LEMMA InvKeepsGoing == WriteInv => WriterKeepsGoing
<1> QED  BY DEF WriteInv, Chain, ChainOf, Linked, Attended, WriterKeepsGoing

\* What goes out is the messages in the order of SentData(), and one write at
\* most is in progress, that of the head of the queue.
THEOREM WritesInOrder == Spec => []OneWriteInOrder
<1> QED  BY InvInOrder, WriteInvariant, PTL

\* While the socket is open a queued message has a write in progress, or a
\* handler to come that starts one.
THEOREM WriterNeverStalls == Spec => []WriterKeepsGoing
<1> QED  BY InvKeepsGoing, WriteInvariant, PTL

-------------------------------------------------------------------------------
(* The read variables of a session, and what holds of them, whether or not    *)
(* its peer waits for a message to be handled before it sends the next.       *)

ReadTypeOK ==
    /\ arrived \in [Sessions -> Nat] /\ sentPieces \in [Sessions -> Nat]
    /\ reading \in [Sessions -> {"none", "pending", "ok", "failed"}]
    /\ readBuffer_ \in [Sessions -> Seq(Nat)]
    /\ received \in [Sessions -> Seq(Nat)]

Increasing(seq) == \A i, j \in 1..Len(seq) : i < j => seq[i] < seq[j]

UpTo(n, seq) == \A i \in 1..Len(seq) : seq[i] \in 1..n

Before(seq, later) == \A i \in 1..Len(seq), j \in 1..Len(later) : seq[i] < later[j]

\* What the handler has (r) and what is in the buffer (b), of n pieces read.
Ordered(r, b, n) == /\ Increasing(r) /\ Increasing(b)
                    /\ UpTo(n, r) /\ UpTo(n, b)
                    /\ Before(r, b)

\* A read that is to be handled has found a delimiter, and what was handled
\* ends with one.
ReadOf(s) == /\ Ordered(received[s], readBuffer_[s], arrived[s])
             /\ arrived[s] <= sentPieces[s]
             /\ reading[s] = "ok" => HasMessage(readBuffer_[s])
             /\ EndsMessage(LastOf(received[s]))

ReadInv == ReadTypeOK /\ \A s \in Sessions : ReadOf(s)

-------------------------------------------------------------------------------
\* A set of naturals that is not empty has a least member.
LEMMA Least ==
    ASSUME NEW S, S \subseteq Nat, S # {}
    PROVE  \E m \in S : \A k \in S : m <= k
<1> DEFINE R == {p \in Nat \X Nat : p[1] < p[2]}
<1>1. R = OpToRel(<, Nat)  BY DEF OpToRel
<1>2. IsWellFoundedOn(R, Nat)  BY <1>1, NatLessThanWellFounded
<1> HIDE DEF R
<1>3. PICK m \in S : \A k \in S : <<k, m>> \notin R  BY <1>2, WFMin
<1>4. ASSUME NEW k \in S PROVE m <= k
  <2>1. m \in Nat /\ k \in Nat  OBVIOUS
  <2>2. ~(k < m)  BY <1>3, <2>1 DEF R
  <2> QED  BY <2>1, <2>2
<1> QED  BY <1>4

\* The pieces up to the first delimiter are the first ones of the buffer, and
\* the last of them is the one with the delimiter.
LEMMA FirstIsPrefix ==
    ASSUME NEW b \in Seq(Nat), HasMessage(b)
    PROVE  /\ FirstMessage(b) \in Seq(Nat)
           /\ Len(FirstMessage(b)) \in 1..Len(b)
           /\ \A i \in 1..Len(FirstMessage(b)) : FirstMessage(b)[i] = b[i]
           /\ EndsMessage(LastOf(FirstMessage(b)))
<1> DEFINE Ends == {i \in 1..Len(b) : EndsMessage(b[i])}
           IsFirst(i) == EndsMessage(b[i]) /\ \A j \in 1..(i - 1) : ~EndsMessage(b[j])
           first == CHOOSE i \in 1..Len(b) : IsFirst(i)
<1>1. Ends \subseteq Nat /\ Ends # {}  BY DEF HasMessage
<1>2. PICK m \in Ends : \A k \in Ends : m <= k  BY <1>1, Least
<1>3. m \in 1..Len(b) /\ IsFirst(m)
  <2>1. m \in 1..Len(b) /\ EndsMessage(b[m])  OBVIOUS
  <2>2. ASSUME NEW j \in 1..(m - 1) PROVE ~EndsMessage(b[j])
    <3>1. j \in 1..Len(b) /\ ~(m <= j)  BY <2>1
    <3>2. j \notin Ends  BY <1>2, <3>1
    <3> QED  BY <3>1, <3>2
  <2> QED  BY <2>1, <2>2
<1> HIDE DEF IsFirst
<1>4. first \in 1..Len(b) /\ IsFirst(first)  BY <1>3
<1>8. EndsMessage(b[first])  BY <1>4 DEF IsFirst
<1>5. FirstMessage(b) = SubSeq(b, 1, first)  BY DEF FirstMessage, IsFirst
<1> HIDE DEF first
<1>6. \A i \in 1..first : b[i] \in Nat  BY <1>4
<1>7. /\ SubSeq(b, 1, first) \in Seq(Nat)
      /\ Len(SubSeq(b, 1, first)) = first
      /\ \A i \in 1..first : SubSeq(b, 1, first)[i] = b[i]
      BY <1>4, <1>6, SubSeqProperties
<1>9. LastOf(FirstMessage(b)) = b[first]
  <2>1. FirstMessage(b) # <<>>  BY <1>4, <1>5, <1>7
  <2> QED  BY <1>4, <1>5, <1>7, <2>1 DEF LastOf
<1> QED  BY <1>4, <1>5, <1>7, <1>8, <1>9

\* The elements of a concatenation.
LEMMA ConcatAt ==
    ASSUME NEW p \in Seq(Nat), NEW q \in Seq(Nat), NEW i \in 1..Len(p \o q)
    PROVE  /\ Len(p \o q) = Len(p) + Len(q)
           /\ \/ i \in 1..Len(p) /\ (p \o q)[i] = p[i]
              \/ i - Len(p) \in 1..Len(q) /\ (p \o q)[i] = q[i - Len(p)]
<1>1. Len(p) \in Nat /\ Len(q) \in Nat /\ Len(p \o q) = Len(p) + Len(q)
      BY ConcatProperties
<1> QED  BY <1>1, ConcatProperties

\* Two increasing sequences, one after the other.
LEMMA ConcatIncreases ==
    ASSUME NEW p \in Seq(Nat), NEW q \in Seq(Nat),
           Increasing(p), Increasing(q), Before(p, q)
    PROVE  Increasing(p \o q)
<1> SUFFICES ASSUME NEW i \in 1..Len(p \o q), NEW j \in 1..Len(p \o q), i < j
             PROVE  (p \o q)[i] < (p \o q)[j]
    BY DEF Increasing
<1>1. Len(p) \in Nat /\ Len(q) \in Nat  OBVIOUS
<1>2. CASE i \in 1..Len(p) /\ (p \o q)[i] = p[i]
  <2>1. CASE j \in 1..Len(p) /\ (p \o q)[j] = p[j]  BY <1>2, <2>1 DEF Increasing
  <2>2. CASE j - Len(p) \in 1..Len(q) /\ (p \o q)[j] = q[j - Len(p)]
        BY <1>2, <2>2 DEF Before
  <2> QED  BY <2>1, <2>2, ConcatAt
<1>3. CASE i - Len(p) \in 1..Len(q) /\ (p \o q)[i] = q[i - Len(p)]
  <2>1. j - Len(p) \in 1..Len(q) /\ (p \o q)[j] = q[j - Len(p)]
    <3>1. ~(j \in 1..Len(p))  BY <1>1, <1>3
    <3> QED  BY <3>1, ConcatAt
  <2>2. i - Len(p) < j - Len(p)  BY <1>1
  <2> QED  BY <1>3, <2>1, <2>2 DEF Increasing
<1> QED  BY <1>2, <1>3, ConcatAt

-------------------------------------------------------------------------------
\* The next k pieces come behind those in the buffer.
LEMMA OrderedAfterRead ==
    ASSUME NEW r \in Seq(Nat), NEW b \in Seq(Nat), NEW n \in Nat, NEW k \in Nat,
           Ordered(r, b, n)
    PROVE  LET more == b \o [i \in 1..k |-> n + i]
           IN more \in Seq(Nat) /\ Ordered(r, more, n + k)
<1> DEFINE new == [i \in 1..k |-> n + i]
           more == b \o new
<1>1. new \in Seq(Nat) /\ Len(new) = k /\ \A i \in 1..k : new[i] = n + i
  <2>1. new \in [1..k -> Nat]  OBVIOUS
  <2>2. new \in Seq(Nat) /\ Len(new) = k  BY <2>1, IsASeq, LenProperties
  <2> QED  BY <2>2
<1> HIDE DEF new
<1>2. more \in Seq(Nat)  BY <1>1, ConcatProperties
<1>3. Len(b) \in Nat /\ Len(r) \in Nat  OBVIOUS
<1>4. Increasing(new)  BY <1>1 DEF Increasing
<1>5. Before(b, new)
  <2> SUFFICES ASSUME NEW i \in 1..Len(b), NEW j \in 1..Len(new) PROVE b[i] < new[j]
      BY DEF Before
  <2>1. b[i] <= n /\ b[i] \in Nat  BY DEF Ordered, UpTo
  <2>2. new[j] = n + j /\ j \in Nat /\ j >= 1  BY <1>1
  <2> QED  BY <2>1, <2>2
<1>6. Increasing(more)  BY <1>1, <1>4, <1>5, ConcatIncreases DEF Ordered
<1>7. UpTo(n + k, r)
  <2> SUFFICES ASSUME NEW i \in 1..Len(r) PROVE r[i] \in 1..(n + k)
      BY DEF UpTo
  <2>1. r[i] \in 1..n  BY DEF Ordered, UpTo
  <2> QED  BY <2>1
<1>8. UpTo(n + k, more) /\ Before(r, more)
  <2> SUFFICES ASSUME NEW j \in 1..Len(more)
               PROVE  more[j] \in 1..(n + k) /\ \A i \in 1..Len(r) : r[i] < more[j]
      BY DEF UpTo, Before
  <2>1. CASE j \in 1..Len(b) /\ more[j] = b[j]
    <3>1. b[j] \in 1..n /\ \A i \in 1..Len(r) : r[i] < b[j]
          BY <2>1 DEF Ordered, UpTo, Before
    <3> QED  BY <2>1, <3>1
  <2>2. CASE j - Len(b) \in 1..Len(new) /\ more[j] = new[j - Len(b)]
    <3>1. j - Len(b) \in 1..k /\ more[j] = n + (j - Len(b))  BY <1>1, <2>2
    <3>2. \A i \in 1..Len(r) : r[i] <= n /\ r[i] \in Nat  BY DEF Ordered, UpTo
    <3>3. j - Len(b) \in Nat /\ j - Len(b) >= 1 /\ j - Len(b) <= k  BY <3>1
    <3> HIDE DEF more
    <3>4. more[j] <= n + k /\ more[j] > n  BY <3>1, <3>3
    <3>5. more[j] \in Nat  BY <3>1, <3>3
    <3>6. more[j] \in 1..(n + k)  BY <3>4, <3>5
    <3>7. \A i \in 1..Len(r) : r[i] < more[j]  BY <3>2, <3>4, <3>5
    <3> QED  BY <3>6, <3>7
  <2> QED  BY <1>1, <2>1, <2>2, ConcatAt
<1>9. Ordered(r, more, n + k)  BY <1>6, <1>7, <1>8 DEF Ordered
<1> QED  BY <1>2, <1>9 DEF new

\* The handler gets the first message, which goes on where the last one ended,
\* and the buffer is emptied.
LEMMA OrderedAfterHandler ==
    ASSUME NEW r \in Seq(Nat), NEW b \in Seq(Nat), NEW n \in Nat,
           Ordered(r, b, n), HasMessage(b)
    PROVE  /\ r \o FirstMessage(b) \in Seq(Nat)
           /\ Ordered(r \o FirstMessage(b), <<>>, n)
           /\ EndsMessage(LastOf(r \o FirstMessage(b)))
           /\ LastOf(r \o FirstMessage(b)) \in Nat
           /\ LastOf(r) < LastOf(r \o FirstMessage(b))
           /\ FirstMessage(b) \in Seq(Nat)
           /\ LastOf(FirstMessage(b)) = LastOf(r \o FirstMessage(b))
<1> DEFINE f == FirstMessage(b)
           all == r \o f
<1>1. f \in Seq(Nat) /\ Len(f) \in 1..Len(b) /\ \A i \in 1..Len(f) : f[i] = b[i]
      BY FirstIsPrefix
<1> HIDE DEF f
<1>2. all \in Seq(Nat)  BY <1>1, ConcatProperties
<1>3. \A i \in 1..Len(f) : i \in 1..Len(b)  BY <1>1
<1>4. Increasing(f) /\ UpTo(n, f) /\ Before(r, f)
      BY <1>1, <1>3 DEF Ordered, Increasing, UpTo, Before
<1>5. Increasing(all)  BY <1>1, <1>4, ConcatIncreases DEF Ordered
<1>6. UpTo(n, all)
  <2> SUFFICES ASSUME NEW i \in 1..Len(all) PROVE all[i] \in 1..n
      BY DEF UpTo
  <2>1. CASE i \in 1..Len(r) /\ all[i] = r[i]  BY <2>1 DEF Ordered, UpTo
  <2>2. CASE i - Len(r) \in 1..Len(f) /\ all[i] = f[i - Len(r)]
        BY <1>4, <2>2 DEF UpTo
  <2> QED  BY <1>1, <2>1, <2>2, ConcatAt
<1>7. Increasing(<<>>) /\ UpTo(n, <<>>) /\ Before(all, <<>>)
  <2>1. 1..Len(<<>>) = {}  OBVIOUS
  <2> QED  BY <2>1 DEF Increasing, UpTo, Before
<1>8. LastOf(all) = LastOf(f) /\ LastOf(f) \in Nat /\ LastOf(r) < LastOf(f)
  <2>1. /\ Len(all) = Len(r) + Len(f) /\ Len(f) \in Nat /\ Len(f) >= 1 /\ Len(r) \in Nat
        /\ all[Len(all)] = f[Len(f)]
    <3>1. Len(f) \in Nat /\ Len(f) >= 1 /\ Len(r) \in Nat  BY <1>1
    <3>2. Len(all) = Len(r) + Len(f)  BY <1>1, ConcatProperties
    <3>3. Len(all) \in 1..Len(all) /\ ~(Len(all) \in 1..Len(r)) /\ Len(all) - Len(r) = Len(f)
          BY <3>1, <3>2
    <3> QED  BY <1>1, <3>1, <3>2, <3>3, ConcatAt
  <2>2. all # <<>> /\ f # <<>>  BY <1>1, <1>2, <2>1
  <2>3. LastOf(all) = f[Len(f)] /\ LastOf(f) = f[Len(f)]  BY <2>1, <2>2 DEF LastOf
  <2>4. f[Len(f)] \in 1..n  BY <1>4, <2>1 DEF UpTo
  <2>5. CASE r = <<>>  BY <2>3, <2>4, <2>5 DEF LastOf
  <2>6. CASE r # <<>>
    <3>1. Len(r) \in 1..Len(r) /\ Len(f) \in 1..Len(f) /\ LastOf(r) = r[Len(r)]
          BY <2>1, <2>6 DEF LastOf
    <3>2. r[Len(r)] < f[Len(f)]  BY <1>4, <3>1 DEF Before
    <3> QED  BY <2>3, <2>4, <3>1, <3>2
  <2> QED  BY <2>5, <2>6
<1>9. EndsMessage(LastOf(f))  BY FirstIsPrefix DEF f
<1> QED  BY <1>1, <1>2, <1>5, <1>6, <1>7, <1>8, <1>9 DEF Ordered, f

-------------------------------------------------------------------------------
\* Nothing has been read at first.
LEMMA ReadInit == SessionInit => ReadInv
<1> SUFFICES ASSUME SessionInit PROVE ReadInv
    OBVIOUS
<1>1. ReadTypeOK  BY DEF SessionInit, ReadTypeOK
<1>2. ASSUME NEW s \in Sessions PROVE ReadOf(s)
  <2>1. /\ received[s] = <<>> /\ readBuffer_[s] = <<>> /\ reading[s] = "none"
        /\ arrived[s] = 0 /\ sentPieces[s] = 0
        BY DEF SessionInit
  <2>2. 1..Len(<<>>) = {}  OBVIOUS
  <2>3. EndsMessage(LastOf(received[s]))  BY <2>1 DEF LastOf, EndsMessage
  <2> QED  BY <2>1, <2>2, <2>3 DEF ReadOf, Ordered, Increasing, UpTo, Before
<1> QED  BY <1>1, <1>2 DEF ReadInv

\* A step of session s that does not move pieces between peer, buffer and handler.
LEMMA ReadElsewhere ==
    ASSUME ReadInv, NEW s \in Sessions,
           UNCHANGED <<arrived, readBuffer_, received>>,
           sentPieces' \in [Sessions -> Nat],
           \A t \in Sessions : sentPieces[t] <= sentPieces'[t],
           reading' = reading \/ reading' = [reading EXCEPT ![s] = "failed"]
               \/ reading' = [reading EXCEPT ![s] = "none"]
               \/ DoRead(s, readBuffer_[s])
    PROVE  ReadInv'
<1>1. ReadTypeOK'  BY DEF ReadInv, ReadTypeOK, DoRead
<1>2. ASSUME NEW t \in Sessions PROVE ReadOf(t)'
  <2>1. reading'[t] = "ok" => reading[t] = "ok" \/ HasMessage(readBuffer_[t])
    <3>1. CASE t = s  BY <3>1 DEF DoRead, ReadInv, ReadTypeOK
    <3>2. CASE t # s  BY <3>2 DEF DoRead, ReadInv, ReadTypeOK
    <3> QED  BY <3>1, <3>2
  <2>2. arrived[t] <= sentPieces'[t]
    <3>1. arrived[t] <= sentPieces[t]  BY DEF ReadInv, ReadOf
    <3> QED  BY <3>1 DEF ReadInv, ReadTypeOK
  <2> QED  BY <2>1, <2>2 DEF ReadInv, ReadOf
<1> QED  BY <1>1, <1>2 DEF ReadInv

\* Pieces come into the buffer of s.
LEMMA ReadWhenRead ==
    ASSUME ReadInv, NEW s \in Sessions, ReadSome(s)
    PROVE  ReadInv'
<1>1. PICK k \in 1..(sentPieces[s] - arrived[s]) :
         LET buffer == readBuffer_[s] \o [i \in 1..k |-> arrived[s] + i]
         IN /\ readBuffer_' = [readBuffer_ EXCEPT ![s] = buffer]
            /\ arrived' = [arrived EXCEPT ![s] = @ + k]
            /\ DoRead(s, buffer)
      BY DEF ReadSome
<1>2. UNCHANGED <<sentPieces, received>>  BY DEF ReadSome
<1> DEFINE buffer == readBuffer_[s] \o [i \in 1..k |-> arrived[s] + i]
<1>3. /\ arrived[s] \in Nat /\ sentPieces[s] \in Nat /\ readBuffer_[s] \in Seq(Nat)
      /\ received[s] \in Seq(Nat)
      /\ Ordered(received[s], readBuffer_[s], arrived[s])
      BY DEF ReadInv, ReadTypeOK, ReadOf
<1>4. k \in Nat  BY <1>3
<1>5. buffer \in Seq(Nat) /\ Ordered(received[s], buffer, arrived[s] + k)
      BY <1>3, <1>4, OrderedAfterRead
<1>6. /\ readBuffer_' = [readBuffer_ EXCEPT ![s] = buffer]
      /\ arrived' = [arrived EXCEPT ![s] = arrived[s] + k]
      /\ reading' = [reading EXCEPT ![s] = IF HasMessage(buffer) THEN "ok" ELSE "pending"]
      BY <1>1 DEF DoRead
<1> HIDE DEF buffer
<1>7. arrived[s] + k \in Nat /\ arrived[s] + k <= sentPieces[s]  BY <1>3, <1>4
<1>8. ReadTypeOK'  BY <1>2, <1>5, <1>6, <1>7 DEF ReadInv, ReadTypeOK
<1>9. ASSUME NEW t \in Sessions PROVE ReadOf(t)'
  <2>1. CASE t = s  BY <1>2, <1>5, <1>6, <1>7, <2>1 DEF ReadInv, ReadTypeOK, ReadOf
  <2>2. CASE t # s  BY <1>2, <1>6, <2>2 DEF ReadInv, ReadTypeOK, ReadOf
  <2> QED  BY <2>1, <2>2
<1> QED  BY <1>8, <1>9 DEF ReadInv

\* The handler of s takes its first message.
LEMMA ReadWhenHandled ==
    ASSUME ReadInv, NEW s \in Sessions, ReadOk(s)
    PROVE  ReadInv'
<1> DEFINE all == received[s] \o FirstMessage(readBuffer_[s])
<1>1. /\ received' = [received EXCEPT ![s] = all]
      /\ readBuffer_' = [readBuffer_ EXCEPT ![s] = <<>>]
      /\ reading' = [reading EXCEPT ![s] = IF HasMessage(<<>>) THEN "ok" ELSE "pending"]
      /\ UNCHANGED <<arrived, sentPieces>>
      BY DEF ReadOk, Drained, DoRead
<1>2. /\ arrived[s] \in Nat /\ readBuffer_[s] \in Seq(Nat) /\ received[s] \in Seq(Nat)
      /\ Ordered(received[s], readBuffer_[s], arrived[s]) /\ HasMessage(readBuffer_[s])
      BY DEF ReadInv, ReadTypeOK, ReadOf, ReadOk
<1>3. all \in Seq(Nat) /\ Ordered(all, <<>>, arrived[s]) /\ EndsMessage(LastOf(all))
      BY <1>2, OrderedAfterHandler
<1> HIDE DEF all
<1>4. ReadTypeOK'  BY <1>1, <1>3 DEF ReadInv, ReadTypeOK
<1>5. ASSUME NEW t \in Sessions PROVE ReadOf(t)'
  <2>1. CASE t = s  BY <1>1, <1>3, <2>1 DEF ReadInv, ReadTypeOK, ReadOf
  <2>2. CASE t # s  BY <1>1, <2>2 DEF ReadInv, ReadTypeOK, ReadOf
  <2> QED  BY <2>1, <2>2
<1> QED  BY <1>4, <1>5 DEF ReadInv

\* Every step of a session keeps the invariant, and so it always holds.
LEMMA ReadStep ==
    ReadInv /\ [\E s \in Sessions : Handler(s) \/ Network(s) \/ Peer(s)
                   \/ User(s) \/ Expire(s)]_sessionVars
    => ReadInv'
<1> SUFFICES ASSUME ReadInv,
                    [\E s \in Sessions : Handler(s) \/ Network(s) \/ Peer(s)
                        \/ User(s) \/ Expire(s)]_sessionVars
             PROVE  ReadInv'
    OBVIOUS
<1>1. CASE UNCHANGED sessionVars
      BY <1>1 DEF sessionVars, readVars, ReadInv, ReadTypeOK, ReadOf
<1>2. ASSUME NEW s \in Sessions,
             Handler(s) \/ Network(s) \/ Peer(s) \/ User(s) \/ Expire(s)
      PROVE  ReadInv'
  <2>0. sentPieces \in [Sessions -> Nat] /\ \A t \in Sessions : sentPieces[t] <= sentPieces[t]
        BY DEF ReadInv, ReadTypeOK
  <2>1. CASE ReadOk(s)  BY <2>1, ReadWhenHandled
  <2>2. CASE ReadSome(s)  BY <2>2, ReadWhenRead
  <2>3. CASE ReadError(s) \/ ReadFails(s)
        BY <2>0, <2>3, ReadElsewhere DEF ReadError, NoMoreReads, ReadFails
  <2>4. CASE AsyncWrite(s)
        BY <2>0, <2>4, ReadElsewhere DEF AsyncWrite, readVars
  <2>5. CASE Transmit(s) \/ WriteFails(s)
        BY <2>0, <2>5, ReadElsewhere DEF Transmit, WriteFails, Completed, readVars
  <2>6. CASE PeerSend(s)
    <3>1. /\ sentPieces' \in [Sessions -> Nat]
          /\ \A t \in Sessions : sentPieces[t] <= sentPieces'[t]
          BY <2>0, <2>6 DEF PeerSend
    <3> QED  BY <2>6, <3>1, ReadElsewhere DEF PeerSend
  <2>7. CASE PeerClose(s) \/ Expire(s) \/ Close(s) \/ SentData(s)
        BY <2>0, <2>7, ReadElsewhere DEF PeerClose, Expire, Close, SentData, readVars
  <2>8. CASE Start(s)  BY <2>0, <2>8, ReadElsewhere DEF Start
  <2> QED  BY <1>2, <2>1, <2>2, <2>3, <2>4, <2>5, <2>6, <2>7, <2>8
           DEF Handler, Network, Peer, User
<1> QED  BY <1>1, <1>2

\* So the read chain keeps the order of the stream.
LEMMA ReadInvariant == Spec => []ReadInv
<1> QED  BY ReadInit, ReadStep, PTL DEF Spec

\* It implies that handler and buffer have their pieces in order.
LEMMA ReadInOrder == ReadInv => ReceivedInOrder
<1> SUFFICES ASSUME ReadInv, NEW s \in Sessions
             PROVE  Increasing(received[s] \o readBuffer_[s])
    BY DEF ReceivedInOrder, Increasing
<1> QED  BY ConcatIncreases DEF ReadInv, ReadTypeOK, ReadOf, Ordered

\* What the callback is given comes in the order it was sent and no piece twice,
\* also when a peer sends on without waiting and pieces are dropped.
THEOREM ReadsInOrder == Spec => []ReceivedInOrder
<1> QED  BY ReadInOrder, ReadInvariant, PTL

-------------------------------------------------------------------------------
(* The types of all variables of a session. *)

LimitsOK == /\ expired \in [Sessions -> BOOLEAN]
            /\ \A s \in Sessions : sentPieces[s] <= MaxPieces[s] /\ asked[s] <= MaxSends[s]

\* One step of session s.
Moves(s) == Handler(s) \/ Network(s) \/ Peer(s) \/ User(s) \/ Expire(s)

\* No step goes beyond the bounds on what peers and callers send.
LEMMA LimitsStep ==
    ASSUME WriteTypeOK, ReadTypeOK, LimitsOK, [\E s \in Sessions : Moves(s)]_sessionVars
    PROVE  LimitsOK'
<1> USE SessionAssumption DEF WriteTypeOK, ReadTypeOK
<1>1. CASE UNCHANGED sessionVars
      BY <1>1 DEF sessionVars, readVars, writeVars, LimitsOK
<1>2. ASSUME NEW s \in Sessions, Moves(s) PROVE LimitsOK'
  <2>1. CASE PeerSend(s)
    <3>1. sentPieces[s] + 1 <= MaxPieces[s]  BY <2>1 DEF PeerSend
    <3>2. \A t \in Sessions : sentPieces'[t] <= MaxPieces[t]
          BY <2>1, <3>1 DEF PeerSend, LimitsOK
    <3> QED  BY <2>1, <3>2 DEF PeerSend, LimitsOK, writeVars
  <2>2. CASE SentData(s)
    <3>1. asked[s] + 1 <= MaxSends[s]  BY <2>2 DEF SentData
    <3>2. asked' = [asked EXCEPT ![s] = @ + 1] /\ UNCHANGED <<sentPieces, expired>>
          BY <2>2 DEF SentData, readVars
    <3> QED  BY <3>1, <3>2 DEF LimitsOK
  <2>3. CASE ReadOk(s) \/ ReadError(s) \/ ReadSome(s) \/ ReadFails(s) \/ Start(s)
        BY <2>3 DEF ReadOk, ReadError, ReadSome, ReadFails, Start, writeVars, LimitsOK
  <2>4. CASE AsyncWrite(s)
        BY <2>4 DEF AsyncWrite, WriteOk, WriteError, readVars, LimitsOK
  <2>5. CASE Transmit(s) \/ WriteFails(s)
        BY <2>5 DEF Transmit, WriteFails, Completed, readVars, LimitsOK
  <2>6. CASE PeerClose(s) \/ Close(s) \/ Expire(s)
        BY <2>6 DEF PeerClose, Close, Expire, readVars, writeVars, LimitsOK
  <2> QED  BY <1>2, <2>1, <2>2, <2>3, <2>4, <2>5, <2>6
           DEF Moves, Handler, Network, Peer, User
<1> QED  BY <1>1, <1>2

\* Elements of a sequence that lie in a set.
LEMMA Retyped ==
    ASSUME NEW T, NEW U, NEW seq \in Seq(T), \A i \in 1..Len(seq) : seq[i] \in U
    PROVE  seq \in Seq(U)
OBVIOUS

\* Both invariants and the bounds give the types.
LEMMA SessionTypes ==
    ASSUME WriteInv, ReadInv, LimitsOK
    PROVE  SessionTypeOK
<1> USE SessionAssumption
<1>1. WriteTypeOK /\ ReadTypeOK  BY DEF WriteInv, ReadInv
<1>2. /\ {open, peerOpen, expired} \subseteq [Sessions -> BOOLEAN]
      /\ reading \in [Sessions -> {"none", "pending", "ok", "failed"}]
      BY <1>1 DEF WriteTypeOK, ReadTypeOK, LimitsOK
<1>3. ASSUME NEW s \in Sessions
      PROVE  /\ {sentPieces[s], arrived[s]} \subseteq 0..MaxPieces[s]
             /\ {readBuffer_[s], received[s]} \subseteq Seq(1..MaxPieces[s])
  <2>1. /\ sentPieces[s] \in Nat /\ arrived[s] \in Nat /\ MaxPieces[s] \in Nat
        /\ arrived[s] <= sentPieces[s] /\ sentPieces[s] <= MaxPieces[s]
        /\ readBuffer_[s] \in Seq(Nat) /\ received[s] \in Seq(Nat)
        BY <1>1 DEF ReadTypeOK, ReadInv, ReadOf, LimitsOK
  <2>2. 1..arrived[s] \subseteq 1..MaxPieces[s]  BY <2>1
  <2>3. /\ \A i \in 1..Len(readBuffer_[s]) : readBuffer_[s][i] \in 1..MaxPieces[s]
        /\ \A i \in 1..Len(received[s]) : received[s][i] \in 1..MaxPieces[s]
        BY <2>2 DEF ReadInv, ReadOf, Ordered, UpTo
  <2>4. readBuffer_[s] \in Seq(1..MaxPieces[s])  BY <2>1, <2>3, Retyped
  <2>5. received[s] \in Seq(1..MaxPieces[s])  BY <2>1, <2>3, Retyped
  <2>6. sentPieces[s] \in 0..MaxPieces[s] /\ arrived[s] \in 0..MaxPieces[s]  BY <2>1
  <2> QED  BY <2>4, <2>5, <2>6
<1>4. ASSUME NEW s \in Sessions
      PROVE  /\ asked[s] \in 0..MaxSends[s]
             /\ {writeQueue_[s], inFlight[s], out[s]} \subseteq Seq(1..MaxSends[s])
             /\ outcomes[s] \in Seq({"ok", "failed"})
  <2> DEFINE a == asked[s]  q == writeQueue_[s]  f == inFlight[s]
             o == outcomes[s]  w == out[s]
  <2>1. /\ a \in Nat /\ MaxSends[s] \in Nat /\ a <= MaxSends[s]
        /\ q \in Seq(Nat) /\ f \in Seq(Nat) /\ w \in Seq(Nat)
        /\ o \in Seq({"ok", "failed"}) /\ Linked(open[s], a, q, f, o, w)
        BY <1>1 DEF WriteTypeOK, LimitsOK, WriteInv, Chain, ChainOf
  <2> HIDE DEF a, q, f, o, w
  <2>2. Len(q) \in Nat /\ Len(f) \in Nat /\ Len(o) \in Nat /\ Len(w) \in Nat
        BY <2>1, LenProperties
  <2>3. \A i \in 1..Len(q) : q[i] \in 1..MaxSends[s]
        BY <2>1, <2>2 DEF Linked, Numbered
  <2>4. \A i \in 1..Len(f) : f[i] \in 1..MaxSends[s]
    <3> TAKE i \in 1..Len(f)
    <3>1. i = 1 /\ f # <<>>  BY <2>1, <2>2, EmptyIffLen0 DEF Linked, Attended
    <3>2. q # <<>> /\ f[1] = q[1]  BY <2>1, <3>1 DEF Linked, Attended
    <3>3. 1 \in 1..Len(q)  BY <2>1, <2>2, <3>2, EmptyIffLen0
    <3> QED  BY <2>3, <3>1, <3>2, <3>3
  <2>5. Len(w) <= a
    <3>1. Len(w) = a - Len(q) + HeadsOut(o) /\ Len(q) <= a
          BY <2>1 DEF Linked, Sent, Numbered
    <3>2. CASE HeadIsOut(o)
      <4>1. q # <<>>  BY <2>1, <3>2 DEF HeadIsOut, Linked, Attended
      <4>2. Len(q) >= 1  BY <2>1, <2>2, <4>1, EmptyIffLen0
      <4> QED  BY <2>1, <2>2, <3>1, <3>2, <4>2 DEF HeadsOut
    <3>3. CASE ~HeadIsOut(o)  BY <2>1, <2>2, <3>1, <3>3 DEF HeadsOut
    <3> QED  BY <3>2, <3>3
  <2>6. \A i \in 1..Len(w) : w[i] \in 1..MaxSends[s]
        BY <2>1, <2>2, <2>5 DEF Linked, Sent
  <2>7. q \in Seq(1..MaxSends[s]) /\ f \in Seq(1..MaxSends[s]) /\ w \in Seq(1..MaxSends[s])
        BY <2>1, <2>3, <2>4, <2>6, Retyped
  <2> QED  BY <2>1, <2>7 DEF a, q, f, o, w
<1> QED  BY <1>2, <1>3, <1>4 DEF SessionTypeOK

\* A session keeps the types of its variables, within the bounds on what its
\* peer and its callers send: what is read, handled, queued and written are
\* pieces that were sent and messages that were asked for.
THEOREM SessionTypeCorrect == Spec => []SessionTypeOK
<1>1. SessionInit => LimitsOK  BY SessionAssumption DEF SessionInit, LimitsOK
<1>2. WriteInv /\ ReadInv /\ LimitsOK
          /\ [\E s \in Sessions : Handler(s) \/ Network(s) \/ Peer(s)
                 \/ User(s) \/ Expire(s)]_sessionVars
      => LimitsOK'
      BY LimitsStep DEF Moves, WriteInv, ReadInv
<1> QED  BY <1>1, <1>2, SessionTypes, WriteInvariant, ReadInvariant, PTL DEF Spec

-------------------------------------------------------------------------------
(* A peer that waits until a message has been handled before it ends the next *)
(* one: then the buffer never holds anything behind the first delimiter.      *)

Consecutive(seq, m) == \A i \in 1..Len(seq) : seq[i] = m + i

PacedOf(s) ==
    LET r == Len(received[s])
    IN /\ Consecutive(received[s], 0) /\ Consecutive(readBuffer_[s], r)
       /\ arrived[s] = r + Len(readBuffer_[s])
       /\ EndsMessage(r)
       /\ sentPieces[s] <= r + 2

PacedInv == \A s \in Sessions : PacedOf(s)

\* The last piece of a run from 1 on is its length.
LEMMA LastIsLength ==
    ASSUME NEW seq \in Seq(Nat), Consecutive(seq, 0)
    PROVE  LastOf(seq) = Len(seq)
<1>1. CASE seq = <<>>  BY <1>1 DEF LastOf
<1>2. CASE seq # <<>>
  <2>1. Len(seq) \in 1..Len(seq)  BY <1>2, EmptyIffLen0
  <2> QED  BY <1>2, <2>1 DEF LastOf, Consecutive
<1> QED  BY <1>1, <1>2

\* One run that goes on with another.
LEMMA RunOn ==
    ASSUME NEW p \in Seq(Nat), NEW q \in Seq(Nat), NEW m \in Nat,
           Consecutive(p, m), Consecutive(q, m + Len(p))
    PROVE  /\ p \o q \in Seq(Nat) /\ Len(p \o q) = Len(p) + Len(q)
           /\ Consecutive(p \o q, m)
<1>0. /\ Len(p) \in Nat /\ Len(q) \in Nat
      /\ p \o q \in Seq(Nat) /\ Len(p \o q) = Len(p) + Len(q)
      BY LenProperties, ConcatProperties
<1>1. ASSUME NEW i \in 1..Len(p \o q) PROVE (p \o q)[i] = m + i
  <2>1. CASE i \in 1..Len(p) /\ (p \o q)[i] = p[i]  BY <2>1 DEF Consecutive
  <2>2. CASE i - Len(p) \in 1..Len(q) /\ (p \o q)[i] = q[i - Len(p)]
    <3>1. q[i - Len(p)] = m + Len(p) + (i - Len(p))  BY <2>2 DEF Consecutive
    <3> QED  BY <1>0, <2>2, <3>1
  <2> QED  BY <2>1, <2>2, ConcatAt
<1> QED  BY <1>0, <1>1 DEF Consecutive

\* Of two pieces behind an even one the second ends a message, and only that.
LEMMA SecondEnds ==
    ASSUME NEW r \in Nat, EndsMessage(r), NEW i \in 1..2, EndsMessage(r + i)
    PROVE  i = 2
BY DEF EndsMessage

\* Every second piece ends a message.
LEMMA NextEnd ==
    ASSUME NEW r \in Nat, EndsMessage(r)
    PROVE  EndsMessage(r + 2) /\ ~EndsMessage(r + 1)
BY DEF EndsMessage

\* The handler of a read then gets all that is in the buffer: one message.
LEMMA WholeBuffer ==
    ASSUME ReadInv, NEW s \in Sessions, PacedOf(s), reading[s] = "ok"
    PROVE  LET f == FirstMessage(readBuffer_[s])
           IN /\ Len(readBuffer_[s]) = 2 /\ arrived[s] = Len(received[s]) + 2
              /\ f \in Seq(Nat) /\ Len(f) = 2 /\ Consecutive(f, Len(received[s]))
<1> DEFINE b == readBuffer_[s]
           f == FirstMessage(b)
           r == Len(received[s])
<1>1. /\ b \in Seq(Nat) /\ received[s] \in Seq(Nat) /\ arrived[s] \in Nat
      /\ sentPieces[s] \in Nat /\ arrived[s] <= sentPieces[s] /\ HasMessage(b)
      BY DEF ReadInv, ReadTypeOK, ReadOf
<1>2. /\ Consecutive(b, r) /\ arrived[s] = r + Len(b) /\ EndsMessage(r)
      /\ sentPieces[s] <= r + 2
      BY DEF PacedOf
<1>3. /\ f \in Seq(Nat) /\ Len(f) \in 1..Len(b) /\ \A i \in 1..Len(f) : f[i] = b[i]
      /\ EndsMessage(LastOf(f))
      BY <1>1, FirstIsPrefix
<1> HIDE DEF f, b
<1>4. r \in Nat /\ Len(b) \in Nat  BY <1>1
<1> HIDE DEF r
<1>5. Len(b) <= 2  BY <1>1, <1>2, <1>4
<1>6. /\ Len(f) \in Nat /\ Len(f) >= 1 /\ Len(f) <= Len(b)
      /\ Len(f) \in 1..2 /\ Len(f) \in 1..Len(f)
  <2>1. \A n, m \in Nat : n \in 1..m /\ m <= 2 => n >= 1 /\ n <= m /\ n \in 1..2 /\ n \in 1..n
        OBVIOUS
  <2>2. Len(f) \in Nat  BY <1>3, <1>4
  <2> QED  BY <1>3, <1>4, <1>5, <2>1, <2>2
<1>7. f # <<>>  BY <1>3, <1>6, EmptyIffLen0
<1>8. LastOf(f) = r + Len(f)
  <2>1. LastOf(f) = f[Len(f)] /\ f[Len(f)] = b[Len(f)]  BY <1>3, <1>6, <1>7 DEF LastOf
  <2> QED  BY <1>2, <1>3, <2>1 DEF Consecutive
<1>9. Len(f) = 2  BY <1>2, <1>3, <1>4, <1>6, <1>8, SecondEnds
<1>10. Len(b) = 2
  <2>1. \A n \in Nat : n <= 2 /\ 2 <= n => n = 2  OBVIOUS
  <2> QED  BY <1>4, <1>5, <1>6, <1>9, <2>1
<1>11. Consecutive(f, r)  BY <1>2, <1>3, <1>9, <1>10 DEF Consecutive
<1> QED  BY <1>2, <1>3, <1>9, <1>10, <1>11 DEF b, f, r

\* What is about session t only changes in its own steps.
LEMMA PacedElsewhere ==
    ASSUME ReadTypeOK, NEW s \in Sessions, Moves(s), NEW t \in Sessions, PacedOf(t),
           t # s \/ UNCHANGED <<sentPieces, arrived, readBuffer_, received>>
    PROVE  PacedOf(t)'
<1>1. /\ sentPieces'[t] = sentPieces[t] /\ arrived'[t] = arrived[t]
      /\ readBuffer_'[t] = readBuffer_[t] /\ received'[t] = received[t]
  <2> USE DEF ReadTypeOK
  <2>1. CASE ReadOk(s) \/ ReadSome(s) \/ PeerSend(s)
        BY <2>1 DEF ReadOk, ReadSome, PeerSend
  <2>2. CASE \/ ReadError(s) \/ ReadFails(s) \/ Start(s) \/ AsyncWrite(s)
             \/ Transmit(s) \/ WriteFails(s) \/ PeerClose(s) \/ Close(s) \/ SentData(s)
             \/ Expire(s)
        BY <2>2 DEF ReadError, ReadFails, Start, AsyncWrite, Transmit, WriteFails, Completed,
                    PeerClose, Close, SentData, Expire, readVars
  <2> QED  BY <2>1, <2>2 DEF Moves, Handler, Network, Peer, User
<1> QED  BY <1>1 DEF PacedOf

\* Every step of a session whose peer waits keeps the invariant.
LEMMA PacedStep ==
    ASSUME Paced, ReadInv, PacedInv, [\E s \in Sessions : Moves(s)]_sessionVars
    PROVE  PacedInv'
<1>1. CASE UNCHANGED sessionVars
      BY <1>1 DEF sessionVars, readVars, PacedInv, PacedOf
<1>2. ASSUME NEW s \in Sessions, Moves(s), NEW t \in Sessions PROVE PacedOf(t)'
  <2> DEFINE r == Len(received[s])
             b == readBuffer_[s]
  <2>0. /\ ReadTypeOK /\ PacedOf(t) /\ PacedOf(s)
        /\ b \in Seq(Nat) /\ received[s] \in Seq(Nat) /\ arrived[s] \in Nat
        /\ sentPieces[s] \in Nat /\ arrived[s] <= sentPieces[s]
        /\ r \in Nat /\ Len(b) \in Nat
        BY DEF PacedInv, ReadInv, ReadTypeOK, ReadOf
  <2>e. /\ Consecutive(received[s], 0) /\ Consecutive(b, r) /\ arrived[s] = r + Len(b)
        /\ EndsMessage(r) /\ sentPieces[s] <= r + 2
        BY <2>0 DEF PacedOf
  <2>1. CASE t # s  BY <1>2, <2>0, <2>1, PacedElsewhere
  <2>2. CASE t = s /\ ReadOk(s)
    <3> DEFINE f == FirstMessage(b)
               all == received[s] \o f
    <3>1. /\ Len(b) = 2 /\ arrived[s] = r + 2
          /\ f \in Seq(Nat) /\ Len(f) = 2 /\ Consecutive(f, r)
          BY <2>0, <2>2, WholeBuffer DEF ReadOk
    <3>2. /\ received'[s] = all /\ readBuffer_'[s] = <<>>
          /\ arrived'[s] = arrived[s] /\ sentPieces'[s] = sentPieces[s]
          BY <2>0, <2>2 DEF ReadOk, Drained, ReadTypeOK
    <3> HIDE DEF f
    <3>3. Len(all) = r + 2 /\ Consecutive(all, 0)
      <4>1. Consecutive(f, 0 + r)  BY <2>0, <3>1
      <4> QED  BY <2>0, <2>e, <3>1, <4>1, RunOn
    <3>4. Len(<<>>) = 0 /\ Consecutive(<<>>, r + 2)
      <4>1. Len(<<>>) = 0 /\ 1..Len(<<>>) = {}  OBVIOUS
      <4> QED  BY <4>1 DEF Consecutive
    <3>5. EndsMessage(r + 2)  BY <2>0, <2>e, NextEnd
    <3> HIDE DEF all, b, r
    <3>6. arrived[s] = r + 2 + 0 /\ sentPieces[s] <= r + 2 + 2  BY <2>0, <2>e, <3>1
    <3> QED  BY <2>2, <3>2, <3>3, <3>4, <3>5, <3>6 DEF PacedOf
  <2>3. CASE t = s /\ ReadSome(s)
    <3>1. PICK k \in 1..(sentPieces[s] - arrived[s]) :
             /\ readBuffer_' = [readBuffer_ EXCEPT ![s] = b \o [i \in 1..k |-> arrived[s] + i]]
             /\ arrived' = [arrived EXCEPT ![s] = @ + k]
          BY <2>3 DEF ReadSome
    <3> DEFINE new == [i \in 1..k |-> arrived[s] + i]
               more == b \o new
    <3>2. k \in Nat /\ arrived[s] + k <= sentPieces[s]  BY <2>0
    <3>3. new \in Seq(Nat) /\ Len(new) = k
      <4>1. new \in [1..k -> Nat]  BY <2>0, <3>2
      <4> QED  BY <3>2, <4>1, IsASeq, LenProperties
    <3>4. Consecutive(new, r + Len(b))  BY <2>e, <3>3 DEF Consecutive
    <3> HIDE DEF new
    <3>5. Len(more) = Len(b) + k /\ Consecutive(more, r)
          BY <2>0, <2>e, <3>3, <3>4, RunOn
    <3>6. /\ readBuffer_'[s] = more /\ arrived'[s] = arrived[s] + k
          /\ received'[s] = received[s] /\ sentPieces'[s] = sentPieces[s]
          BY <2>0, <2>3, <3>1 DEF ReadSome, ReadTypeOK, new
    <3> HIDE DEF more, b, r
    <3>7. arrived[s] + k = r + (Len(b) + k)  BY <2>0, <2>e, <3>2
    <3> QED  BY <2>3, <2>e, <3>5, <3>6, <3>7 DEF PacedOf, r
  <2>4. CASE t = s /\ PeerSend(s)
    <3>1. /\ sentPieces'[s] = sentPieces[s] + 1 /\ arrived'[s] = arrived[s]
          /\ received'[s] = received[s] /\ readBuffer_'[s] = b
          BY <2>0, <2>4 DEF PeerSend, ReadTypeOK
    <3>2. LastOf(received[s]) = r  BY <2>0, <2>e, LastIsLength
    <3>3. EndsMessage(sentPieces[s]) => sentPieces[s] = r  BY <2>4, <3>2 DEF PeerSend
    <3> HIDE DEF r, b
    <3>r. r <= arrived[s]  BY <2>0, <2>e
    <3>4. sentPieces[s] \in r..(r + 2)
      <4>1. \A n, a, m \in Nat : n <= a /\ a <= m /\ m <= n + 2 => m \in n..(n + 2)
            OBVIOUS
      <4> QED  BY <2>0, <2>e, <3>r, <4>1
    <3>5. sentPieces[s] # r + 2  BY <2>0, <2>e, <3>3, NextEnd
    <3>6. sentPieces[s] + 1 <= r + 2  BY <2>0, <3>4, <3>5
    <3> QED  BY <2>4, <2>e, <3>1, <3>6 DEF PacedOf, r, b
  <2>5. CASE \/ ReadError(s) \/ ReadFails(s) \/ Start(s) \/ AsyncWrite(s)
             \/ Transmit(s) \/ WriteFails(s) \/ PeerClose(s) \/ Close(s) \/ SentData(s)
             \/ Expire(s)
    <3>1. UNCHANGED <<sentPieces, arrived, readBuffer_, received>>
          BY <2>5 DEF ReadError, ReadFails, Start, AsyncWrite, Transmit, WriteFails,
                      Completed, PeerClose, Close, SentData, Expire, readVars
    <3> QED  BY <1>2, <2>0, <3>1, PacedElsewhere
  <2> QED  BY <1>2, <2>1, <2>2, <2>3, <2>4, <2>5 DEF Moves, Handler, Network, Peer, User
<1> QED  BY <1>1, <1>2 DEF PacedInv

\* Nothing has been sent at first.
LEMMA PacedInit == SessionInit => PacedInv
<1> SUFFICES ASSUME SessionInit, NEW s \in Sessions PROVE PacedOf(s)
    BY DEF PacedInv
<1>1. /\ received[s] = <<>> /\ readBuffer_[s] = <<>> /\ arrived[s] = 0 /\ sentPieces[s] = 0
      BY DEF SessionInit
<1>2. Len(<<>>) = 0 /\ 1..Len(<<>>) = {} /\ EndsMessage(0)  BY DEF EndsMessage
<1> QED  BY <1>1, <1>2 DEF PacedOf, Consecutive

\* It implies that handler and buffer together have all that was read.
LEMMA PacedHasAll == ASSUME ReadInv, PacedInv PROVE NothingDropped
<1> SUFFICES ASSUME NEW s \in Sessions
             PROVE  received[s] \o readBuffer_[s] = [i \in 1..arrived[s] |-> i]
    BY DEF NothingDropped
<1> DEFINE p == received[s]
           q == readBuffer_[s]
<1>1. p \in Seq(Nat) /\ q \in Seq(Nat)  BY DEF ReadInv, ReadTypeOK
<1>2. Consecutive(p, 0) /\ Consecutive(q, Len(p)) /\ arrived[s] = Len(p) + Len(q)
      BY DEF PacedInv, PacedOf
<1> HIDE DEF p, q
<1>3. Len(p) \in Nat  BY <1>1
<1>4. p \o q \in Seq(Nat) /\ Len(p \o q) = arrived[s] /\ Consecutive(p \o q, 0)
  <2>1. Consecutive(q, 0 + Len(p))  BY <1>2, <1>3
  <2> QED  BY <1>1, <1>2, <2>1, RunOn
<1>5. \A i \in 1..Len(p \o q) : (p \o q)[i] = i  BY <1>4 DEF Consecutive
<1> QED  BY <1>4, <1>5, InPlace DEF p, q

\* From a peer that waits for its message to be handled before it ends the next
\* one nothing is lost in Session: what was read from the socket is all with the
\* handler or in the buffer, however the stream is divided into reads.
THEOREM PacedLosesNothing == ASSUME Paced PROVE Spec => []NothingDropped
<1>1. PacedInv /\ ReadInv /\ [\E s \in Sessions : Handler(s) \/ Network(s) \/ Peer(s)
                                 \/ User(s) \/ Expire(s)]_sessionVars
      => PacedInv'
      BY PacedStep DEF Moves
<1>2. Spec => []PacedInv  BY <1>1, PacedInit, ReadInvariant, PTL DEF Spec
<1> QED  BY <1>2, PacedHasAll, ReadInvariant, PTL

-------------------------------------------------------------------------------
(* The queue between the read handlers and app. A message is known by its     *)
(* push number, and origin says for each what it was.                         *)

InboxTypeOK ==
    /\ origin \in Seq(Sessions \X Seq(Nat)) /\ pushed = Len(origin)
    /\ queue \in Seq(Nat) /\ count = Len(queue)
    /\ popped \in 0..Len(origin)
    /\ got \in [Sessions -> Seq(Seq(Nat))]
    /\ waiting = {}
    /\ polling \in [{app} -> {"idle", "checked"}]
    /\ polling[app] = "checked" => queue # <<>>

\* Message number m of those pushed (o) is message x of session s.
IsMessage(o, m, s, x) == o[m][1] = s /\ o[m][2] = x

\* Messages, each of which ends behind the one before it.
Rising(messages) ==
    \A i, j \in 1..Len(messages) : i < j => LastOf(messages[i]) < LastOf(messages[j])

\* What was pushed: ends of messages the handler took up, in order.
OriginOK == /\ \A m \in 1..Len(origin) :
                  /\ EndsMessage(LastOf(origin[m][2]))
                  /\ LastOf(origin[m][2]) <= LastOf(received[origin[m][1]])
            /\ \A m, k \in 1..Len(origin) :
                  m < k /\ origin[m][1] = origin[k][1] => LastOf(origin[m][2]) < LastOf(origin[k][2])

\* The queue holds messages in the order of their pushes, none that was popped.
QueueOK == /\ Increasing(queue)
           /\ \A i \in 1..Len(queue) : popped < queue[i] /\ queue[i] <= Len(origin)

\* What app has got was pushed, and popped.
GotOK == \A s \in Sessions :
            /\ Rising(got[s])
            /\ \A i \in 1..Len(got[s]) :
                  \E m \in 1..Len(origin) : m <= popped /\ IsMessage(origin, m, s, got[s][i])

InboxInv == InboxTypeOK /\ OriginOK /\ QueueOK /\ GotOK

AllQueued == /\ Len(queue) = Len(origin) - popped
             /\ \A i \in 1..Len(queue) : queue[i] = popped + i

Waits(s, x) ==
    \E m \in (popped + 1)..Len(origin) : origin[m][1] = s /\ LastOf(origin[m][2]) = x

\* No message has lost its head.
Unbroken == \A m \in 1..Len(origin) :
               origin[m][2] = WholeMessage(LastOf(origin[m][2]))

WholeOf(s) ==
    LET n == Len(got[s])
    IN /\ \A i \in 1..n : LastOf(got[s][i]) = 2 * i
       /\ 2 * n <= LastOf(received[s])
       /\ \A m \in (popped + 1)..Len(origin) : origin[m][1] = s => 2 * n < LastOf(origin[m][2])
       /\ \A x \in (2 * n + 1)..LastOf(received[s]) : EndsMessage(x) => Waits(s, x)

Whole == AllQueued /\ \A s \in Sessions : WholeOf(s)

-------------------------------------------------------------------------------
\* One more at the end.
LEMMA Appended ==
    ASSUME NEW T, NEW seq \in Seq(T), NEW e \in T
    PROVE  /\ Append(seq, e) \in Seq(T) /\ Len(Append(seq, e)) = Len(seq) + 1
           /\ Len(seq) \in Nat
           /\ \A i \in 1..Len(seq) : i \in 1..(Len(seq) + 1) /\ Append(seq, e)[i] = seq[i]
           /\ \A i \in 1..(Len(seq) + 1) : i \in 1..Len(seq) \/ i = Len(seq) + 1
           /\ Append(seq, e)[Len(seq) + 1] = e
OBVIOUS

\* A number above all those of an increasing sequence goes to its end.
LEMMA IncreasingAppend ==
    ASSUME NEW seq \in Seq(Nat), Increasing(seq), NEW e \in Nat,
           \A i \in 1..Len(seq) : seq[i] < e
    PROVE  Increasing(Append(seq, e))
<1> DEFINE new == Append(seq, e)
<1>1. /\ new \in Seq(Nat) /\ Len(new) = Len(seq) + 1 /\ Len(seq) \in Nat
      /\ \A i \in 1..Len(seq) : new[i] = seq[i]
      /\ \A i \in 1..Len(new) : i \in 1..Len(seq) \/ i = Len(seq) + 1
      /\ new[Len(seq) + 1] = e
      BY Appended
<1> HIDE DEF new
<1>2. ASSUME NEW i \in 1..Len(new), NEW j \in 1..Len(new), i < j PROVE new[i] < new[j]
  <2>1. i \in 1..Len(seq)
    <3>1. j <= Len(seq) + 1 /\ i # Len(seq) + 1  BY <1>1, <1>2
    <3> QED  BY <1>1, <3>1
  <2>2. CASE j \in 1..Len(seq)  BY <1>1, <1>2, <2>1, <2>2 DEF Increasing
  <2>3. CASE j = Len(seq) + 1  BY <1>1, <2>1, <2>3
  <2> QED  BY <1>1, <2>2, <2>3
<1> QED  BY <1>2 DEF Increasing, new

\* And so does the rest of one behind its head.
LEMMA IncreasingTail ==
    ASSUME NEW seq \in Seq(Nat), Increasing(seq), seq # <<>>
    PROVE  /\ Tail(seq) \in Seq(Nat) /\ Len(Tail(seq)) = Len(seq) - 1 /\ Len(seq) \in Nat
           /\ \A i \in 1..Len(Tail(seq)) : i + 1 \in 1..Len(seq) /\ Tail(seq)[i] = seq[i + 1]
           /\ Head(seq) = seq[1] /\ 1 \in 1..Len(seq) /\ Head(seq) \in Nat
           /\ Increasing(Tail(seq))
           /\ \A i \in 1..Len(Tail(seq)) : Head(seq) < Tail(seq)[i]
<1> DEFINE rest == Tail(seq)
<1>1. /\ rest \in Seq(Nat) /\ Len(rest) = Len(seq) - 1 /\ Head(seq) \in Nat
      /\ \A i \in 1..Len(rest) : rest[i] = seq[i + 1]
      BY HeadTailProperties
<1>2. Len(seq) \in Nat /\ Len(seq) # 0  BY EmptyIffLen0
<1>3. Head(seq) = seq[1]  OBVIOUS
<1> HIDE DEF rest
<1>4. \A i \in 1..Len(rest) : i + 1 \in 1..Len(seq) /\ 1 < i + 1  BY <1>1, <1>2
<1>5. 1 \in 1..Len(seq)  BY <1>2
<1>6. Increasing(rest)
  <2>1. \A i, j \in 1..Len(rest) : i < j => i + 1 < j + 1  BY <1>1
  <2> QED  BY <1>1, <1>4, <2>1 DEF Increasing
<1>7. \A i \in 1..Len(rest) : seq[1] < rest[i]  BY <1>1, <1>4, <1>5 DEF Increasing
<1> QED  BY <1>1, <1>2, <1>3, <1>4, <1>5, <1>6, <1>7 DEF rest

\* The last of a sequence of pieces is one, or 0.
LEMMA LastOfPieces ==
    ASSUME NEW pieces \in Seq(Nat)
    PROVE  LastOf(pieces) \in Nat
<1>1. CASE pieces = <<>>  BY <1>1 DEF LastOf
<1>2. CASE pieces # <<>>
  <2>1. Len(pieces) \in 1..Len(pieces)  BY <1>2, EmptyIffLen0
  <2>2. pieces[Len(pieces)] \in Nat  BY <2>1
  <2> QED  BY <1>2, <2>2 DEF LastOf
<1> QED  BY <1>1, <1>2

\* So is the last piece that a handler was given,
LEMMA LastIsNat ==
    ASSUME ReadTypeOK, NEW s \in Sessions
    PROVE  LastOf(received[s]) \in Nat
BY LastOfPieces DEF ReadTypeOK

\* and that of a message pushed.
LEMMA PushedTypes ==
    ASSUME origin \in Seq(Sessions \X Seq(Nat)), NEW m \in 1..Len(origin)
    PROVE  /\ origin[m][1] \in Sessions /\ origin[m][2] \in Seq(Nat)
           /\ LastOf(origin[m][2]) \in Nat
<1>1. origin[m] \in Sessions \X Seq(Nat)  BY ElementOfSeq
<1> QED  BY <1>1, LastOfPieces

\* A message that ends behind all those of a rising sequence goes to its end.
LEMMA RisingAppend ==
    ASSUME NEW seq \in Seq(Seq(Nat)), Rising(seq), NEW e \in Seq(Nat),
           \A i \in 1..Len(seq) : LastOf(seq[i]) < LastOf(e)
    PROVE  Rising(Append(seq, e))
<1> DEFINE new == Append(seq, e)
<1>1. /\ Len(new) = Len(seq) + 1 /\ Len(seq) \in Nat
      /\ \A i \in 1..Len(seq) : new[i] = seq[i]
      /\ \A i \in 1..Len(new) : i \in 1..Len(seq) \/ i = Len(seq) + 1
      /\ new[Len(seq) + 1] = e
      BY Appended
<1> HIDE DEF new
<1>2. ASSUME NEW i \in 1..Len(new), NEW j \in 1..Len(new), i < j
      PROVE  LastOf(new[i]) < LastOf(new[j])
  <2>1. i \in 1..Len(seq)
    <3>1. j <= Len(seq) + 1 /\ i # Len(seq) + 1  BY <1>1, <1>2
    <3> QED  BY <1>1, <3>1
  <2>2. CASE j \in 1..Len(seq)  BY <1>1, <1>2, <2>1, <2>2 DEF Rising
  <2>3. CASE j = Len(seq) + 1  BY <1>1, <2>1, <2>3
  <2> QED  BY <1>1, <2>2, <2>3
<1> QED  BY <1>2 DEF Rising, new

\* The callback pushes what the handler was given.
LEMMA DeliverStep ==
    ASSUME ReadInv, InboxInv, NEW s \in Sessions, Deliver(s)
    PROVE  LET last == LastOf(received'[s])
               f == FirstMessage(readBuffer_[s])
           IN /\ last \in Nat /\ EndsMessage(last) /\ LastOf(received[s]) < last
              /\ f \in Seq(Nat) /\ LastOf(f) = last
              /\ \A t \in Sessions : t # s => received'[t] = received[t]
              /\ origin' = Append(origin, <<s, f>>)
              /\ pushed' = pushed + 1 /\ UNCHANGED <<popped, waiting, polling, got>>
              /\ \/ UNCHANGED <<queue, count>> /\ ~(count < QueueCapacity)
                 \/ queue' = Append(queue, pushed + 1) /\ count' = count + 1
<1> DEFINE all == received[s] \o FirstMessage(readBuffer_[s])
<1>1. ReadOk(s) /\ Messages!Push /\ UNCHANGED got
      /\ origin' = Append(origin, <<s, FirstMessage(readBuffer_[s])>>)
      BY DEF Deliver
<1>2. /\ received[s] \in Seq(Nat) /\ readBuffer_[s] \in Seq(Nat) /\ arrived[s] \in Nat
      /\ Ordered(received[s], readBuffer_[s], arrived[s])
      /\ HasMessage(readBuffer_[s])
      BY <1>1 DEF ReadOk, ReadInv, ReadTypeOK, ReadOf
<1>3. /\ EndsMessage(LastOf(all)) /\ LastOf(all) \in Nat /\ LastOf(received[s]) < LastOf(all)
      /\ FirstMessage(readBuffer_[s]) \in Seq(Nat)
      /\ LastOf(FirstMessage(readBuffer_[s])) = LastOf(all)
      BY <1>2, OrderedAfterHandler
<1>4. received' = [received EXCEPT ![s] = all] /\ received \in [Sessions -> Seq(Nat)]
      BY <1>1 DEF ReadOk, ReadInv, ReadTypeOK
<1> HIDE DEF all
<1>5. received'[s] = all /\ \A t \in Sessions : t # s => received'[t] = received[t]
      BY <1>4
<1>6. /\ pushed' = pushed + 1 /\ UNCHANGED <<popped, waiting, polling>>
      /\ \/ UNCHANGED <<queue, count>> /\ ~(count < QueueCapacity)
         \/ queue' = Append(queue, pushed + 1) /\ count' = count + 1
  <2>1. waiting = {} /\ count \in Nat
        BY EmptyIffLen0 DEF InboxInv, InboxTypeOK
  <2>3. Messages!Full <=> ~(count < QueueCapacity)
        BY <2>1, InboxAssumption DEF Messages!Full
  <2>2. Messages!Notify => UNCHANGED waiting
        BY <2>1 DEF Messages!Notify, Messages!NotifyOne
  <2> QED  BY <1>1, <2>1, <2>2, <2>3
           DEF Messages!Push, Messages!PushRoom, Messages!PushOverOldest,
               Messages!PushDropLatest, Messages!Inserted
<1> QED  BY <1>1, <1>3, <1>5, <1>6

\* What is not about the queue does not concern it.
LEMMA InboxKept ==
    ASSUME InboxInv, UNCHANGED <<inboxVars, received>>
    PROVE  InboxInv'
BY DEF inboxVars, queueVars, InboxInv, InboxTypeOK, OriginOK, QueueOK, GotOK, IsMessage

\* A push: the message is the latest of its session.
LEMMA InboxDelivered ==
    ASSUME ReadInv, InboxInv, NEW s \in Sessions, Deliver(s)
    PROVE  InboxInv'
<1> DEFINE last == LastOf(received'[s])
           f == FirstMessage(readBuffer_[s])
           n == Len(origin)
<1>1. /\ last \in Nat /\ EndsMessage(last) /\ LastOf(received[s]) < last
      /\ \A t \in Sessions : t # s => received'[t] = received[t]
      /\ f \in Seq(Nat) /\ LastOf(f) = last
      /\ origin' = Append(origin, <<s, f>>)
      /\ pushed' = pushed + 1 /\ UNCHANGED <<popped, waiting, polling, got>>
      /\ \/ UNCHANGED <<queue, count>>
         \/ queue' = Append(queue, pushed + 1) /\ count' = count + 1
      BY DeliverStep
<1>2. /\ origin \in Seq(Sessions \X Seq(Nat)) /\ queue \in Seq(Nat) /\ count = Len(queue)
      /\ pushed = n /\ popped \in 0..n
      /\ Increasing(queue)
      /\ \A i \in 1..Len(queue) : popped < queue[i] /\ queue[i] <= n
      BY DEF InboxInv, InboxTypeOK, QueueOK
<1>3. /\ origin' \in Seq(Sessions \X Seq(Nat))
      /\ Len(origin') = n + 1 /\ n \in Nat
      /\ \A m \in 1..n : m \in 1..(n + 1) /\ origin'[m] = origin[m]
      /\ \A m \in 1..(n + 1) : m \in 1..n \/ m = n + 1
      /\ origin'[n + 1] = <<s, f>>
  <2>1. <<s, f>> \in Sessions \X Seq(Nat)  BY <1>1
  <2> QED  BY <1>1, <1>2, <2>1, Appended
<1>4. \A t \in Sessions : LastOf(received[t]) \in Nat /\ LastOf(received[t]) <= LastOf(received'[t])
  <2> TAKE t \in Sessions
  <2>1. LastOf(received[t]) \in Nat  BY LastIsNat DEF ReadInv
  <2>2. CASE t = s  BY <1>1, <2>1, <2>2 DEF last
  <2>3. CASE t # s  BY <1>1, <2>1, <2>3
  <2> QED  BY <2>2, <2>3
<1>5. \A m \in 1..n : origin[m][1] \in Sessions /\ LastOf(origin[m][2]) \in Nat
      BY <1>2, PushedTypes
<1>6. /\ queue' \in Seq(Nat) /\ count' = Len(queue') /\ Increasing(queue')
      /\ \A i \in 1..Len(queue') : popped < queue'[i] /\ queue'[i] <= n + 1
      /\ queue # <<>> => queue' # <<>>
  <2>1. CASE UNCHANGED <<queue, count>>
    <3>1. \A i \in 1..Len(queue) : queue[i] \in Nat  BY <1>2
    <3>2. \A x \in Nat : x <= n => x <= n + 1  BY <1>3
    <3> QED  BY <1>2, <2>1, <3>1, <3>2
  <2>2. CASE queue' = Append(queue, pushed + 1) /\ count' = count + 1
    <3>1. n + 1 \in Nat /\ popped < n + 1  BY <1>2, <1>3
    <3>2. \A i \in 1..Len(queue) : queue[i] < n + 1
      <4>1. \A i \in 1..Len(queue) : queue[i] \in Nat  BY <1>2
      <4> QED  BY <1>2, <1>3, <4>1
    <3>3. queue' = Append(queue, n + 1)  BY <1>2, <2>2
    <3> HIDE DEF n
    <3>4. Increasing(queue')  BY <1>2, <3>1, <3>2, <3>3, IncreasingAppend
    <3>5. /\ queue' \in Seq(Nat) /\ Len(queue') = Len(queue) + 1 /\ Len(queue) \in Nat
          /\ \A i \in 1..Len(queue) : queue'[i] = queue[i]
          /\ \A i \in 1..(Len(queue) + 1) : i \in 1..Len(queue) \/ i = Len(queue) + 1
          /\ queue'[Len(queue) + 1] = n + 1
          BY <1>2, <3>1, <3>3, Appended
    <3>6. ASSUME NEW i \in 1..Len(queue') PROVE popped < queue'[i] /\ queue'[i] <= n + 1
      <4>1. CASE i \in 1..Len(queue)
        <5>1. queue[i] \in Nat  BY <1>2, <4>1
        <5> QED  BY <1>2, <3>1, <3>2, <3>5, <4>1, <5>1
      <4>2. CASE i = Len(queue) + 1  BY <3>1, <3>5, <4>2
      <4> QED  BY <3>5, <3>6, <4>1, <4>2
    <3>7. queue' # <<>>  BY <3>5, EmptyIffLen0
    <3> QED  BY <1>2, <2>2, <3>4, <3>5, <3>6, <3>7
  <2> QED  BY <1>1, <2>1, <2>2
<1> HIDE DEF last, f
<1>7. InboxTypeOK'
  <2>1. pushed' = Len(origin') /\ popped' \in 0..Len(origin')  BY <1>1, <1>2, <1>3
  <2> QED  BY <1>1, <1>3, <1>6, <2>1 DEF InboxInv, InboxTypeOK
<1>8. QueueOK'  BY <1>1, <1>3, <1>6 DEF QueueOK
<1>9. OriginOK'
  <2>1. ASSUME NEW m \in 1..Len(origin')
        PROVE  EndsMessage(LastOf(origin'[m][2])) /\ LastOf(origin'[m][2]) <= LastOf(received'[origin'[m][1]])
    <3>1. CASE m \in 1..n
      <4>1. origin[m][1] \in Sessions /\ LastOf(origin[m][2]) \in Nat  BY <1>5, <3>1
      <4>2. LastOf(origin[m][2]) <= LastOf(received[origin[m][1]]) /\ EndsMessage(LastOf(origin[m][2]))
            BY <3>1 DEF InboxInv, OriginOK
      <4>3. LastOf(received'[origin[m][1]]) \in Nat
        <5>1. CASE origin[m][1] = s  BY <1>1, <5>1 DEF last
        <5>2. CASE origin[m][1] # s  BY <1>1, <1>4, <4>1, <5>2
        <5> QED  BY <5>1, <5>2
      <4>4. \A x, y, z \in Nat : x <= y /\ y <= z => x <= z  OBVIOUS
      <4>5. origin'[m] = origin[m]  BY <1>3, <3>1
      <4>6. LastOf(origin[m][2]) <= LastOf(received'[origin[m][1]])
            BY <1>4, <4>1, <4>2, <4>3, <4>4
      <4> QED  BY <4>2, <4>5, <4>6
    <3>2. CASE m = n + 1  BY <1>1, <1>3, <3>2 DEF last
    <3> QED  BY <1>3, <3>1, <3>2
  <2>2. ASSUME NEW m \in 1..Len(origin'), NEW k \in 1..Len(origin'),
               m < k, origin'[m][1] = origin'[k][1]
        PROVE  LastOf(origin'[m][2]) < LastOf(origin'[k][2])
    <3>1. m \in 1..n  BY <1>3, <2>2
    <3>2. CASE k \in 1..n  BY <1>3, <2>2, <3>1, <3>2 DEF InboxInv, OriginOK
    <3>3. CASE k = n + 1
      <4>1. origin[m][1] = s /\ LastOf(origin'[k][2]) = last
            BY <1>1, <1>3, <2>2, <3>1, <3>3
      <4>2. LastOf(origin[m][2]) <= LastOf(received[s])  BY <3>1, <4>1 DEF InboxInv, OriginOK
      <4>3. LastOf(origin[m][2]) \in Nat  BY <1>5, <3>1
      <4>4. \A x, y, z \in Nat : x <= y /\ y < z => x < z  OBVIOUS
      <4> QED  BY <1>1, <1>3, <1>4, <3>1, <4>1, <4>2, <4>3, <4>4
    <3> QED  BY <1>3, <3>2, <3>3
  <2> QED  BY <2>1, <2>2 DEF OriginOK
<1>10. GotOK'
  <2>1. ASSUME NEW t \in Sessions, NEW i \in 1..Len(got[t])
        PROVE  \E m \in 1..(n + 1) : m <= popped /\ IsMessage(origin', m, t, got[t][i])
    <3>1. PICK m \in 1..n : m <= popped /\ IsMessage(origin, m, t, got[t][i])
          BY DEF InboxInv, GotOK
    <3>2. m \in 1..(n + 1) /\ origin'[m] = origin[m]  BY <1>3
    <3> QED  BY <3>1, <3>2 DEF IsMessage
  <2> QED  BY <1>1, <1>3, <2>1 DEF InboxInv, GotOK
<1> QED  BY <1>7, <1>8, <1>9, <1>10 DEF InboxInv

\* empty() has said that there is a message.
LEMMA InboxLooked ==
    ASSUME InboxInv, LookInside, UNCHANGED received
    PROVE  InboxInv'
<1>1. /\ polling' = [polling EXCEPT ![app] = "checked"] /\ count # 0
      /\ UNCHANGED <<queue, count, waiting, pushed, popped, origin, got>>
      BY DEF LookInside, Messages!Empty, Messages!SeenNonEmpty
<1>2. queue # <<>>  BY <1>1, EmptyIffLen0 DEF InboxInv, InboxTypeOK
<1> QED  BY <1>1, <1>2 DEF InboxInv, InboxTypeOK, OriginOK, QueueOK, GotOK, IsMessage

\* pop() then takes the head: app gets it from the session it came from.
LEMMA TakeStep ==
    ASSUME InboxInv, TakeOut
    PROVE  LET h == Head(queue)
           IN /\ queue # <<>> /\ queue' = Tail(queue) /\ count' = count - 1
              /\ popped' = h /\ h # popped /\ h \in 1..Len(origin)
              /\ polling' = [polling EXCEPT ![app] = "idle"]
              /\ UNCHANGED <<waiting, pushed, origin>>
              /\ got' = [got EXCEPT ![origin[h][1]] = Append(@, origin[h][2])]
<1>1. polling[app] # "idle" /\ Messages!Pop(app)  BY DEF TakeOut
<1>2. queue # <<>> /\ count \in Nat /\ count # 0
      BY <1>1, EmptyIffLen0 DEF InboxInv, InboxTypeOK
<1>3. /\ queue' = Tail(queue) /\ count' = count - 1 /\ popped' = Head(queue)
      /\ polling' = [polling EXCEPT ![app] = "idle"] /\ UNCHANGED <<waiting, pushed>>
      BY <1>1, <1>2 DEF Messages!Pop, Messages!Take, Messages!Wait, Messages!Ready
<1>4. Head(queue) # popped /\ Head(queue) \in 1..Len(origin)
  <2>1. Head(queue) = queue[1] /\ 1 \in 1..Len(queue) /\ Head(queue) \in Nat
        BY <1>2, IncreasingTail DEF InboxInv, InboxTypeOK, QueueOK
  <2>2. popped < queue[1] /\ queue[1] <= Len(origin) /\ popped \in 0..Len(origin)
        /\ Len(origin) \in Nat
        BY <2>1 DEF InboxInv, InboxTypeOK, QueueOK
  <2> QED  BY <2>1, <2>2
<1> QED  BY <1>2, <1>3, <1>4 DEF TakeOut

\* What app gets comes behind all it has got of the same session.
LEMMA InboxTaken ==
    ASSUME InboxInv, TakeOut, UNCHANGED received
    PROVE  InboxInv'
<1> DEFINE h == Head(queue)
           s == origin[h][1]
           x == origin[h][2]
<1>1. /\ queue # <<>> /\ queue' = Tail(queue) /\ count' = count - 1
      /\ popped' = h /\ h # popped /\ h \in 1..Len(origin)
      /\ polling' = [polling EXCEPT ![app] = "idle"]
      /\ UNCHANGED <<waiting, pushed, origin>>
      /\ got' = [got EXCEPT ![s] = Append(got[s], x)]
      BY TakeStep
<1>2. /\ origin \in Seq(Sessions \X Seq(Nat)) /\ queue \in Seq(Nat) /\ count = Len(queue)
      /\ popped \in 0..Len(origin) /\ Len(origin) \in Nat
      /\ Increasing(queue)
      /\ \A i \in 1..Len(queue) : popped < queue[i] /\ queue[i] <= Len(origin)
      /\ got \in [Sessions -> Seq(Seq(Nat))]
      BY DEF InboxInv, InboxTypeOK, QueueOK
<1>3. /\ queue' \in Seq(Nat) /\ Len(queue') = Len(queue) - 1 /\ Len(queue) \in Nat
      /\ \A i \in 1..Len(queue') : i + 1 \in 1..Len(queue) /\ queue'[i] = queue[i + 1]
      /\ h = queue[1] /\ 1 \in 1..Len(queue) /\ h \in Nat
      /\ Increasing(queue')
      /\ \A i \in 1..Len(queue') : h < queue'[i]
      BY <1>1, <1>2, IncreasingTail
<1>4. s \in Sessions /\ x \in Seq(Nat)  BY <1>1, <1>2, PushedTypes
<1>5. popped < h  BY <1>2, <1>3
<1> HIDE DEF h
<1>6. QueueOK'
  <2>1. \A i \in 1..Len(queue') : queue'[i] <= Len(origin)  BY <1>2, <1>3
  <2> QED  BY <1>1, <1>3, <2>1 DEF QueueOK
<1>7. /\ got' \in [Sessions -> Seq(Seq(Nat))] /\ got'[s] = Append(got[s], x)
      /\ \A t \in Sessions : t # s => got'[t] = got[t]
      /\ got[s] \in Seq(Seq(Nat))
  <2>1. Append(got[s], x) \in Seq(Seq(Nat))  BY <1>2, <1>4, Appended
  <2> QED  BY <1>1, <1>2, <1>4, <2>1
<1>8. \A t \in Sessions : \A i \in 1..Len(got[t]) :
         \E m \in 1..Len(origin) : m <= popped /\ IsMessage(origin, m, t, got[t][i])
      BY DEF InboxInv, GotOK
<1>9. GotOK'
  <2>1. ASSUME NEW t \in Sessions
        PROVE  /\ Rising(got'[t])
               /\ \A i \in 1..Len(got'[t]) :
                     \E m \in 1..Len(origin) : m <= h /\ IsMessage(origin, m, t, got'[t][i])
    <3>1. ASSUME NEW i \in 1..Len(got[t])
          PROVE  \E m \in 1..Len(origin) : m < h /\ IsMessage(origin, m, t, got[t][i])
      <4>1. PICK m \in 1..Len(origin) : m <= popped /\ IsMessage(origin, m, t, got[t][i])
            BY <1>8
      <4>2. m < h  BY <1>2, <1>3, <1>5, <4>1
      <4> QED  BY <4>1, <4>2
    <3>2. \A m \in 1..Len(origin) : m < h => m <= h  BY <1>3
    <3>3. CASE t # s
      <4>1. Rising(got[t])  BY DEF InboxInv, GotOK
      <4> QED  BY <1>7, <3>1, <3>2, <3>3, <4>1
    <3>4. CASE t = s
      <4>1. \A i \in 1..Len(got[s]) : LastOf(got[s][i]) < LastOf(x)
        <5> TAKE i \in 1..Len(got[s])
        <5>1. PICK m \in 1..Len(origin) : m < h /\ IsMessage(origin, m, s, got[s][i])
              BY <3>1, <3>4
        <5>2. origin[m][1] = origin[h][1] /\ origin[m][2] = got[s][i]
              BY <5>1 DEF IsMessage
        <5> QED  BY <1>1, <5>1, <5>2 DEF InboxInv, OriginOK
      <4>2. Rising(got[s])  BY <1>4 DEF InboxInv, GotOK
      <4>5. h <= h /\ IsMessage(origin, h, s, x)  BY <1>3 DEF IsMessage
      <4> HIDE DEF s, x
      <4>3. /\ Len(Append(got[s], x)) = Len(got[s]) + 1
            /\ \A i \in 1..Len(got[s]) : Append(got[s], x)[i] = got[s][i]
            /\ \A i \in 1..(Len(got[s]) + 1) : i \in 1..Len(got[s]) \/ i = Len(got[s]) + 1
            /\ Append(got[s], x)[Len(got[s]) + 1] = x
            BY <1>4, <1>7, Appended
      <4>4. Rising(Append(got[s], x))
            BY <1>4, <1>7, <4>1, <4>2, RisingAppend
      <4>6. ASSUME NEW i \in 1..Len(got'[t])
            PROVE  \E m \in 1..Len(origin) : m <= h /\ IsMessage(origin, m, t, got'[t][i])
        <5>1. CASE i \in 1..Len(got[s])  BY <1>7, <3>1, <3>2, <3>4, <4>3, <5>1
        <5>2. CASE i = Len(got[s]) + 1  BY <1>1, <1>7, <3>4, <4>3, <4>5, <5>2
        <5> QED  BY <1>7, <3>4, <4>3, <4>6, <5>1, <5>2
      <4> QED  BY <1>7, <3>4, <4>4, <4>6
    <3> QED  BY <3>3, <3>4
  <2> QED  BY <1>1, <2>1 DEF GotOK
<1>10. InboxTypeOK'
  <2>1. h \in 0..Len(origin) /\ count' = Len(queue')  BY <1>1, <1>2, <1>3
  <2>2. polling' \in [{app} -> {"idle", "checked"}] /\ polling'[app] = "idle"
        BY <1>1 DEF InboxInv, InboxTypeOK
  <2> QED  BY <1>1, <1>3, <1>7, <2>1, <2>2 DEF InboxInv, InboxTypeOK
<1>11. OriginOK'  BY <1>1 DEF InboxInv, OriginOK
<1> QED  BY <1>6, <1>9, <1>10, <1>11 DEF InboxInv

\* Only the handler of a read adds to what was received.
LEMMA ReceivesNothing ==
    ASSUME NEW s,
           Network(s) \/ Peer(s) \/ User(s) \/ Expire(s) \/ ReadError(s) \/ AsyncWrite(s)
    PROVE  UNCHANGED received
<1>1. CASE Network(s)
      BY <1>1 DEF Network, ReadSome, ReadFails, Transmit, WriteFails, Completed, readVars
<1>2. CASE Peer(s) \/ User(s) \/ Expire(s)
      BY <1>2 DEF Peer, PeerSend, PeerClose, User, Start, SentData, Close, Expire, readVars
<1>3. CASE ReadError(s) \/ AsyncWrite(s)
      BY <1>3 DEF ReadError, AsyncWrite, readVars
<1> QED  BY <1>1, <1>2, <1>3

\* The queue moves with a read handler, by itself, or not at all.
InboxMove == \/ UNCHANGED <<inboxVars, received>>
             \/ \E s \in Sessions : Deliver(s)
             \/ (LookInside \/ TakeOut) /\ UNCHANGED received

\* Pushing, looking and taking keep the invariant of the queue.
LEMMA InboxStep == ASSUME ReadInv, InboxInv, InboxMove PROVE InboxInv'
BY InboxKept, InboxDelivered, InboxLooked, InboxTaken DEF InboxMove

\* Nothing has been pushed at first.
LEMMA InboxStarts == ASSUME InboxInit PROVE InboxInv
<1>1. /\ queue = <<>> /\ count = 0 /\ waiting = {} /\ pushed = 0 /\ popped = 0
      /\ polling = [c \in {app} |-> "idle"]
      /\ origin = <<>> /\ got = [s \in Sessions |-> <<>>]
      BY DEF InboxInit, Messages!Init
<1>2. Len(<<>>) = 0 /\ 1..Len(<<>>) = {}  OBVIOUS
<1>3. InboxTypeOK
  <2>1. polling \in [{app} -> {"idle", "checked"}] /\ polling[app] = "idle"  BY <1>1
  <2>2. got \in [Sessions -> Seq(Seq(Nat))]  BY <1>1
  <2> QED  BY <1>1, <1>2, <2>1, <2>2 DEF InboxTypeOK
<1>4. OriginOK /\ QueueOK /\ GotOK
      BY <1>1, <1>2 DEF OriginOK, QueueOK, GotOK, Increasing, Rising
<1> QED  BY <1>3, <1>4 DEF InboxInv

\* The invariant implies the order of what app gets.
LEMMA InvReturns == ASSUME ReadInv, InboxInv, Paced => Unbroken PROVE ReturnedInOrder
<1> SUFFICES ASSUME NEW s \in Sessions
             PROVE  /\ GotInOrder(s)
                    /\ \A m \in {got[s][i] : i \in 1..Len(got[s])}
                                \cup {Message(i) : i \in QueuedOf(s)} :
                          /\ EndsMessage(LastOf(m)) /\ LastOf(m) <= LastOf(received[s])
                          /\ Paced => m = WholeMessage(LastOf(m))
    BY DEF ReturnedInOrder
<1>1. /\ origin \in Seq(Sessions \X Seq(Nat)) /\ queue \in Seq(Nat)
      /\ popped \in 0..Len(origin) /\ Len(origin) \in Nat
      /\ Increasing(queue)
      /\ \A i \in 1..Len(queue) : popped < queue[i] /\ queue[i] <= Len(origin)
      BY DEF InboxInv, InboxTypeOK, QueueOK
<1>2. \A i \in 1..Len(queue) : queue[i] \in 1..Len(origin) /\ popped < queue[i]
  <2>1. \A i \in 1..Len(queue) : queue[i] \in Nat  BY <1>1
  <2> QED  BY <1>1, <2>1
<1>3. \A m, k \in 1..Len(origin) : m < k /\ origin[m][1] = s /\ origin[k][1] = s
                                   => LastOf(origin[m][2]) < LastOf(origin[k][2])
      BY DEF InboxInv, OriginOK
<1>4. \A m \in 1..Len(origin) : origin[m][1] = s
          => /\ EndsMessage(LastOf(origin[m][2])) /\ LastOf(origin[m][2]) <= LastOf(received[s])
             /\ Paced => origin[m][2] = WholeMessage(LastOf(origin[m][2]))
      BY DEF InboxInv, OriginOK, Unbroken
<1>5. \A i \in 1..Len(got[s]) :
         \E m \in 1..Len(origin) : m <= popped /\ IsMessage(origin, m, s, got[s][i])
      BY DEF InboxInv, GotOK
<1>6. \A i \in QueuedOf(s) :
         /\ i \in 1..Len(queue) /\ queue[i] \in 1..Len(origin) /\ popped < queue[i]
         /\ origin[queue[i]][1] = s /\ Message(i) = origin[queue[i]][2]
      BY <1>2 DEF QueuedOf, Message
<1>7. ASSUME NEW i \in 1..Len(got[s]), NEW j \in QueuedOf(s)
      PROVE  LastOf(got[s][i]) < LastOf(Message(j))
  <2>1. PICK m \in 1..Len(origin) : m <= popped /\ IsMessage(origin, m, s, got[s][i])
        BY <1>5
  <2>2. m < queue[j]  BY <1>1, <1>6, <2>1
  <2> QED  BY <1>3, <1>6, <2>1, <2>2 DEF IsMessage
<1>8. ASSUME NEW i \in QueuedOf(s), NEW j \in QueuedOf(s), i < j
      PROVE  LastOf(Message(i)) < LastOf(Message(j))
  <2>1. queue[i] < queue[j]  BY <1>1, <1>6, <1>8 DEF Increasing
  <2> QED  BY <1>3, <1>6, <2>1
<1>9. GotInOrder(s)  BY <1>7, <1>8 DEF GotInOrder, InboxInv, GotOK, Rising
<1>10. \A i \in 1..Len(got[s]) :
          /\ EndsMessage(LastOf(got[s][i])) /\ LastOf(got[s][i]) <= LastOf(received[s])
          /\ Paced => got[s][i] = WholeMessage(LastOf(got[s][i]))
       BY <1>4, <1>5 DEF IsMessage
<1>11. \A i \in QueuedOf(s) :
          /\ EndsMessage(LastOf(Message(i))) /\ LastOf(Message(i)) <= LastOf(received[s])
          /\ Paced => Message(i) = WholeMessage(LastOf(Message(i)))
       BY <1>4, <1>6
<1> QED  BY <1>9, <1>10, <1>11

-------------------------------------------------------------------------------
(* With peers that wait, and a queue that no push finds full, app gets all.   *)

\* A paced message is the next two pieces.
LEMMA PacedHandled ==
    ASSUME ReadInv, PacedInv, NEW s \in Sessions, ReadOk(s)
    PROVE  LastOf(received'[s]) = LastOf(received[s]) + 2
<1> DEFINE p == received[s]
           f == FirstMessage(readBuffer_[s])
           r == Len(p)
<1>1. PacedOf(s) /\ reading[s] = "ok"  BY DEF PacedInv, ReadOk
<1>2. f \in Seq(Nat) /\ Len(f) = 2 /\ Consecutive(f, r)  BY <1>1, WholeBuffer
<1>3. p \in Seq(Nat) /\ Consecutive(p, 0)
      BY <1>1 DEF ReadInv, ReadTypeOK, PacedOf
<1>4. received'[s] = p \o f  BY DEF ReadOk, ReadInv, ReadTypeOK
<1> HIDE DEF p, f
<1>5. r \in Nat  BY <1>3
<1>6. Consecutive(f, 0 + r)  BY <1>2, <1>5
<1>7. p \o f \in Seq(Nat) /\ Len(p \o f) = r + 2 /\ Consecutive(p \o f, 0)
      BY <1>2, <1>3, <1>6, RunOn
<1>8. LastOf(p \o f) = r + 2  BY <1>7, LastIsLength
<1>9. LastOf(p) = r  BY <1>3, LastIsLength
<1> QED  BY <1>4, <1>8, <1>9 DEF p

\* So no message loses its head: what is pushed is all of it.
LEMMA UnbrokenStep ==
    ASSUME ReadInv, PacedInv, InboxInv, Unbroken, InboxMove
    PROVE  Unbroken'
<1>1. ASSUME NEW s \in Sessions, Deliver(s) PROVE Unbroken'
  <2> DEFINE f == FirstMessage(readBuffer_[s])
             r == Len(received[s])
             n == Len(origin)
  <2>1. PacedOf(s) /\ reading[s] = "ok"  BY <1>1 DEF PacedInv, Deliver, ReadOk
  <2>2. f \in Seq(Nat) /\ Len(f) = 2 /\ Consecutive(f, r)  BY <2>1, WholeBuffer
  <2>3. origin' = Append(origin, <<s, f>>)  BY <1>1, DeliverStep
  <2>4. origin \in Seq(Sessions \X Seq(Nat))  BY DEF InboxInv, InboxTypeOK
  <2>5. r \in Nat  BY LenProperties DEF ReadInv, ReadTypeOK
  <2> HIDE DEF f, r
  <2>6. f = WholeMessage(LastOf(f))
    <3>1. f[1] = r + 1 /\ f[2] = r + 2  BY <2>2 DEF Consecutive
    <3>2. f # <<>>
      <4>1. f \in Seq(Nat) /\ Len(f) # 0  BY <2>2
      <4> QED  BY <4>1, EmptyIffLen0
    <3>3. LastOf(f) = r + 2  BY <2>2, <3>1, <3>2 DEF LastOf
    <3>4. f = <<r + 1, r + 2>>  BY <2>2, <3>1
    <3>5. WholeMessage(r + 2) = <<r + 1, r + 2>>
      <4>1. (r + 2) - 1 = r + 1  BY <2>5
      <4>2. WholeMessage(r + 2) = <<(r + 2) - 1, r + 2>>  BY DEF WholeMessage
      <4> QED  BY <4>1, <4>2
    <3> QED  BY <3>3, <3>4, <3>5
  <2>7. /\ Len(origin') = n + 1
        /\ \A m \in 1..n : origin'[m] = origin[m]
        /\ \A m \in 1..(n + 1) : m \in 1..n \/ m = n + 1
        /\ origin'[n + 1] = <<s, f>>
    <3>1. <<s, f>> \in Sessions \X Seq(Nat)  BY <2>2
    <3> QED  BY <2>3, <2>4, <3>1, Appended
  <2> HIDE DEF n
  <2>8. ASSUME NEW m \in 1..(n + 1) PROVE origin'[m][2] = WholeMessage(LastOf(origin'[m][2]))
    <3>1. CASE m \in 1..n  BY <2>7, <3>1 DEF Unbroken, n
    <3>2. CASE m = n + 1
      <4>1. origin'[m][2] = f  BY <2>7, <3>2
      <4> QED  BY <2>6, <4>1
    <3> QED  BY <2>7, <3>1, <3>2
  <2> QED  BY <2>7, <2>8 DEF Unbroken
<1>2. CASE UNCHANGED origin  BY <1>2 DEF Unbroken
<1> QED  BY <1>1, <1>2 DEF InboxMove, inboxVars, LookInside, TakeOut

\* Nothing has been pushed at first.
LEMMA UnbrokenStarts == ASSUME InboxInit PROVE Unbroken
<1>1. origin = <<>>  BY DEF InboxInit
<1>2. 1..Len(<<>>) = {}  OBVIOUS
<1> QED  BY <1>1, <1>2 DEF Unbroken

\* A push then queues the next message of its session.
LEMMA WholeDelivered ==
    ASSUME ReadInv, PacedInv, InboxInv, Whole, NEW s \in Sessions, Deliver(s),
           count < QueueCapacity
    PROVE  Whole'
<1>0. PICK last \in Nat : last = LastOf(received[s])  BY LastIsNat DEF ReadInv
<1> DEFINE n == Len(origin)
           f == FirstMessage(readBuffer_[s])
<1>1. LastOf(received'[s]) = last + 2 /\ EndsMessage(last)
      BY <1>0, PacedHandled DEF Deliver, ReadInv, ReadOf
<1>2. /\ \A t \in Sessions : t # s => received'[t] = received[t]
      /\ f \in Seq(Nat) /\ LastOf(f) = last + 2
      /\ origin' = Append(origin, <<s, f>>)
      /\ UNCHANGED <<popped, got>>
      /\ queue' = Append(queue, n + 1)
      BY <1>1, DeliverStep DEF InboxInv, InboxTypeOK
<1>3. /\ origin \in Seq(Sessions \X Seq(Nat)) /\ queue \in Seq(Nat) /\ popped \in 0..n
      /\ got \in [Sessions -> Seq(Seq(Nat))]
      /\ Len(queue) = n - popped /\ \A i \in 1..Len(queue) : queue[i] = popped + i
      BY DEF InboxInv, InboxTypeOK, Whole, AllQueued
<1>4. /\ Len(origin') = n + 1 /\ n \in Nat
      /\ \A m \in 1..n : origin'[m] = origin[m]
      /\ origin'[n + 1] = <<s, f>>
  <2>1. <<s, f>> \in Sessions \X Seq(Nat)  BY <1>2
  <2> QED  BY <1>2, <1>3, <2>1, Appended
<1> HIDE DEF n, f
<1>5. AllQueued'
  <2>1. n + 1 \in Nat  BY <1>4
  <2>2. /\ Len(queue') = Len(queue) + 1 /\ Len(queue) \in Nat
        /\ \A i \in 1..Len(queue) : queue'[i] = queue[i]
        /\ \A i \in 1..(Len(queue) + 1) : i \in 1..Len(queue) \/ i = Len(queue) + 1
        /\ queue'[Len(queue) + 1] = n + 1
    <3>1. queue' = Append(queue, n + 1) /\ queue \in Seq(Nat)  BY <1>2, <1>3
    <3> QED  BY <2>1, <3>1, Appended
  <2>3. Len(queue') = n + 1 - popped /\ n + 1 = popped + (Len(queue) + 1)
        BY <1>3, <1>4, <2>2
  <2>4. \A i \in 1..Len(queue') : queue'[i] = popped + i
        BY <1>3, <2>2, <2>3
  <2>5. popped' = popped /\ Len(origin') = n + 1  BY <1>2, <1>4
  <2>6. Len(queue') = Len(origin') - popped'  BY <1>3, <1>4, <2>3, <2>5
  <2>7. \A i \in 1..Len(queue') : queue'[i] = popped' + i  BY <2>4, <2>5
  <2> QED  BY <2>6, <2>7 DEF AllQueued
<1>6. \A m \in (popped + 1)..(n + 1) : m = n + 1 \/ m \in (popped + 1)..n
      BY <1>3, <1>4
<1>7. \A m \in (popped + 1)..n : m \in 1..n /\ m \in (popped + 1)..(n + 1)
      BY <1>3, <1>4
<1>8. n + 1 \in (popped + 1)..(n + 1)  BY <1>3, <1>4
<1>9. \A t \in Sessions : \A x : Waits(t, x) => Waits(t, x)'
      BY <1>2, <1>4, <1>7 DEF Waits, n
<1>10. ASSUME NEW t \in Sessions PROVE WholeOf(t)'
  <2> DEFINE k == Len(got[t])
  <2>1. /\ k \in Nat /\ got'[t] = got[t]
        /\ \A i \in 1..k : LastOf(got[t][i]) = 2 * i
        /\ 2 * k <= LastOf(received[t])
        /\ \A m \in (popped + 1)..n : origin[m][1] = t => 2 * k < LastOf(origin[m][2])
        /\ \A x \in (2 * k + 1)..LastOf(received[t]) : EndsMessage(x) => Waits(t, x)
        BY <1>2, <1>3 DEF Whole, WholeOf, n
  <2>2. CASE t # s
    <3>1. \A m \in (popped + 1)..(n + 1) : origin'[m][1] = t => 2 * k < LastOf(origin'[m][2])
          BY <1>4, <1>6, <1>7, <2>1, <2>2
    <3> QED  BY <1>2, <1>4, <1>9, <2>1, <2>2, <3>1 DEF WholeOf
  <2>3. CASE t = s
    <3> HIDE DEF k
    <3>1. 2 * k <= last + 2 /\ 2 * k < last + 2
          BY <1>0, <1>1, <2>1, <2>3
    <3>2. \A m \in (popped + 1)..(n + 1) : origin'[m][1] = t => 2 * k < LastOf(origin'[m][2])
          BY <1>2, <1>4, <1>6, <1>7, <2>1, <3>1
    <3>3. Waits(s, last + 2)'
      <4>1. origin'[n + 1][1] = s /\ LastOf(origin'[n + 1][2]) = last + 2  BY <1>2, <1>4
      <4>2. popped' = popped /\ Len(origin') = n + 1  BY <1>2, <1>4
      <4> QED  BY <1>8, <4>1, <4>2 DEF Waits
    <3>4. ASSUME NEW x \in (2 * k + 1)..(last + 2), EndsMessage(x) PROVE Waits(s, x)'
      <4>1. CASE x \in (2 * k + 1)..last  BY <1>0, <1>9, <2>1, <2>3, <3>4, <4>1
      <4>2. x # last + 1  BY <1>1, <3>4, NextEnd
      <4>3. CASE x = last + 2  BY <3>3, <4>3
      <4>4. x \in (2 * k + 1)..last \/ x = last + 2
            BY <1>1, <2>1, <3>4, <4>2
      <4> QED  BY <4>1, <4>3, <4>4
    <3> QED  BY <1>0, <1>1, <1>2, <1>4, <2>1, <2>3, <3>1, <3>2, <3>4 DEF WholeOf, k
  <2> QED  BY <2>2, <2>3
<1> QED  BY <1>5, <1>10 DEF Whole

\* The messages of a session that wait come one after another.
LEMMA NextIsHead ==
    ASSUME ReadInv, InboxInv, Whole, queue # <<>>
    PROVE  LET h == Head(queue)
           IN /\ h = popped + 1 /\ h \in 1..Len(origin) /\ popped \in Nat
              /\ origin[h][1] \in Sessions
              /\ LastOf(origin[h][2]) = 2 * (Len(got[origin[h][1]]) + 1)
              /\ \A m \in (h + 1)..Len(origin) :
                    origin[m][1] = origin[h][1] => LastOf(origin[h][2]) < LastOf(origin[m][2])
<1> DEFINE h == Head(queue)
           s == origin[h][1]
           x == LastOf(origin[h][2])
           k == Len(got[s])
<1>1. /\ origin \in Seq(Sessions \X Seq(Nat)) /\ queue \in Seq(Nat)
      /\ popped \in 0..Len(origin) /\ Len(origin) \in Nat
      /\ got \in [Sessions -> Seq(Seq(Nat))]
      /\ Len(queue) = Len(origin) - popped
      /\ \A i \in 1..Len(queue) : queue[i] = popped + i
      /\ Increasing(queue)
      BY DEF InboxInv, InboxTypeOK, QueueOK, Whole, AllQueued
<1>2. h = queue[1] /\ 1 \in 1..Len(queue) /\ Len(queue) \in Nat
      BY <1>1, IncreasingTail
<1>3. h = popped + 1  BY <1>1, <1>2
<1> HIDE DEF h
<1>4. h \in 1..Len(origin) /\ h \in (popped + 1)..Len(origin) /\ h \in Nat
      BY <1>1, <1>2, <1>3
<1>5. s \in Sessions /\ x \in Nat  BY <1>1, <1>4, PushedTypes
<1>6. \A m \in (h + 1)..Len(origin) : origin[m][1] = s => x < LastOf(origin[m][2])
  <2>1. \A m \in (h + 1)..Len(origin) : m \in 1..Len(origin) /\ h < m  BY <1>1, <1>4
  <2> QED  BY <1>4, <2>1 DEF InboxInv, OriginOK
<1>7. EndsMessage(x) /\ x <= LastOf(received[s])  BY <1>4 DEF InboxInv, OriginOK
<1>8. /\ k \in Nat /\ 2 * k < x
      /\ \A y \in (2 * k + 1)..LastOf(received[s]) : EndsMessage(y) => Waits(s, y)
  <2>1. WholeOf(s) /\ got[s] \in Seq(Seq(Nat))  BY <1>1, <1>5 DEF Whole
  <2> QED  BY <1>4, <2>1 DEF WholeOf
<1>9. \A m \in (popped + 1)..Len(origin) : m = h \/ m \in (h + 1)..Len(origin)
      BY <1>1, <1>3
<1>10. ASSUME NEW y \in Nat, Waits(s, y) PROVE x <= y
  <2>1. PICK m \in (popped + 1)..Len(origin) : origin[m][1] = s /\ LastOf(origin[m][2]) = y
        BY <1>10 DEF Waits
  <2>2. CASE m = h  BY <1>5, <2>1, <2>2
  <2>3. CASE m \in (h + 1)..Len(origin)
    <3>1. x < y  BY <1>6, <2>1, <2>3
    <3> QED  BY <1>5, <3>1
  <2> QED  BY <1>9, <2>2, <2>3
<1> HIDE DEF x, k, s
<1>11. EndsMessage(2 * k + 2) /\ 2 * k + 2 \in Nat /\ x # 2 * k + 1
       BY <1>7, <1>8 DEF EndsMessage
<1>12. x = 2 * k + 2
  <2>1. x >= 2 * k + 2  BY <1>5, <1>8, <1>11
  <2>2. SUFFICES ASSUME x > 2 * k + 2 PROVE FALSE  BY <1>5, <1>8, <2>1
  <2>3. LastOf(received[s]) \in Nat  BY <1>5, LastIsNat DEF ReadInv
  <2>4. 2 * k + 2 \in (2 * k + 1)..LastOf(received[s])
        BY <1>5, <1>7, <1>8, <2>2, <2>3
  <2>5. x <= 2 * k + 2  BY <1>8, <1>10, <1>11, <2>4
  <2> QED  BY <1>5, <1>8, <2>2, <2>5
<1>13. x = 2 * (k + 1) /\ popped \in Nat  BY <1>1, <1>8, <1>12
<1> QED  BY <1>3, <1>4, <1>5, <1>6, <1>13 DEF x, k, s, h

\* app then gets the next message of its session.
LEMMA WholeTaken ==
    ASSUME ReadInv, InboxInv, Whole, TakeOut, UNCHANGED received
    PROVE  Whole'
<1> DEFINE h == Head(queue)
           s == origin[h][1]
           f == origin[h][2]
           x == LastOf(f)
           k == Len(got[s])
<1>1. /\ queue # <<>> /\ queue' = Tail(queue) /\ popped' = h /\ UNCHANGED origin
      /\ got' = [got EXCEPT ![s] = Append(got[s], f)]
      BY TakeStep
<1>2. /\ h = popped + 1 /\ h \in 1..Len(origin) /\ popped \in Nat
      /\ s \in Sessions /\ x = 2 * (k + 1)
      /\ \A m \in (h + 1)..Len(origin) : origin[m][1] = s => x < LastOf(origin[m][2])
      BY <1>1, NextIsHead
<1>3. /\ queue \in Seq(Nat) /\ Len(origin) \in Nat /\ got \in [Sessions -> Seq(Seq(Nat))]
      /\ Len(queue) = Len(origin) - popped
      /\ \A i \in 1..Len(queue) : queue[i] = popped + i
      /\ Increasing(queue)
      BY EmptyIffLen0 DEF InboxInv, InboxTypeOK, QueueOK, Whole, AllQueued
<1>4. x <= LastOf(received[s])  BY <1>2 DEF InboxInv, OriginOK
<1>5. /\ Len(queue') = Len(queue) - 1 /\ Len(queue) \in Nat
      /\ \A i \in 1..Len(queue') : i + 1 \in 1..Len(queue) /\ queue'[i] = queue[i + 1]
      BY <1>1, <1>3, IncreasingTail
<1> HIDE DEF h, f, x, k, s
<1>6. AllQueued'
  <2>1. Len(queue') = Len(origin) - h  BY <1>2, <1>3, <1>5
  <2>2. ASSUME NEW i \in 1..Len(queue') PROVE queue'[i] = h + i
    <3>1. queue'[i] = popped + (i + 1)  BY <1>3, <1>5
    <3> QED  BY <1>2, <1>5, <3>1
  <2> QED  BY <1>1, <2>1, <2>2 DEF AllQueued
<1>7. /\ k \in Nat /\ got[s] \in Seq(Seq(Nat)) /\ x \in Nat
      /\ \A t \in Sessions : t # s => got'[t] = got[t]
      /\ got'[s] = Append(got[s], f) /\ Len(got'[s]) = k + 1
      /\ \A i \in 1..k : got'[s][i] = got[s][i]
      /\ \A i \in 1..(k + 1) : i \in 1..k \/ i = k + 1
      /\ got'[s][k + 1] = f
  <2>1. k \in Nat /\ got[s] \in Seq(Seq(Nat))  BY <1>2, <1>3 DEF k
  <2>2. x \in Nat /\ f \in Seq(Nat)
    <3>1. origin \in Seq(Sessions \X Seq(Nat))  BY DEF InboxInv, InboxTypeOK
    <3> QED  BY <1>2, <3>1, PushedTypes DEF f, x
  <2>3. got'[s] = Append(got[s], f) /\ \A t \in Sessions : t # s => got'[t] = got[t]
        BY <1>1, <1>2, <1>3
  <2> QED  BY <2>1, <2>2, <2>3, Appended DEF k
<1>8. \A m \in (popped + 1)..Len(origin) : m = h \/ m \in (h + 1)..Len(origin)
      BY <1>2, <1>3
<1>9. \A m \in (h + 1)..Len(origin) : m \in (popped + 1)..Len(origin)
      BY <1>2, <1>3
<1>10. ASSUME NEW t \in Sessions, NEW y, Waits(t, y), t # s \/ y # x
       PROVE  \E m \in (h + 1)..Len(origin) : origin[m][1] = t /\ LastOf(origin[m][2]) = y
  <2>1. PICK m \in (popped + 1)..Len(origin) : origin[m][1] = t /\ LastOf(origin[m][2]) = y
        BY <1>10 DEF Waits
  <2>2. m # h  BY <1>10, <2>1 DEF s, x, f
  <2> QED  BY <1>8, <2>1, <2>2
<1>11. ASSUME NEW t \in Sessions PROVE WholeOf(t)'
  <2> DEFINE n == Len(got[t])
             l == LastOf(received[t])
  <2>1. /\ n \in Nat /\ l \in Nat
        /\ \A i \in 1..n : LastOf(got[t][i]) = 2 * i
        /\ 2 * n <= l
        /\ \A m \in (popped + 1)..Len(origin) : origin[m][1] = t => 2 * n < LastOf(origin[m][2])
        /\ \A y \in (2 * n + 1)..l : EndsMessage(y) => Waits(t, y)
        BY <1>3, LastIsNat DEF ReadInv, Whole, WholeOf
  <2>2. CASE t # s
    <3> HIDE DEF n, l
    <3>1. \A m \in (h + 1)..Len(origin) : origin[m][1] = t => 2 * n < LastOf(origin[m][2])
          BY <1>9, <2>1
    <3>2. \A y \in (2 * n + 1)..l :
             EndsMessage(y) => \E m \in (h + 1)..Len(origin) : origin[m][1] = t /\ LastOf(origin[m][2]) = y
          BY <1>10, <2>1, <2>2
    <3> QED  BY <1>1, <1>7, <2>1, <2>2, <3>1, <3>2 DEF WholeOf, Waits, n, l
  <2>3. CASE t = s
    <3>0. n = k  BY <2>3 DEF k
    <3> HIDE DEF n, l
    <3>1. 2 * (k + 1) <= l  BY <1>2, <1>4, <2>3 DEF l
    <3>2. \A m \in (h + 1)..Len(origin) : origin[m][1] = s => 2 * (k + 1) < LastOf(origin[m][2])
          BY <1>2
    <3>3. ASSUME NEW y \in (2 * (k + 1) + 1)..l, EndsMessage(y)
          PROVE  \E m \in (h + 1)..Len(origin) : origin[m][1] = s /\ LastOf(origin[m][2]) = y
      <4>1. y # x /\ y \in (2 * n + 1)..l  BY <1>2, <1>7, <2>1, <3>0, <3>3
      <4> QED  BY <1>2, <1>10, <2>1, <2>3, <3>3, <4>1
    <3>4. \A i \in 1..(k + 1) : LastOf(got'[s][i]) = 2 * i
      <4>1. \A i \in 1..k : LastOf(got'[s][i]) = 2 * i  BY <1>7, <2>1, <2>3, <3>0
      <4> QED  BY <1>2, <1>7, <4>1 DEF x
    <3>5. Len(got'[t]) = k + 1 /\ LastOf(received'[t]) = l  BY <1>7, <2>3 DEF l
    <3> QED  BY <1>1, <2>3, <3>1, <3>2, <3>3, <3>4, <3>5 DEF WholeOf, Waits
  <2> QED  BY <2>2, <2>3
<1> QED  BY <1>6, <1>11 DEF Whole

\* No push finds the queue full.
RoomOnPush == pushed' # pushed => count < QueueCapacity

\* A queue that moves while it has room leaves nothing behind.
LEMMA WholeStep ==
    ASSUME ReadInv, PacedInv, InboxInv, Whole, InboxMove, RoomOnPush
    PROVE  Whole'
<1>1. CASE UNCHANGED <<inboxVars, received>>
      BY <1>1 DEF inboxVars, queueVars, Whole, AllQueued, WholeOf, Waits
<1>2. ASSUME NEW s \in Sessions, Deliver(s) PROVE Whole'
  <2>1. pushed' = pushed + 1 /\ pushed \in Nat
        BY <1>2, DeliverStep, LenProperties DEF InboxInv, InboxTypeOK
  <2>2. pushed' # pushed  BY <2>1
  <2> QED  BY <1>2, <2>2, WholeDelivered DEF RoomOnPush
<1>3. CASE LookInside /\ UNCHANGED received
      BY <1>3 DEF LookInside, Messages!Empty, Whole, AllQueued, WholeOf, Waits
<1>4. CASE TakeOut /\ UNCHANGED received  BY <1>4, WholeTaken
<1> QED  BY <1>1, <1>2, <1>3, <1>4 DEF InboxMove

\* A queue with room for every message that may come is never full.
LargeInbox == MaxPush \in Nat /\ MaxPush <= QueueCapacity

\* Each message in it has been pushed, and a further one may come.
LEMMA LargeHasRoom ==
    ASSUME LargeInbox, ReadInv, InboxInv, Whole, InboxMove
    PROVE  RoomOnPush
<1> SUFFICES ASSUME pushed' # pushed PROVE count < QueueCapacity  BY DEF RoomOnPush
<1>1. /\ pushed = Len(origin) /\ Len(origin) \in Nat /\ popped \in Nat
      /\ count = Len(origin) - popped
      BY LenProperties DEF InboxInv, InboxTypeOK, Whole, AllQueued
<1>2. PICK s \in Sessions : Deliver(s)
      BY DEF InboxMove, inboxVars, queueVars, LookInside, TakeOut, Messages!Empty,
             Messages!Pop, Messages!Take, Messages!Wait
<1>3. pushed < MaxPush  BY <1>2 DEF Deliver, Messages!Push
<1> QED  BY <1>1, <1>3, InboxAssumption DEF LargeInbox

\* Nothing is missing at first.
LEMMA WholeStarts == ASSUME SessionInit, InboxInit PROVE Whole
<1>1. /\ queue = <<>> /\ popped = 0 /\ origin = <<>> /\ got = [s \in Sessions |-> <<>>]
      /\ received = [s \in Sessions |-> <<>>]
      BY DEF SessionInit, InboxInit, Messages!Init
<1>2. Len(<<>>) = 0 /\ 1..Len(<<>>) = {}  OBVIOUS
<1>3. AllQueued  BY <1>1, <1>2 DEF AllQueued
<1>4. ASSUME NEW s \in Sessions PROVE WholeOf(s)
  <2>1. got[s] = <<>> /\ received[s] = <<>> /\ LastOf(<<>>) = 0  BY <1>1 DEF LastOf
  <2>2. (popped + 1)..Len(origin) = {} /\ (2 * 0 + 1)..0 = {}  BY <1>1, <1>2
  <2> QED  BY <1>2, <2>1, <2>2 DEF WholeOf
<1> QED  BY <1>3, <1>4 DEF Whole

\* An even number is twice its half.
LEMMA Halves ==
    ASSUME NEW x \in Nat, EndsMessage(x)
    PROVE  x \div 2 \in Nat /\ x = 2 * (x \div 2)
BY DEF EndsMessage

\* Nothing missing: what app has got and what waits is every message handled.
LEMMA InvHasAll == ASSUME ReadInv, InboxInv, Whole, Unbroken PROVE EndToEnd
<1> SUFFICES ASSUME NEW s \in Sessions
             PROVE  LET messages == LastOf(received[s]) \div 2
                        n == Len(got[s])
                    IN /\ n <= messages
                       /\ got[s] = [i \in 1..n |-> WholeMessage(2 * i)]
                       /\ {Message(i) : i \in QueuedOf(s)}
                             = {WholeMessage(2 * i) : i \in (n + 1)..messages}
                       /\ GotInOrder(s)
    BY DEF EndToEnd
<1> DEFINE l == LastOf(received[s])
           messages == l \div 2
           n == Len(got[s])
<1>1. /\ l \in Nat /\ EndsMessage(l) /\ n \in Nat /\ got[s] \in Seq(Seq(Nat))
      BY LastIsNat DEF ReadInv, ReadOf, InboxInv, InboxTypeOK
<1>2. /\ \A i \in 1..n : LastOf(got[s][i]) = 2 * i
      /\ 2 * n <= l
      /\ \A m \in (popped + 1)..Len(origin) : origin[m][1] = s => 2 * n < LastOf(origin[m][2])
      /\ \A x \in (2 * n + 1)..l : EndsMessage(x) => Waits(s, x)
      BY DEF Whole, WholeOf
<1>3. /\ origin \in Seq(Sessions \X Seq(Nat)) /\ Len(origin) \in Nat /\ popped \in 0..Len(origin)
      /\ Len(queue) = Len(origin) - popped
      /\ \A i \in 1..Len(queue) : queue[i] = popped + i
      BY LenProperties DEF InboxInv, InboxTypeOK, Whole, AllQueued
<1>4. GotInOrder(s)  BY InvReturns DEF ReturnedInOrder
<1>5. got[s] = [i \in 1..n |-> WholeMessage(2 * i)]
  <2>1. got[s] = [i \in 1..n |-> got[s][i]]  BY <1>1, LenProperties
  <2>2. ASSUME NEW i \in 1..n PROVE got[s][i] = WholeMessage(2 * i)
    <3>1. PICK m \in 1..Len(origin) : IsMessage(origin, m, s, got[s][i])
          BY DEF InboxInv, GotOK
    <3> QED  BY <1>2, <3>1 DEF IsMessage, Unbroken
  <2> QED  BY <2>1, <2>2
<1>6. messages \in Nat /\ l = 2 * messages  BY <1>1, Halves
<1> HIDE DEF l, n, messages
<1>7. n <= messages  BY <1>1, <1>2, <1>6
<1>8. ASSUME NEW i \in QueuedOf(s)
      PROVE  \E j \in (n + 1)..messages : Message(i) = WholeMessage(2 * j)
  <2>1. /\ i \in 1..Len(queue) /\ origin[popped + i][1] = s
        /\ Message(i) = origin[popped + i][2]
        BY <1>3 DEF QueuedOf, Message
  <2>2. popped + i \in (popped + 1)..Len(origin) /\ popped + i \in 1..Len(origin)
        BY <1>3, <2>1
  <2>3. PICK e \in Nat : e = LastOf(Message(i)) /\ 2 * n < e
    <3>1. LastOf(Message(i)) \in Nat  BY <1>3, <2>1, <2>2, PushedTypes
    <3>2. 2 * n < LastOf(Message(i))  BY <1>2, <2>1, <2>2
    <3> QED  BY <3>1, <3>2
  <2>4. EndsMessage(e) /\ e <= l /\ Message(i) = WholeMessage(e)
        BY <2>1, <2>2, <2>3 DEF InboxInv, OriginOK, Unbroken, l
  <2>5. PICK j \in Nat : e = 2 * j  BY <2>4, Halves
  <2>6. j \in (n + 1)..messages  BY <1>1, <1>6, <2>3, <2>4, <2>5
  <2> QED  BY <2>4, <2>5, <2>6
<1>9. ASSUME NEW j \in (n + 1)..messages
      PROVE  \E i \in QueuedOf(s) : Message(i) = WholeMessage(2 * j)
  <2>1. 2 * j \in (2 * n + 1)..l  BY <1>1, <1>6
  <2>2. EndsMessage(2 * j)  BY <1>1, <1>6 DEF EndsMessage
  <2>3. PICK m \in (popped + 1)..Len(origin) : origin[m][1] = s /\ LastOf(origin[m][2]) = 2 * j
        BY <1>2, <2>1, <2>2 DEF Waits
  <2>4. m - popped \in 1..Len(queue) /\ popped + (m - popped) = m  BY <1>3, <2>3
  <2>5. queue[m - popped] = m  BY <1>3, <2>4
  <2>6. origin[m][2] = WholeMessage(2 * j)
        BY <1>3, <2>3 DEF Unbroken
  <2>7. m - popped \in QueuedOf(s) /\ Message(m - popped) = WholeMessage(2 * j)
        BY <2>3, <2>4, <2>5, <2>6 DEF QueuedOf, Message
  <2> QED  BY <2>7
<1>10. {Message(i) : i \in QueuedOf(s)} = {WholeMessage(2 * j) : j \in (n + 1)..messages}
       BY <1>8, <1>9
<1> QED  BY <1>4, <1>5, <1>7, <1>10 DEF l, n, messages
===============================================================================
