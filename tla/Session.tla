------------------------------- MODULE Session -------------------------------
(* Utils::TCP::Session (TCP/src/Session.cpp), a set of connections that are   *)
(* independent of each other. A connection is a read chain (async_read_until, *)
(* its handler, the next read), a write chain over writeQueue_, and Close(),  *)
(* which any thread may call. An asynchronous operation takes effect in one   *)
(* step, "completed", and its handler runs in another: between the two the    *)
(* program goes on. What a peer sends is a stream of pieces, numbered; every  *)
(* second one carries the delimiter that ends a message, and a read returns   *)
(* as many pieces as have come. An outgoing message is the number of its      *)
(* SentData().                                                                *)
EXTENDS Integers, Sequences

CONSTANTS
    Sessions,
    Paced,        \* whether a peer starts a message only when the one before
                  \* has been given to messageHandler_
    MaxPieces,    \* bound: pieces the peer of each session sends
    MaxSends      \* bound: calls of SentData() on each session

ASSUME SessionAssumption ==
    /\ Paced \in BOOLEAN
    /\ MaxPieces \in [Sessions -> Nat] /\ MaxSends \in [Sessions -> Nat]

VARIABLES
    open,            \* socket_ is not closed
    peerOpen,        \* the peer's end is not closed
    sentPieces,      \* pieces the peer has sent,
    arrived,         \* and those read from socket_
    readBuffer_,
    reading,         \* "none", "pending", or "ok" or "failed": completed, its
                     \* handler is to run
    received,        \* the pieces given to messageHandler_
    writeQueue_,
    asked,           \* calls of SentData()
    inFlight,        \* messages whose async_write is in progress
    outcomes,        \* completed writes whose handler is to run
    out,             \* messages written to the socket
    expired          \* lastActiveTime_ is longer ago than clockTime_

readVars == <<sentPieces, arrived, readBuffer_, reading, received>>
writeVars == <<writeQueue_, asked, inFlight, outcomes, out>>
sessionVars == <<open, peerOpen, readVars, writeVars, expired>>

SessionInit ==
    /\ open = [s \in Sessions |-> TRUE]
    /\ peerOpen = [s \in Sessions |-> TRUE]
    /\ sentPieces = [s \in Sessions |-> 0]
    /\ arrived = [s \in Sessions |-> 0]
    /\ readBuffer_ = [s \in Sessions |-> <<>>]
    /\ reading = [s \in Sessions |-> "none"]
    /\ received = [s \in Sessions |-> <<>>]
    /\ writeQueue_ = [s \in Sessions |-> <<>>]
    /\ asked = [s \in Sessions |-> 0]
    /\ inFlight = [s \in Sessions |-> <<>>]
    /\ outcomes = [s \in Sessions |-> <<>>]
    /\ out = [s \in Sessions |-> <<>>]
    /\ expired = [s \in Sessions |-> FALSE]

-------------------------------------------------------------------------------
(* The peer and the network. *)

EndsMessage(piece) == piece % 2 = 0

LastOf(seq) == IF seq = <<>> THEN 0 ELSE seq[Len(seq)]

PeerSend(s) ==
    /\ peerOpen[s] /\ sentPieces[s] < MaxPieces[s]
    /\ Paced /\ EndsMessage(sentPieces[s]) => LastOf(received[s]) = sentPieces[s]
    /\ sentPieces' = [sentPieces EXCEPT ![s] = @ + 1]
    /\ UNCHANGED <<open, peerOpen, arrived, readBuffer_, reading, received, writeVars, expired>>

PeerClose(s) ==
    /\ peerOpen[s]
    /\ peerOpen' = [peerOpen EXCEPT ![s] = FALSE]
    /\ UNCHANGED <<open, readVars, writeVars, expired>>

\* clockTime_ seconds pass without activity.
Expire(s) == /\ ~expired[s]
             /\ expired' = [expired EXCEPT ![s] = TRUE]
             /\ UNCHANGED <<open, peerOpen, readVars, writeVars>>

-------------------------------------------------------------------------------
(* The read chain. *)

HasMessage(buffer) == \E i \in 1..Len(buffer) : EndsMessage(buffer[i])

\* What the handler passes on: everything up to the first delimiter.
FirstMessage(buffer) ==
    LET first == CHOOSE i \in 1..Len(buffer) :
                     EndsMessage(buffer[i]) /\ \A j \in 1..(i - 1) : ~EndsMessage(buffer[j])
    IN SubSeq(buffer, 1, first)

\* A read that finds a message in readBuffer_ completes at once.
ReadIfBuffered(s, buffer) ==
    reading' = [reading EXCEPT ![s] = IF HasMessage(buffer) THEN "ok" ELSE "none"]
DoRead(s, buffer) ==
    reading' = [reading EXCEPT ![s] = IF HasMessage(buffer) THEN "ok" ELSE "pending"]

Start(s) == /\ reading[s] = "none"
            /\ DoRead(s, readBuffer_[s])
            /\ UNCHANGED <<open, peerOpen, sentPieces, arrived, readBuffer_, received,
                           writeVars, expired>>

\* The socket yields some of the pieces that have come, perhaps beyond the end
\* of the message that completes the read.
ReadSome(s) ==
    /\ reading[s] = "pending" /\ open[s]
    /\ \E n \in 1..(sentPieces[s] - arrived[s]) :
          LET buffer == readBuffer_[s] \o [i \in 1..n |-> arrived[s] + i]
          IN /\ readBuffer_' = [readBuffer_ EXCEPT ![s] = buffer]
             /\ arrived' = [arrived EXCEPT ![s] = @ + n]
             /\ DoRead(s, buffer)
    /\ UNCHANGED <<open, peerOpen, sentPieces, received, writeVars, expired>>

ReadFails(s) ==
    /\ reading[s] = "pending" /\ ~(open[s] /\ peerOpen[s])
    /\ reading' = [reading EXCEPT ![s] = "failed"]
    /\ UNCHANGED <<open, peerOpen, sentPieces, arrived, readBuffer_, received, writeVars, expired>>

\* AsyncRead() without an error: `oss << &readBuffer_` takes the whole buffer,
\* the handler gets the first message of it, and consume() finds nothing left.
NotDrained(s) == readBuffer_[s]
Drained(s) == <<>>

ReadOk(s) ==
    /\ reading[s] = "ok"
    /\ received' = [received EXCEPT ![s] = @ \o FirstMessage(readBuffer_[s])]
    /\ readBuffer_' = [readBuffer_ EXCEPT ![s] = Drained(s)]
    /\ DoRead(s, Drained(s))
    /\ expired' = [expired EXCEPT ![s] = FALSE]
    /\ UNCHANGED <<open, peerOpen, sentPieces, arrived, writeVars>>

\* AsyncRead() with an error starts no other read.
ReadAgain == "pending"
NoMoreReads == "none"

ReadError(s) ==
    /\ reading[s] = "failed"
    /\ reading' = [reading EXCEPT ![s] = NoMoreReads]
    /\ open' = [open EXCEPT ![s] = FALSE]
    /\ UNCHANGED <<peerOpen, sentPieces, arrived, readBuffer_, received, writeVars, expired>>

-------------------------------------------------------------------------------
(* The write chain. SentData() and AsyncWrite() hold writeMutex_. *)

NeverInProgress(s) == FALSE
WriteInProgress(s) == writeQueue_[s] # <<>>

\* DoWrite() with `queue` in writeQueue_.
DoWrite(s, queue) == inFlight' = [inFlight EXCEPT ![s] = Append(@, Head(queue))]

SentData(s) ==
    LET queue == Append(writeQueue_[s], asked[s] + 1)
    IN /\ asked[s] < MaxSends[s]
       /\ asked' = [asked EXCEPT ![s] = @ + 1]
       /\ writeQueue_' = [writeQueue_ EXCEPT ![s] = queue]
       /\ IF WriteInProgress(s) THEN UNCHANGED inFlight ELSE DoWrite(s, queue)
       /\ UNCHANGED <<open, peerOpen, readVars, outcomes, out, expired>>

Without(seq, i) == SubSeq(seq, 1, i - 1) \o SubSeq(seq, i + 1, Len(seq))

Completed(s, i, outcome) ==
    /\ inFlight' = [inFlight EXCEPT ![s] = Without(@, i)]
    /\ outcomes' = [outcomes EXCEPT ![s] = Append(@, outcome)]
    /\ UNCHANGED <<open, peerOpen, readVars, writeQueue_, asked, expired>>

Transmit(s) ==
    /\ open[s]
    /\ \E i \in 1..Len(inFlight[s]) :
          /\ out' = [out EXCEPT ![s] = Append(@, inFlight[s][i])]
          /\ Completed(s, i, "ok")

WriteFails(s) ==
    /\ ~(open[s] /\ peerOpen[s])
    /\ \E i \in 1..Len(inFlight[s]) : Completed(s, i, "failed")
    /\ UNCHANGED out

LastNotSent(queue) == Len(queue) <= 1
AllSent(queue) == queue = <<>>

\* AsyncWrite(): after an error the head of writeQueue_ stays where it is.
WriteOk(s) ==
    LET rest == Tail(writeQueue_[s])
    IN /\ Head(outcomes[s]) = "ok"
       /\ writeQueue_' = [writeQueue_ EXCEPT ![s] = rest]
       /\ IF AllSent(rest) THEN UNCHANGED <<inFlight, expired>>
          ELSE DoWrite(s, rest) /\ expired' = [expired EXCEPT ![s] = FALSE]
       /\ UNCHANGED open

WriteError(s) ==
    /\ Head(outcomes[s]) = "failed"
    /\ open' = [open EXCEPT ![s] = FALSE]
    /\ UNCHANGED <<writeQueue_, inFlight, expired>>

AsyncWrite(s) ==
    /\ outcomes[s] # <<>>
    /\ WriteOk(s) \/ WriteError(s)
    /\ outcomes' = [outcomes EXCEPT ![s] = Tail(@)]
    /\ UNCHANGED <<peerOpen, readVars, asked, out>>

Close(s) == /\ open' = [open EXCEPT ![s] = FALSE]
            /\ UNCHANGED <<peerOpen, readVars, writeVars, expired>>

-------------------------------------------------------------------------------
Handler(s) == ReadOk(s) \/ ReadError(s) \/ AsyncWrite(s)

Network(s) == ReadSome(s) \/ ReadFails(s) \/ Transmit(s) \/ WriteFails(s)

Peer(s) == PeerSend(s) \/ PeerClose(s)

User(s) == Start(s) \/ SentData(s) \/ Close(s)

Spec == /\ SessionInit
        /\ [][\E s \in Sessions :
                 Handler(s) \/ Network(s) \/ Peer(s) \/ User(s) \/ Expire(s)]_sessionVars

-------------------------------------------------------------------------------
\* The variables keep their types.
SessionTypeOK ==
    /\ {open, peerOpen, expired} \subseteq [Sessions -> BOOLEAN]
    /\ reading \in [Sessions -> {"none", "pending", "ok", "failed"}]
    /\ \A s \in Sessions :
          /\ {sentPieces[s], arrived[s]} \subseteq 0..MaxPieces[s]
          /\ {readBuffer_[s], received[s]} \subseteq Seq(1..MaxPieces[s])
          /\ asked[s] \in 0..MaxSends[s]
          /\ {writeQueue_[s], inFlight[s], out[s]} \subseteq Seq(1..MaxSends[s])
          /\ outcomes[s] \in Seq({"ok", "failed"})

\* What the handler was given and what is in the buffer come in the order they
\* were sent, no piece twice, whatever else is lost.
ReceivedInOrder ==
    \A s \in Sessions :
        LET seen == received[s] \o readBuffer_[s]
        IN \A i, j \in 1..Len(seen) : i < j => seen[i] < seen[j]

\* Session passes what it receives to the callback (README.md:61): what was read
\* from the socket is all with messageHandler_ or in the buffer.
NothingDropped ==
    \A s \in Sessions : received[s] \o readBuffer_[s] = [i \in 1..arrived[s] |-> i]

\* Messages go out one at a time in the order of SentData(): at most one write
\* is in progress, it is that of the head of the queue, and what is queued
\* comes after what is out.
OneWriteInOrder ==
    \A s \in Sessions :
        /\ out[s] = [i \in 1..Len(out[s]) |-> i]
        /\ Len(inFlight[s]) + Len(outcomes[s]) <= 1
        /\ \A i \in 1..Len(inFlight[s]) :
              writeQueue_[s] # <<>> /\ inFlight[s][i] = Head(writeQueue_[s])

\* A queued message has a write in progress or a handler to come that will
\* start one: only a closed socket leaves messages behind.
WriterKeepsGoing ==
    \A s \in Sessions :
        writeQueue_[s] # <<>> /\ open[s] => Len(inFlight[s]) + Len(outcomes[s]) = 1
===============================================================================
