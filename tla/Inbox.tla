--------------------------------- MODULE Inbox ---------------------------------
(* The MessageQueue between the message handlers of sessions and the thread   *)
(* that takes the messages, `app`, as TCPServer (GetMessage()) and TCPClient  *)
(* (RecData()) both use it: pop() is called only after empty() has said no.   *)
(* A message is its push number; `origin` keeps where it comes from.          *)
EXTENDS Session, FiniteSets, FiniteSetsExt

CONSTANTS
    app,
    QueueCapacity      \* 1024 in the code

ASSUME InboxAssumption == QueueCapacity \in Nat \ {0}

MaxPush == FoldSet(LAMBDA s, n : n + MaxPieces[s], 0, Sessions)

VARIABLES
    queue, count, waiting, polling, pushed, popped,     \* the MessageQueue
    origin,            \* the session and the pieces of each message pushed
    got                \* the messages app has got, by session

queueVars == <<queue, count, waiting, polling, pushed, popped>>
inboxVars == <<queueVars, origin, got>>

Messages == INSTANCE MessageQueue WITH
                Consumers <- {app}, maxMessageCount <- QueueCapacity, coverageMode <- FALSE,
                queue_ <- queue, currentMessageCount <- count, pc <- polling,
                lastPopped <- popped

InboxInit == /\ Messages!Init
             /\ origin = <<>>
             /\ got = [s \in Sessions |-> <<>>]

\* A read handler passes its message to the callback, which pushes it.
Deliver(s) == /\ ReadOk(s)
              /\ Messages!Push
              /\ origin' = Append(origin, <<s, FirstMessage(readBuffer_[s])>>)
              /\ UNCHANGED got

\* empty() is false: app goes on to pop().
LookInside == /\ Messages!Empty(app)
              /\ UNCHANGED <<origin, got>>

TakeOut == /\ polling[app] # "idle"
           /\ Messages!Pop(app)
           /\ got' = IF popped' = popped THEN got
                     ELSE [got EXCEPT ![origin[popped'][1]] = Append(@, origin[popped'][2])]
           /\ UNCHANGED origin

-------------------------------------------------------------------------------
\* The messages of session s in the queue, by position, and what they are.
QueuedOf(s) == {i \in 1..Len(queue) : origin[queue[i]][1] = s}

Message(i) == origin[queue[i]][2]

\* The messages that app has got or will get of s end in the order sent.
GotInOrder(s) ==
    /\ \A i, j \in 1..Len(got[s]) : i < j => LastOf(got[s][i]) < LastOf(got[s][j])
    /\ \A i \in 1..Len(got[s]), j \in QueuedOf(s) : LastOf(got[s][i]) < LastOf(Message(j))
    /\ \A i, j \in QueuedOf(s) : i < j => LastOf(Message(i)) < LastOf(Message(j))

\* The message that ends with a piece, with nothing missing.
WholeMessage(last) == <<last - 1, last>>

\* From a peer to app: every message a read handler took up is whole with app or
\* in the queue, once, in the order it was sent.
EndToEnd ==
    \A s \in Sessions :
        LET messages == LastOf(received[s]) \div 2
            n == Len(got[s])
        IN /\ n <= messages
           /\ got[s] = [i \in 1..n |-> WholeMessage(2 * i)]
           /\ {Message(i) : i \in QueuedOf(s)} = {WholeMessage(2 * i) : i \in (n + 1)..messages}
           /\ GotInOrder(s)

\* Of each session app has got and the queue holds messages that its handler
\* took up, in the order they were sent and none twice, also when the queue is
\* full at times and others are lost. Each is whole if the peers wait; if they
\* do not, its head may have been dropped with the message before it.
ReturnedInOrder ==
    \A s \in Sessions :
        /\ GotInOrder(s)
        /\ \A m \in {got[s][i] : i \in 1..Len(got[s])} \cup {Message(i) : i \in QueuedOf(s)} :
              /\ EndsMessage(LastOf(m)) /\ LastOf(m) <= LastOf(received[s])
              /\ Paced => m = WholeMessage(LastOf(m))
===============================================================================
