--------------------------- MODULE TCPServerProofs ---------------------------
(* TCPServer uses its sessions as Session describes them: whatever the table, *)
(* the contexts and the application do, each step is a step of one session or *)
(* of none. What is proved of sessions alone thus holds in the server.        *)
EXTENDS TCPServer, SessionProofs, FiniteSetTheorems

\* Ids are given out in order, the table and the sessions agree on them, what
\* has left the table is closed, and Broadcast() goes through ids of the table.
TableOK == /\ sessionId_ \in Nat \ {0}
           /\ idOf \in [Sessions -> Nat]
           /\ Ids \subseteq 1..(sessionId_ - 1)
           /\ \A i \in Ids : sessions_[i] \in Sessions /\ idOf[sessions_[i]] = i
           /\ \A s \in Sessions : idOf[s] < sessionId_
           /\ \A s \in Sessions : idOf[s] \in Ids => sessions_[idOf[s]] = s
           /\ \A s \in Sessions : idOf[s] # 0 /\ idOf[s] \notin Ids => ~open[s]
           /\ sending \subseteq Ids

ServerInv == WriteInv /\ TableOK

\* One step of session s.
SessionStep(s) == Handler(s) \/ Network(s) \/ Peer(s) \/ User(s) \/ Expire(s)

SessionMove == \/ UNCHANGED sessionVars
               \/ \E s \in Sessions : SessionStep(s)

-------------------------------------------------------------------------------
\* The steps of the contexts, of the acceptor and of the peers.
LEMMA ContextMoves ==
    ASSUME \/ \E s \in Sessions : Accept(s)
           \/ AcceptError
           \/ \E s \in Accepted : ContextStep(s) \/ Outside(s)
    PROVE  SessionMove
<1>1. CASE \E s \in Sessions : Accept(s)
      BY <1>1 DEF Accept, SessionMove, SessionStep, User
<1>2. CASE AcceptError  BY <1>2 DEF AcceptError, SessionMove
<1>3. ASSUME NEW s \in Accepted, ContextStep(s) PROVE SessionMove
  <2>1. s \in Sessions  BY DEF Accepted
  <2>2. CASE MessageHandler(s)
        BY <2>1, <2>2 DEF MessageHandler, PushMessage, Deliver, AddressThrows, SessionMove,
                          SessionStep, Handler
  <2>3. CASE OtherHandler(s) \/ NetworkStep(s)
        BY <2>1, <2>3 DEF OtherHandler, NetworkStep, SessionMove, SessionStep, Handler
  <2> QED  BY <1>3, <2>2, <2>3 DEF ContextStep
<1>4. ASSUME NEW s \in Accepted, Outside(s) PROVE SessionMove
      BY <1>4 DEF Accepted, Outside, SessionMove, SessionStep, Peer
<1> QED  BY <1>1, <1>2, <1>3, <1>4

\* The calls of the application.
LEMMA AppMoves ==
    ASSUME TableOK, AppStep
    PROVE  SessionMove
<1>1. CASE ServerStart \/ Poll \/ Fetch \/ Stop \/ AfterStop
      BY <1>1 DEF ServerStart, Poll, Fetch, Stop, AfterStop, SessionMove
<1>2. ASSUME NEW i, RemoveSession(i) PROVE SessionMove
  <2>1. CASE RemoveKnown(i)
        BY <2>1 DEF RemoveKnown, ClosedFirst, TableOK, SessionMove, SessionStep, User
  <2>2. CASE RemoveUnknown(i)  BY <2>2 DEF RemoveUnknown, SessionMove
  <2> QED  BY <1>2, <2>1, <2>2 DEF RemoveSession
<1>3. CASE Call
  <2>1. ASSUME NEW i \in Ids, Unicast(i) PROVE SessionMove
        BY <2>1 DEF Unicast, TableOK, SessionMove, SessionStep, User
  <2>2. CASE BroadcastBegin \/ CollectExpired
        BY <2>2 DEF BroadcastBegin, CollectExpired, SessionMove
  <2> QED  BY <1>2, <1>3, <2>1, <2>2 DEF Call
<1>4. CASE Continue
  <2>1. CASE BroadcastNext
        BY <2>1 DEF BroadcastNext, TableOK, SessionMove, SessionStep, User
  <2>2. CASE RemoveExpired  BY <1>2, <2>2 DEF RemoveExpired
  <2> QED  BY <1>4, <2>1, <2>2 DEF Continue
<1> QED  BY <1>1, <1>3, <1>4 DEF AppStep

\* Every step of the server is one of a session, or of none.
LEMMA ServerMoves == ASSUME TableOK, [ServerNext]_serverVars PROVE SessionMove
<1>1. CASE UNCHANGED serverVars  BY <1>1 DEF serverVars, SessionMove
<1>2. CASE ServerNext
  <2>1. CASE AppStep  BY <2>1, AppMoves
  <2>2. CASE AcceptStep \/ \E s \in Accepted : ContextStep(s) \/ Outside(s)
        BY <2>2, ContextMoves DEF AcceptStep
  <2> QED  BY <1>2, <2>1, <2>2 DEF ServerNext
<1> QED  BY <1>1, <1>2

\* No step opens a socket again.
LEMMA StaysClosed ==
    ASSUME WriteTypeOK, SessionMove, NEW t \in Sessions, ~open[t]
    PROVE  ~open'[t]
<1>1. CASE UNCHANGED sessionVars  BY <1>1 DEF sessionVars
<1>2. ASSUME NEW s \in Sessions, SessionStep(s) PROVE ~open'[t]
  <2>1. CASE ReadError(s) \/ Close(s) \/ AsyncWrite(s)
        BY <2>1 DEF ReadError, Close, AsyncWrite, WriteOk, WriteError, WriteTypeOK
  <2>2. CASE \/ ReadOk(s) \/ ReadSome(s) \/ ReadFails(s) \/ Transmit(s) \/ WriteFails(s)
             \/ PeerSend(s) \/ PeerClose(s) \/ Start(s) \/ SentData(s) \/ Expire(s)
        BY <2>2 DEF ReadOk, ReadSome, ReadFails, Transmit, WriteFails, Completed, PeerSend,
                    PeerClose, Start, SentData, Expire
  <2> QED  BY <1>2, <2>1, <2>2 DEF SessionStep, Handler, Network, Peer, User
<1> QED  BY <1>1, <1>2 DEF SessionMove

-------------------------------------------------------------------------------
\* The table stays as it is.
LEMMA TableKept ==
    ASSUME ServerInv, SessionMove, UNCHANGED <<sessions_, sessionId_, idOf>>,
           sending' \subseteq Ids
    PROVE  TableOK'
<1>1. \A t \in Sessions : ~open[t] => ~open'[t]  BY StaysClosed DEF ServerInv, WriteInv
<1>2. Ids' = Ids  BY DEF Ids
<1> QED  BY <1>1, <1>2 DEF ServerInv, TableOK

\* An accepted session gets the next id.
LEMMA TableGrows ==
    ASSUME ServerInv, NEW s \in Sessions, Accept(s)
    PROVE  TableOK'
<1>1. /\ s \notin Accepted /\ sending = {} /\ sending' = sending
      /\ idOf' = [idOf EXCEPT ![s] = sessionId_]
      /\ sessions_' = [i \in Ids \cup {sessionId_} |-> IF i = sessionId_ THEN s ELSE sessions_[i]]
      /\ sessionId_' = sessionId_ + 1
      /\ UNCHANGED open
      BY DEF Accept, AddSession, Unlocked, Start
<1>2. Ids' = Ids \cup {sessionId_}  BY <1>1 DEF Ids
<1>3. idOf[s] = 0 /\ \A i \in Ids : sessions_[i] # s
      BY <1>1 DEF Accepted, ServerInv, TableOK
<1>4. sessionId_ \notin Ids  BY DEF ServerInv, TableOK
<1>5. sessionId_' \in Nat \ {0} /\ idOf' \in [Sessions -> Nat]
      BY <1>1 DEF ServerInv, TableOK
<1>6. Ids' \subseteq 1..(sessionId_' - 1)
  <2>1. sessionId_ \in Nat \ {0} /\ Ids \subseteq 1..(sessionId_ - 1)
        BY DEF ServerInv, TableOK
  <2>2. ASSUME NEW i \in Ids' PROVE i \in 1..sessionId_
    <3>1. CASE i = sessionId_  BY <2>1, <3>1
    <3>2. CASE i \in Ids  BY <2>1, <3>2
    <3> QED  BY <1>2, <2>2, <3>1, <3>2
  <2>3. sessionId_' - 1 = sessionId_  BY <1>1, <2>1
  <2> QED  BY <2>2, <2>3
<1>7. ASSUME NEW i \in Ids' PROVE sessions_'[i] \in Sessions /\ idOf'[sessions_'[i]] = i
  <2>1. CASE i = sessionId_  BY <1>1, <1>2, <2>1 DEF ServerInv, TableOK
  <2>2. CASE i \in Ids
    <3>1. sessions_'[i] = sessions_[i]  BY <1>1, <1>4, <2>2
    <3> QED  BY <1>1, <1>3, <2>2, <3>1 DEF ServerInv, TableOK
  <2> QED  BY <1>2, <2>1, <2>2
<1>8. ASSUME NEW t \in Sessions
      PROVE  /\ idOf'[t] < sessionId_'
             /\ idOf'[t] \in Ids' => sessions_'[idOf'[t]] = t
             /\ idOf'[t] # 0 /\ idOf'[t] \notin Ids' => ~open'[t]
  <2>1. CASE t = s  BY <1>1, <1>2, <2>1 DEF ServerInv, TableOK
  <2>2. CASE t # s
    <3>1. idOf'[t] = idOf[t] /\ idOf[t] < sessionId_ /\ idOf[t] \in Nat
          BY <1>1, <2>2 DEF ServerInv, TableOK
    <3>2. idOf[t] # sessionId_ /\ idOf[t] < sessionId_ + 1
          BY <3>1 DEF ServerInv, TableOK
    <3>3. idOf[t] \in Ids => sessions_'[idOf[t]] = t
          BY <1>1, <3>2 DEF ServerInv, TableOK
    <3> QED  BY <1>1, <1>2, <3>1, <3>2, <3>3 DEF ServerInv, TableOK
  <2> QED  BY <2>1, <2>2
<1>9. sending' \subseteq Ids'  BY <1>1
<1> QED  BY <1>5, <1>6, <1>7, <1>8, <1>9 DEF TableOK

\* A removed session is closed.
LEMMA TableShrinks ==
    ASSUME ServerInv, NEW i, RemoveSession(i)
    PROVE  TableOK'
<1>1. sending = {} /\ UNCHANGED <<sessionId_, idOf, sending>>
      BY DEF RemoveSession, Unlocked
<1>2. CASE RemoveUnknown(i)
  <2>1. SessionMove  BY <1>2 DEF RemoveUnknown, SessionMove
  <2> QED  BY <1>1, <1>2, <2>1, TableKept DEF RemoveUnknown
<1>3. CASE RemoveKnown(i)
  <2>1. i \in Ids /\ sessions_[i] \in Sessions /\ Close(sessions_[i])
        BY <1>3 DEF RemoveKnown, ClosedFirst, ServerInv, TableOK
  <2>2. Ids' = Ids \ {i} /\ \A j \in Ids' : sessions_'[j] = sessions_[j]
        BY <1>3 DEF RemoveKnown, Ids
  <2>3. SessionMove  BY <2>1 DEF SessionMove, SessionStep, User
  <2>4. \A t \in Sessions : ~open[t] => ~open'[t]
        BY <2>3, StaysClosed DEF ServerInv, WriteInv
  <2>5. ~open'[sessions_[i]]  BY <2>1 DEF Close, ServerInv, WriteInv, WriteTypeOK
  <2>6. ASSUME NEW t \in Sessions, idOf[t] # 0, idOf[t] \notin Ids' PROVE ~open'[t]
    <3>1. CASE idOf[t] = i  BY <2>1, <2>5, <3>1 DEF ServerInv, TableOK
    <3>2. CASE idOf[t] # i  BY <2>2, <2>4, <2>6, <3>2 DEF ServerInv, TableOK
    <3> QED  BY <3>1, <3>2
  <2> QED  BY <1>1, <2>2, <2>6 DEF ServerInv, TableOK
<1> QED  BY <1>2, <1>3 DEF RemoveSession

-------------------------------------------------------------------------------
\* The invariant holds at first, every step keeps it, and so it always holds.
LEMMA ServerStart0 == ServerInit => ServerInv
<1>1. ServerInit => WriteInv  BY WriteInit DEF ServerInit
<1>2. ServerInit => TableOK  BY DEF ServerInit, ManagerInit, TableOK, Ids
<1> QED  BY <1>1, <1>2 DEF ServerInv

\* Every step of the server keeps sessions and table.
LEMMA ServerStep == ServerInv /\ [ServerNext]_serverVars => ServerInv'
<1> SUFFICES ASSUME ServerInv, [ServerNext]_serverVars PROVE ServerInv'
    OBVIOUS
<1>1. SessionMove  BY ServerMoves DEF ServerInv
<1>2. WriteInv'  BY <1>1, WriteStep DEF ServerInv, SessionMove, SessionStep
<1>3. TableOK'
  <2>1. CASE UNCHANGED managerVars
        BY <1>1, <2>1, TableKept DEF managerVars, ServerInv, TableOK
  <2>2. CASE \E s \in Sessions : Accept(s)  BY <2>2, TableGrows
  <2>3. CASE AcceptError \/ \E s \in Accepted : ContextStep(s) \/ Outside(s)
        BY <2>1, <2>3 DEF AcceptError, ContextStep, MessageHandler, OtherHandler,
                          NetworkStep, Outside
  <2>4. CASE ServerStart \/ Poll \/ Fetch \/ Stop \/ AfterStop
        BY <2>1, <2>4 DEF ServerStart, Poll, Fetch, Stop, AfterStop
  <2>5. CASE Call
    <3>1. CASE \E i \in Ids : RemoveSession(i)  BY <3>1, TableShrinks
    <3>2. CASE \E i \in Ids : Unicast(i)  BY <2>1, <3>2 DEF Unicast
    <3>3. CASE BroadcastBegin
          BY <1>1, <3>3, TableKept DEF BroadcastBegin
    <3>4. CASE CollectExpired
          BY <1>1, <3>4, TableKept DEF CollectExpired, ServerInv, TableOK
    <3> QED  BY <2>5, <3>1, <3>2, <3>3, <3>4 DEF Call
  <2>6. CASE Continue
    <3>1. CASE BroadcastNext
          BY <1>1, <3>1, TableKept DEF BroadcastNext, ServerInv, TableOK
    <3>2. CASE RemoveExpired  BY <3>2, TableShrinks DEF RemoveExpired
    <3> QED  BY <2>6, <3>1, <3>2 DEF Continue
  <2>7. CASE UNCHANGED serverVars  BY <2>1, <2>7 DEF serverVars
  <2> QED  BY <2>2, <2>3, <2>4, <2>5, <2>6, <2>7 DEF ServerNext, AcceptStep, AppStep
<1> QED  BY <1>2, <1>3 DEF ServerInv

\* So both hold throughout,
LEMMA ServerInvariant == ServerSpec => []ServerInv
<1> QED  BY ServerStart0, ServerStep, PTL DEF ServerSpec

-------------------------------------------------------------------------------
\* In the server, with its handlers, Unicast(), Broadcast() and RemoveSession()
\* at once, the messages of every session leave in the order of SentData(), one
\* write at a time.
THEOREM ServerWritesInOrder == ServerSpec => []OneWriteInOrder
<1> QED  BY InvInOrder, ServerInvariant, PTL DEF ServerInv

\* In the server no open session is left with messages and without a write or a
\* handler that goes on with them.
THEOREM ServerNeverStalls == ServerSpec => []WriterKeepsGoing
<1> QED  BY InvKeepsGoing, ServerInvariant, PTL DEF ServerInv

\* An id of the SessionManager names one session, which knows it, and a session
\* out of the table is closed, also when CleanExpiredSession() and the accept
\* handler take turns with the lock.
THEOREM TableCorrect == ServerSpec => []TableAgrees
<1>1. ServerInv => TableAgrees  BY DEF ServerInv, TableOK, TableAgrees
<1> QED  BY <1>1, ServerInvariant, PTL

-------------------------------------------------------------------------------
(* The read chains and the queue behind them. *)

\* and so does the invariant of the read chains,
LEMMA ServerReads == ServerSpec => []ReadInv
<1>1. ServerInit => ReadInv  BY ReadInit DEF ServerInit
<1>2. ServerInv /\ ReadInv /\ [ServerNext]_serverVars => ReadInv'
      BY ServerMoves, ReadStep DEF ServerInv, SessionMove, SessionStep
<1> QED  BY <1>1, <1>2, ServerInvariant, PTL DEF ServerSpec

\* In the server, too, message handlers get pieces in the order they were sent,
\* none twice, whether or not the peers wait.
THEOREM ServerReadsInOrder == ServerSpec => []ReceivedInOrder
<1> QED  BY ReadInOrder, ServerReads, PTL

\* The server's steps move the queue as Inbox has it.
LEMMA QueueMoves ==
    ASSUME TableOK, [ServerNext]_serverVars
    PROVE  InboxMove
<1>1. CASE UNCHANGED serverVars
      BY <1>1 DEF serverVars, sessionVars, readVars, InboxMove
<1>2. CASE AcceptStep
  <2>1. ASSUME NEW s \in Sessions, Accept(s) PROVE InboxMove
        BY <2>1, ReceivesNothing DEF Accept, User, InboxMove
  <2>2. CASE AcceptError  BY <2>2 DEF AcceptError, sessionVars, readVars, InboxMove
  <2> QED  BY <1>2, <2>1, <2>2 DEF AcceptStep
<1>3. ASSUME NEW s \in Accepted, ContextStep(s) \/ Outside(s) PROVE InboxMove
  <2>0. s \in Sessions  BY DEF Accepted
  <2>1. CASE MessageHandler(s)
        BY <2>0, <2>1 DEF MessageHandler, PushMessage, AddressThrows, sessionVars, readVars,
                          InboxMove
  <2>2. CASE OtherHandler(s) \/ NetworkStep(s) \/ Outside(s)
        BY <2>2, ReceivesNothing DEF OtherHandler, NetworkStep, Outside, Peer, InboxMove
  <2> QED  BY <1>3, <2>1, <2>2 DEF ContextStep
<1>4. CASE ServerStart \/ Poll \/ Fetch \/ Stop \/ AfterStop
      BY <1>4 DEF ServerStart, Poll, Fetch, Stop, AfterStop, sessionVars, readVars, InboxMove
<1>5. CASE Call \/ Continue
  <2>1. UNCHANGED inboxVars  BY <1>5 DEF Call, Continue
  <2>2. ASSUME NEW i, RemoveSession(i) PROVE UNCHANGED received
        BY <2>2, ReceivesNothing DEF RemoveSession, RemoveKnown, ClosedFirst, RemoveUnknown,
                                     User, sessionVars, readVars
  <2>3. CASE Call
    <3>1. ASSUME NEW i \in Ids, Unicast(i) PROVE UNCHANGED received
          BY <3>1, ReceivesNothing DEF Unicast, User
    <3>2. CASE BroadcastBegin \/ CollectExpired
          BY <2>1, <3>2 DEF BroadcastBegin, CollectExpired, sessionVars, readVars, InboxMove
    <3> QED  BY <2>1, <2>2, <2>3, <3>1, <3>2 DEF Call, InboxMove
  <2>4. CASE Continue
    <3>1. CASE BroadcastNext  BY <2>1, <3>1, ReceivesNothing DEF BroadcastNext, User, InboxMove
    <3>2. CASE RemoveExpired  BY <2>1, <2>2, <3>2 DEF RemoveExpired, InboxMove
    <3> QED  BY <2>4, <3>1, <3>2 DEF Continue
  <2> QED  BY <1>5, <2>3, <2>4
<1> QED  BY <1>1, <1>2, <1>3, <1>4, <1>5 DEF ServerNext, AppStep

\* that of the queue,
LEMMA ServerQueue == ServerSpec => []InboxInv
<1>1. ServerInit => InboxInv  BY InboxStarts DEF ServerInit
<1>2. ServerInv /\ ReadInv /\ InboxInv /\ [ServerNext]_serverVars => InboxInv'
      BY QueueMoves, InboxStep DEF ServerInv
<1> QED  BY <1>1, <1>2, ServerInvariant, ServerReads, PTL DEF ServerSpec

\* and, when peers wait, that nothing is dropped,
LEMMA ServerPaced == ASSUME Paced PROVE ServerSpec => []PacedInv
<1>1. ServerInit => PacedInv  BY PacedInit DEF ServerInit
<1>2. ServerInv /\ ReadInv /\ PacedInv /\ [ServerNext]_serverVars => PacedInv'
      BY ServerMoves, PacedStep DEF ServerInv, SessionMove, SessionStep, Moves
<1> QED  BY <1>1, <1>2, ServerInvariant, ServerReads, PTL DEF ServerSpec

\* so that every message pushed is whole.
LEMMA ServerUnbroken == ASSUME Paced PROVE ServerSpec => []Unbroken
<1>1. ServerInit => Unbroken  BY UnbrokenStarts DEF ServerInit
<1>2. ServerInv /\ ReadInv /\ PacedInv /\ InboxInv /\ Unbroken /\ [ServerNext]_serverVars
      => Unbroken'
      BY QueueMoves, UnbrokenStep DEF ServerInv
<1> QED  BY <1>1, <1>2, ServerInvariant, ServerReads, ServerPaced, ServerQueue, PTL
         DEF ServerSpec

\* Whatever the peers, the queue and the calls of the application do: the
\* messages GetMessage() returns of a session end in the order they were sent,
\* none twice. From peers that wait they are whole messages; without that the
\* head of one may be missing, but not this order.
THEOREM ServerReturnsInOrder == ServerSpec => []ReturnedInOrder
<1>1. CASE Paced
  <2>1. ReadInv /\ InboxInv /\ Unbroken => ReturnedInOrder  BY InvReturns
  <2> QED  BY <1>1, <2>1, ServerReads, ServerQueue, ServerUnbroken, PTL
<1>2. CASE ~Paced
  <2>1. ReadInv /\ InboxInv => ReturnedInOrder  BY <1>2, InvReturns
  <2> QED  BY <2>1, ServerReads, ServerQueue, PTL
<1> QED  BY <1>1, <1>2

\* In the server, too, nothing that peers send who wait is lost in a session.
THEOREM ServerLosesNothing == ASSUME Paced PROVE ServerSpec => []NothingDropped
<1> QED  BY PacedHasAll, ServerReads, ServerPaced, PTL

\* From peers that wait for their messages to be handled every message reaches
\* GetMessage(), once and in order, as long as the application keeps the queue
\* from filling up: nothing is lost between the socket and the application,
\* whichever sessions are removed, expire or fail meanwhile.
THEOREM ServerEndToEnd ==
    ASSUME Paced
    PROVE  ServerSpec /\ [][RoomOnPush]_serverVars => []EndToEnd
<1>1. ServerInit => Whole  BY WholeStarts DEF ServerInit
<1>2. /\ ServerInv /\ ReadInv /\ PacedInv /\ InboxInv /\ Whole
      /\ [ServerNext]_serverVars /\ [RoomOnPush]_serverVars
      => Whole'
  <2> SUFFICES ASSUME ServerInv, ReadInv, PacedInv, InboxInv, Whole,
                      [ServerNext]_serverVars, [RoomOnPush]_serverVars
               PROVE  Whole'
      OBVIOUS
  <2>1. InboxMove  BY QueueMoves DEF ServerInv
  <2>2. RoomOnPush  BY DEF RoomOnPush, serverVars, inboxVars, queueVars
  <2> QED  BY <2>1, <2>2, WholeStep
<1>3. ServerSpec /\ [][RoomOnPush]_serverVars => []Whole
      BY <1>1, <1>2, ServerInvariant, ServerReads, ServerQueue, ServerPaced, PTL
      DEF ServerSpec
<1> QED  BY <1>3, InvHasAll, ServerReads, ServerQueue, ServerUnbroken, PTL

\* So nothing is lost, whenever GetMessage() is called, by a server whose queue
\* has room for all its peers send.
THEOREM ServerDeliversAll ==
    ASSUME Paced, LargeInbox
    PROVE  ServerSpec => []EndToEnd
<1>1. ServerInit => Whole  BY WholeStarts DEF ServerInit
<1>2. ServerInv /\ ReadInv /\ PacedInv /\ InboxInv /\ Whole
      /\ [ServerNext]_serverVars
      => Whole'
      BY QueueMoves, LargeHasRoom, WholeStep DEF ServerInv
<1>3. ServerSpec => []Whole
      BY <1>1, <1>2, ServerInvariant, ServerReads, ServerQueue, ServerPaced, PTL DEF ServerSpec
<1>4. ReadInv /\ InboxInv /\ Whole /\ Unbroken => EndToEnd  BY InvHasAll
<1> QED  BY <1>3, <1>4, ServerReads, ServerQueue, ServerUnbroken, PTL

-------------------------------------------------------------------------------
(* The types of the server's variables. *)

\* The contexts are stopped in order, from that of the acceptor on.
StoppedInOrder == \E n \in 0..PoolSize : stopped = 0..(n - 1) /\ Cardinality(stopped) = n

PhasesOK ==
    /\ phase \in {"new", "running", "unstarted", "closed", "stopped"}
    /\ accepting \in BOOLEAN /\ terminated \in BOOLEAN
    /\ nextContext \in Contexts
    /\ contextOf \in [Sessions -> Contexts]
    /\ StoppedInOrder

\* The next context, and the one before it, are contexts.
LEMMA ContextsGoRound ==
    ASSUME nextContext \in Contexts
    PROVE  (nextContext + 1) % PoolSize \in Contexts /\ Armed \in Contexts
<1>1. PoolSize \in Nat \ {0}  BY ServerAssumption
<1>2. \A i \in Int : i % PoolSize \in 0..(PoolSize - 1)  BY <1>1
<1> QED  BY <1>1, <1>2 DEF Contexts, Armed

\* An interval that starts at 0.
LEMMA FirstContexts ==
    ASSUME NEW n \in Nat
    PROVE  Cardinality(0..(n - 1)) = n
<1>1. Cardinality(0..(n - 1)) = IF 0 > n - 1 THEN 0 ELSE n - 1 - 0 + 1  BY FS_Interval
<1> QED  BY <1>1

\* Before Start() no context has been stopped.
LEMMA PhasesStart == ASSUME ServerInit PROVE PhasesOK
<1>1. PoolSize \in Nat \ {0}  BY ServerAssumption
<1>2. 1 % PoolSize \in Contexts /\ 0 \in Contexts  BY <1>1 DEF Contexts
<1>3. StoppedInOrder
  <2>1. stopped = 0..(0 - 1) /\ 0 \in 0..PoolSize  BY <1>1 DEF ServerInit
  <2> QED  BY <2>1, FirstContexts DEF StoppedInOrder
<1> QED  BY <1>2, <1>3 DEF ServerInit, PhasesOK

\* Every step keeps these types.
LEMMA PhasesStep ==
    ASSUME PhasesOK, [ServerNext]_serverVars
    PROVE  PhasesOK'
<1>1. CASE UNCHANGED <<acceptVars, phase, stopped>> /\ terminated' \in BOOLEAN
      BY <1>1 DEF acceptVars, PhasesOK, StoppedInOrder
<1>2. CASE UNCHANGED serverVars  BY <1>1, <1>2 DEF serverVars, PhasesOK
<1>3. CASE AcceptStep
  <2>1. /\ UNCHANGED <<phase, stopped, terminated>> /\ DoAccept
        /\ \/ UNCHANGED contextOf
           \/ \E s \in Sessions : contextOf' = [contextOf EXCEPT ![s] = Armed]
        BY <1>3 DEF AcceptStep, Accept, AcceptError
  <2>2. accepting' \in BOOLEAN /\ nextContext' \in Contexts
        BY <2>1, ContextsGoRound DEF DoAccept, Arm, PhasesOK
  <2>3. contextOf' \in [Sessions -> Contexts]
        BY <2>1, ContextsGoRound DEF PhasesOK
  <2> QED  BY <2>1, <2>2, <2>3 DEF PhasesOK, StoppedInOrder
<1>4. CASE \E s \in Accepted : ContextStep(s) \/ Outside(s)
      BY <1>1, <1>4 DEF ContextStep, MessageHandler, PushMessage, AddressThrows, OtherHandler,
                        NetworkStep, Outside, PhasesOK
<1>5. CASE ServerStart
  <2>1. phase' = "running" /\ accepting' = TRUE /\ nextContext' \in Contexts
        BY <1>5, ContextsGoRound DEF ServerStart, Arm, PhasesOK
  <2> QED  BY <1>5, <2>1 DEF ServerStart, PhasesOK, StoppedInOrder
<1>6. CASE Call \/ Continue \/ Poll \/ Fetch \/ AfterStop
      BY <1>1, <1>6 DEF Call, Continue, Poll, Fetch, AfterStop, PhasesOK
<1>7. CASE Stop
  <2>1. UNCHANGED <<acceptVars, terminated>> /\ StopSteps  BY <1>7 DEF Stop
  <2>2. phase' \in {"new", "running", "unstarted", "closed", "stopped"}
        BY <2>1 DEF StopSteps, PhasesOK
  <2>3. StoppedInOrder'
    <3>1. CASE UNCHANGED stopped  BY <3>1 DEF PhasesOK, StoppedInOrder
    <3>2. CASE stopped # Contexts /\ stopped' = stopped \cup {Cardinality(stopped)}
      <4>1. PICK n \in 0..PoolSize : stopped = 0..(n - 1) /\ Cardinality(stopped) = n
            BY DEF PhasesOK, StoppedInOrder
      <4>2. PoolSize \in Nat /\ n # PoolSize
            BY <3>2, <4>1, ServerAssumption DEF Contexts
      <4>3. stopped' = 0..((n + 1) - 1) /\ n + 1 \in 0..PoolSize
            BY <3>2, <4>1, <4>2
      <4>4. Cardinality(0..((n + 1) - 1)) = n + 1  BY <4>2, FirstContexts
      <4> QED  BY <4>3, <4>4 DEF StoppedInOrder
    <3> QED  BY <2>1, <3>1, <3>2 DEF StopSteps
  <2> QED  BY <2>1, <2>2, <2>3 DEF acceptVars, PhasesOK
<1> QED  BY <1>2, <1>3, <1>4, <1>5, <1>6, <1>7 DEF ServerNext, AppStep

\* The server's variables keep their types: what it knows of sessions, contexts
\* and the queue stays within them, and GetMessage() never waits in pop().
THEOREM ServerTypeCorrect == ServerSpec => []ServerTypeOK
<1>1. ServerInit => PhasesOK /\ LimitsOK
  <2>1. ServerInit => LimitsOK
        BY SessionAssumption DEF ServerInit, SessionInit, LimitsOK
  <2> QED  BY <2>1, PhasesStart
<1>2. ServerInv /\ ReadInv /\ PhasesOK /\ LimitsOK /\ [ServerNext]_serverVars
      => PhasesOK' /\ LimitsOK'
  <2> SUFFICES ASSUME ServerInv, ReadInv, PhasesOK, LimitsOK, [ServerNext]_serverVars
               PROVE  PhasesOK' /\ LimitsOK'
      OBVIOUS
  <2>1. [\E s \in Sessions : Moves(s)]_sessionVars
        BY ServerMoves DEF ServerInv, SessionMove, SessionStep, Moves
  <2> QED  BY <2>1, PhasesStep, LimitsStep DEF ServerInv, WriteInv, ReadInv
<1>3. ServerInv /\ ReadInv /\ InboxInv /\ PhasesOK /\ LimitsOK => ServerTypeOK
  <2> SUFFICES ASSUME ServerInv, ReadInv, InboxInv, PhasesOK, LimitsOK
               PROVE  ServerTypeOK
      OBVIOUS
  <2>1. SessionTypeOK  BY SessionTypes DEF ServerInv
  <2>2. Ids \subseteq 1..(sessionId_ - 1) /\ sending \subseteq Ids
        BY DEF ServerInv, TableOK
  <2>3. waiting = {} /\ Len(origin) = pushed  BY DEF InboxInv, InboxTypeOK
  <2>4. stopped \subseteq Contexts
    <3>1. PICK n \in 0..PoolSize : stopped = 0..(n - 1)  BY DEF PhasesOK, StoppedInOrder
    <3> QED  BY <3>1, ServerAssumption DEF Contexts
  <2> QED  BY <2>1, <2>2, <2>3, <2>4 DEF PhasesOK, ServerTypeOK
<1>4. ServerSpec => [](PhasesOK /\ LimitsOK)
      BY <1>1, <1>2, ServerInvariant, ServerReads, PTL DEF ServerSpec
<1> QED  BY <1>3, <1>4, ServerInvariant, ServerReads, ServerQueue, PTL
===============================================================================
