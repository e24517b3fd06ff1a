--------------------------- MODULE TCPClientProofs ---------------------------
(* Theorems about TCPClient: its sessions are those Session describes, and    *)
(* the io_context does not stop while one of them is open, so that exactly    *)
(* the connections made after it has stopped are never served.                *)
EXTENDS TCPClient, SessionProofs, FiniteSetTheorems

-------------------------------------------------------------------------------
(* What holds of the io_context and its threads, and of a session. A session  *)
(* nobody connected is as it was made. One that is connected has a read       *)
(* outstanding, which keeps the context at work, until its socket is closed.  *)
(* Of one the context came too late for, no handler ever runs.                *)

ContextOK == /\ connected \subseteq Sessions /\ deaf \subseteq connected
             /\ sessionPtr_ \in connected \cup {NoSession}
             /\ starting \in Nat /\ running \in Nat /\ stopped \in BOOLEAN
             /\ deaf # {} => stopped
             /\ ~stopped /\ connected # {} => starting + running > 0

Unused(s) == received[s] = <<>> /\ out[s] = <<>> /\ outcomes[s] = <<>>

ReadingWhileOpen(s) == open[s] => reading[s] # "none"

\* Every write that took effect still waits for its handler.
Unhandled(s) == received[s] = <<>> /\ Len(out[s]) <= Len(outcomes[s])

LinkOK(s) ==
    /\ s \notin connected => Unused(s)
    /\ s \in connected => ReadingWhileOpen(s)
    /\ s \in connected \ deaf => (open[s] => ~stopped)
    /\ s \in deaf => Unhandled(s)

ClientInv == WriteInv /\ ReadInv /\ ContextOK /\ \A s \in Sessions : LinkOK(s)

\* The steps of session s that are not handlers, once it has been started.
Service(s) == Network(s) \/ Peer(s) \/ SentData(s) \/ Close(s)

SessionStep(s) == Start(s) \/ Handler(s) \/ Service(s)

\* What LinkOK says of a session is about these.
Same(s) == /\ open'[s] = open[s] /\ reading'[s] = reading[s]
           /\ received'[s] = received[s]
           /\ out'[s] = out[s] /\ outcomes'[s] = outcomes[s]

-------------------------------------------------------------------------------
(* The steps of a session. *)

\* A step of session t is a step of no other session.
LEMMA Elsewhere ==
    ASSUME WriteTypeOK, ReadTypeOK, NEW t \in Sessions, SessionStep(t),
           NEW s \in Sessions, s # t
    PROVE  Same(s)
<1> USE DEF WriteTypeOK, ReadTypeOK, Same
<1>1. CASE Start(t)  BY <1>1 DEF Start, DoRead, writeVars
<1>2. CASE ReadOk(t)  BY <1>2 DEF ReadOk, DoRead, writeVars
<1>3. CASE ReadError(t)  BY <1>3 DEF ReadError, writeVars
<1>4. CASE AsyncWrite(t)
      BY <1>4 DEF AsyncWrite, WriteOk, WriteError, readVars
<1>5. CASE ReadSome(t)  BY <1>5 DEF ReadSome, DoRead, writeVars
<1>6. CASE ReadFails(t)  BY <1>6 DEF ReadFails, writeVars
<1>7. CASE Transmit(t) \/ WriteFails(t)
      BY <1>7 DEF Transmit, WriteFails, Completed, readVars
<1>8. CASE Peer(t)  BY <1>8 DEF Peer, PeerSend, PeerClose, readVars, writeVars
<1>9. CASE SentData(t) \/ Close(t)
      BY <1>9 DEF SentData, Close, readVars, writeVars
<1> QED  BY <1>1, <1>2, <1>3, <1>4, <1>5, <1>6, <1>7, <1>8, <1>9
         DEF SessionStep, Handler, Service, Network

\* No step opens a socket, and a read chain ends only together with it.
LEMMA ChainOfReads ==
    ASSUME WriteTypeOK, ReadTypeOK, NEW s \in Sessions, Handler(s) \/ Service(s),
           ReadingWhileOpen(s)
    PROVE  ReadingWhileOpen(s)' /\ (open'[s] => open[s])
<1> USE DEF WriteTypeOK, ReadTypeOK, ReadingWhileOpen
<1>1. CASE ReadOk(s)  BY <1>1 DEF ReadOk, DoRead
<1>2. CASE ReadError(s)  BY <1>2 DEF ReadError
<1>3. CASE AsyncWrite(s)
      BY <1>3 DEF AsyncWrite, WriteOk, WriteError, readVars
<1>4. CASE ReadSome(s)  BY <1>4 DEF ReadSome, DoRead
<1>5. CASE ReadFails(s)  BY <1>5 DEF ReadFails
<1>6. CASE Transmit(s) \/ WriteFails(s)
      BY <1>6 DEF Transmit, WriteFails, Completed, readVars
<1>7. CASE Peer(s)  BY <1>7 DEF Peer, PeerSend, PeerClose, readVars
<1>8. CASE SentData(s) \/ Close(s)
      BY <1>8 DEF SentData, Close, readVars
<1> QED  BY <1>1, <1>2, <1>3, <1>4, <1>5, <1>6, <1>7, <1>8
         DEF Handler, Service, Network

\* What takes effect without a handler is received by none, and waits for one.
LEMMA NothingHandled ==
    ASSUME WriteTypeOK, NEW s \in Sessions, Service(s), Unhandled(s)
    PROVE  Unhandled(s)'
<1> USE DEF WriteTypeOK, Unhandled
<1>1. CASE Transmit(s)
  <2>1. PICK i \in 1..Len(inFlight[s]) :
            /\ out' = [out EXCEPT ![s] = Append(@, inFlight[s][i])]
            /\ Completed(s, i, "ok")
        BY <1>1 DEF Transmit
  <2>2. inFlight[s][i] \in Nat /\ out[s] \in Seq(Nat)
        /\ outcomes[s] \in Seq({"ok", "failed"})  OBVIOUS
  <2>3. /\ out'[s] = Append(out[s], inFlight[s][i])
        /\ outcomes'[s] = Append(outcomes[s], "ok")
        BY <2>1 DEF Completed
  <2>4. Len(out'[s]) = Len(out[s]) + 1 /\ Len(outcomes'[s]) = Len(outcomes[s]) + 1
        BY <2>2, <2>3
  <2> QED  BY <2>1, <2>2, <2>4 DEF Completed, readVars
<1>2. CASE WriteFails(s)
  <2>1. outcomes'[s] = Append(outcomes[s], "failed") /\ UNCHANGED <<out, received>>
        BY <1>2 DEF WriteFails, Completed, readVars
  <2>2. outcomes[s] \in Seq({"ok", "failed"}) /\ out[s] \in Seq(Nat)  OBVIOUS
  <2>3. Len(outcomes'[s]) = Len(outcomes[s]) + 1  BY <2>1, <2>2
  <2> QED  BY <2>1, <2>2, <2>3
<1>3. CASE ReadSome(s) \/ ReadFails(s)
      BY <1>3 DEF ReadSome, ReadFails, writeVars
<1>4. CASE Peer(s) \/ SentData(s) \/ Close(s)
      BY <1>4 DEF Peer, PeerSend, PeerClose, SentData, Close, readVars, writeVars
<1> QED  BY <1>1, <1>2, <1>3, <1>4 DEF Service, Network

\* A step of a session keeps what is proved of sessions alone.
LEMMA SessionsKept ==
    ASSUME WriteInv, ReadInv,
           UNCHANGED sessionVars \/ \E s \in Sessions : SessionStep(s)
    PROVE  WriteInv' /\ ReadInv'
<1>1. [\E s \in Sessions : Handler(s) \/ Network(s) \/ Peer(s) \/ User(s)
          \/ Expire(s)]_sessionVars
      BY DEF SessionStep, Service, User
<1> QED  BY <1>1, WriteStep, ReadStep

-------------------------------------------------------------------------------
(* The steps of the client. *)

\* An open session keeps the io_context from running out of work.
LEMMA OpenIsBusy ==
    ASSUME NEW s \in connected, ReadingWhileOpen(s), open[s]
    PROVE  Busy
BY DEF ReadingWhileOpen, Busy, Outstanding

\* A step that leaves all sessions as they are, EnterRun among them.
LEMMA QuietStep ==
    ASSUME ClientInv, UNCHANGED <<sessionVars, connected, deaf>>,
           stopped' = stopped \/ stopped' = (stopped \/ ~Busy),
           NEW s \in Sessions
    PROVE  LinkOK(s)'
<1>1. LinkOK(s)  BY DEF ClientInv
<1>2. UNCHANGED <<open, reading, received, out, outcomes>>
      BY DEF sessionVars, readVars, writeVars
<1>3. ASSUME s \in connected \ deaf, open[s] PROVE ~stopped'
  <2>1. ~stopped /\ Busy  BY <1>1, <1>3, OpenIsBusy DEF LinkOK
  <2> QED  BY <2>1
<1> QED  BY <1>1, <1>2, <1>3 DEF LinkOK, Unused, ReadingWhileOpen, Unhandled

\* A step of a connected session without its handlers.
LEMMA ServiceStep ==
    ASSUME ClientInv, NEW t \in connected, Service(t),
           UNCHANGED <<connected, deaf, stopped>>,
           NEW s \in Sessions
    PROVE  LinkOK(s)'
<1>1. LinkOK(s) /\ t \in Sessions  BY DEF ClientInv, ContextOK
<1>2. WriteTypeOK /\ ReadTypeOK  BY DEF ClientInv, WriteInv, ReadInv
<1>3. CASE s # t
  <2>1. Same(s)  BY <1>1, <1>2, <1>3, Elsewhere DEF SessionStep
  <2> QED  BY <1>1, <2>1 DEF Same, LinkOK, Unused, ReadingWhileOpen, Unhandled
<1>4. CASE s = t
  <2>1. ReadingWhileOpen(s)' /\ (open'[s] => open[s])
        BY <1>1, <1>2, <1>4, ChainOfReads DEF LinkOK
  <2>2. Unhandled(s) => Unhandled(s)'
        BY <1>1, <1>2, <1>4, NothingHandled
  <2> QED  BY <1>1, <1>4, <2>1, <2>2 DEF LinkOK
<1> QED  BY <1>3, <1>4

\* A handler, which runs only while the context has not stopped and so no
\* session came too late.
LEMMA HandlerStep ==
    ASSUME ClientInv, NEW t \in connected, RunHandler(t), NEW s \in Sessions
    PROVE  LinkOK(s)'
<1>0. /\ LinkOK(s) /\ LinkOK(t) /\ t \in Sessions /\ deaf = {}
      /\ UNCHANGED <<connected, deaf>> /\ stopped' = ~Busy'
      /\ connected \subseteq Sessions
      BY DEF ClientInv, ContextOK, RunHandler, Polled
<1>1. Handler(t)
      BY DEF RunHandler, Deliver, OtherHandler, Handler
<1>2. WriteTypeOK /\ ReadTypeOK  BY DEF ClientInv, WriteInv, ReadInv
<1>3. s \in connected => ReadingWhileOpen(s)'
  <2>1. CASE s # t
        BY <1>0, <1>1, <1>2, <2>1, Elsewhere DEF SessionStep, Same, LinkOK, ReadingWhileOpen
  <2>2. CASE s = t  BY <1>0, <1>1, <1>2, <2>2, ChainOfReads DEF LinkOK
  <2> QED  BY <2>1, <2>2
<1>4. s \in connected /\ open'[s] => ~stopped'
      BY <1>0, <1>3 DEF ReadingWhileOpen, Busy, Outstanding
<1>5. s \notin connected => Unused(s)'
      BY <1>0, <1>1, <1>2, Elsewhere DEF SessionStep, Same, LinkOK, Unused
<1> QED  BY <1>0, <1>3, <1>4, <1>5 DEF LinkOK

\* A new connection has its first read, and is served unless it comes too late.
LEMMA ConnectStep ==
    ASSUME ClientInv, NEW t \in Sessions, ConnectToServer(t), NEW s \in Sessions
    PROVE  LinkOK(s)'
<1>0. /\ LinkOK(s) /\ LinkOK(t) /\ t \notin connected
      /\ connected' = connected \cup {t} /\ UNCHANGED stopped
      /\ deaf' = IF stopped THEN deaf \cup {t} ELSE deaf
      /\ deaf \subseteq connected
      BY DEF ClientInv, ContextOK, ConnectToServer
<1>1. Start(t)  BY DEF ConnectToServer
<1>2. WriteTypeOK /\ ReadTypeOK  BY DEF ClientInv, WriteInv, ReadInv
<1>3. CASE s # t
  <2>1. Same(s)  BY <1>1, <1>2, <1>3, Elsewhere DEF SessionStep
  <2> QED  BY <1>0, <1>3, <2>1 DEF Same, LinkOK, Unused, ReadingWhileOpen, Unhandled
<1>4. CASE s = t
  <2>1. reading'[t] # "none"  BY <1>1, <1>2 DEF Start, DoRead, ReadTypeOK
  <2>2. Unused(t)'  BY <1>0, <1>1 DEF LinkOK, Unused, Start, writeVars
  <2>3. Unhandled(t)'  BY <2>2 DEF Unused, Unhandled
  <2> QED  BY <1>0, <1>4, <2>1, <2>2, <2>3 DEF LinkOK, ReadingWhileOpen
<1> QED  BY <1>3, <1>4

-------------------------------------------------------------------------------
(* The invariant. *)

\* Before the first connect nothing has happened.
LEMMA ClientStarts == ClientInit => ClientInv
<1> SUFFICES ASSUME ClientInit PROVE ClientInv
    OBVIOUS
<1>1. WriteInv /\ ReadInv  BY WriteInit, ReadInit DEF ClientInit
<1>2. ContextOK  BY DEF ClientInit, ContextOK
<1>3. ASSUME NEW s \in Sessions PROVE LinkOK(s)
      BY DEF ClientInit, SessionInit, LinkOK, Unused
<1> QED  BY <1>1, <1>2, <1>3 DEF ClientInv

\* A call that uses sessionPtr_ steps a connected session, or nothing.
LEMMA CallStep ==
    ASSUME ClientInv, SendData \/ CloseConnection \/ Destroy
    PROVE  ClientInv'
<1>1. /\ UNCHANGED <<sessionPtr_, connected, deaf, starting, running, stopped>>
      /\ \/ UNCHANGED sessionVars
         \/ sessionPtr_ # NoSession /\ Service(sessionPtr_)
      BY DEF SendData, CloseConnection, Destroy, Dereference, contextVars, Service
<1>2. ContextOK'  BY <1>1 DEF ClientInv, ContextOK
<1>3. CASE UNCHANGED sessionVars
  <2>1. WriteInv' /\ ReadInv'  BY <1>3, SessionsKept DEF ClientInv
  <2>2. \A s \in Sessions : LinkOK(s)'  BY <1>1, <1>3, QuietStep
  <2> QED  BY <1>2, <2>1, <2>2 DEF ClientInv
<1>4. CASE sessionPtr_ # NoSession /\ Service(sessionPtr_)
  <2>1. sessionPtr_ \in connected /\ sessionPtr_ \in Sessions
        BY <1>4 DEF ClientInv, ContextOK
  <2>2. WriteInv' /\ ReadInv'
        BY <1>4, <2>1, SessionsKept DEF ClientInv, SessionStep
  <2>3. \A s \in Sessions : LinkOK(s)'  BY <1>1, <1>4, <2>1, ServiceStep
  <2> QED  BY <1>2, <2>2, <2>3 DEF ClientInv
<1> QED  BY <1>1, <1>3, <1>4

\* The steps without a session.
LEMMA ThreadStep ==
    ASSUME ClientInv, Poll \/ Fetch \/ Release \/ EnterRun \/ LeaveRun
    PROVE  ClientInv'
<1>1. /\ UNCHANGED <<sessionVars, sessionPtr_, connected, deaf>>
      /\ stopped' = stopped \/ stopped' = (stopped \/ ~Busy)
      BY DEF Poll, Fetch, Release, EnterRun, LeaveRun, contextVars
<1>2. ContextOK'
  <2>1. CASE Poll \/ Fetch \/ Release
        BY <2>1 DEF Poll, Fetch, Release, contextVars, ClientInv, ContextOK
  <2>2. CASE EnterRun  BY <2>2 DEF EnterRun, ClientInv, ContextOK
  <2>3. CASE LeaveRun  BY <2>3 DEF LeaveRun, ClientInv, ContextOK
  <2> QED  BY <2>1, <2>2, <2>3
<1>3. WriteInv' /\ ReadInv'  BY <1>1, SessionsKept DEF ClientInv
<1>4. \A s \in Sessions : LinkOK(s)'  BY <1>1, QuietStep
<1> QED  BY <1>2, <1>3, <1>4 DEF ClientInv

\* The invariant is inductive.
LEMMA ClientStep == ClientInv /\ [ClientNext]_clientVars => ClientInv'
<1> SUFFICES ASSUME ClientInv, [ClientNext]_clientVars PROVE ClientInv'
    OBVIOUS
<1>1. CASE UNCHANGED clientVars
  <2>1. UNCHANGED <<sessionVars, sessionPtr_, connected, deaf, starting, running, stopped>>
        BY <1>1 DEF clientVars, contextVars
  <2>2. WriteInv' /\ ReadInv'  BY <2>1, SessionsKept DEF ClientInv
  <2>3. \A s \in Sessions : LinkOK(s)'  BY <2>1, QuietStep
  <2> QED  BY <2>1, <2>2, <2>3 DEF ClientInv, ContextOK
<1>2. CASE AppCall \/ EnterRun \/ LeaveRun
      BY <1>2, CallStep, ThreadStep DEF AppCall
<1>3. ASSUME NEW t \in Sessions, ConnectToServer(t) PROVE ClientInv'
  <2>1. WriteInv' /\ ReadInv'
        BY <1>3, SessionsKept DEF ClientInv, ConnectToServer, SessionStep
  <2>2. ContextOK'
        BY <1>3 DEF ConnectToServer, ClientInv, ContextOK
  <2>3. \A s \in Sessions : LinkOK(s)'  BY <1>3, ConnectStep
  <2> QED  BY <2>1, <2>2, <2>3 DEF ClientInv
<1>4. ASSUME NEW t \in connected, RunHandler(t) PROVE ClientInv'
  <2>1. t \in Sessions /\ Handler(t)
        BY <1>4 DEF ClientInv, ContextOK, RunHandler, Deliver, OtherHandler, Handler
  <2>2. WriteInv' /\ ReadInv'  BY <2>1, SessionsKept DEF ClientInv, SessionStep
  <2>3. ContextOK'
        BY <1>4 DEF RunHandler, Polled, ClientInv, ContextOK
  <2>4. \A s \in Sessions : LinkOK(s)'  BY <1>4, HandlerStep
  <2> QED  BY <2>2, <2>3, <2>4 DEF ClientInv
<1>5. ASSUME NEW t \in connected, Operate(t) \/ Outside(t) PROVE ClientInv'
  <2>1. /\ Service(t) /\ t \in Sessions
        /\ UNCHANGED <<sessionPtr_, connected, deaf, starting, running, stopped>>
        BY <1>5 DEF Operate, Outside, Service, contextVars, ClientInv, ContextOK
  <2>2. WriteInv' /\ ReadInv'  BY <2>1, SessionsKept DEF ClientInv, SessionStep
  <2>3. ContextOK'  BY <2>1 DEF ClientInv, ContextOK
  <2>4. \A s \in Sessions : LinkOK(s)'  BY <1>5, <2>1, ServiceStep
  <2> QED  BY <2>2, <2>3, <2>4 DEF ClientInv
<1> QED  BY <1>1, <1>2, <1>3, <1>4, <1>5 DEF ClientNext

\* It holds of every behaviour.
LEMMA ClientInvariant == ClientSpec => []ClientInv
<1> QED  BY ClientStarts, ClientStep, PTL DEF ClientSpec

\* It implies that an open session is served, and one that came too late never.
LEMMA InvServes == ClientInv => ServedWhileOpen
<1> SUFFICES ASSUME ClientInv, NEW s \in connected
             PROVE  IF s \in deaf THEN received[s] = <<>> /\ Len(out[s]) <= 1
                                  ELSE open[s] => ~stopped /\ starting + running > 0
    BY DEF ServedWhileOpen
<1>1. s \in Sessions /\ ContextOK /\ LinkOK(s) /\ WriteInv
      BY DEF ClientInv, ContextOK
<1>2. CASE s \in deaf
  <2>1. Len(inFlight[s]) + Len(outcomes[s]) <= 1
        BY <1>1 DEF WriteInv, Chain, ChainOf, Linked, Attended
  <2>2. Len(inFlight[s]) \in Nat /\ Len(outcomes[s]) \in Nat /\ Len(out[s]) \in Nat
        BY <1>1 DEF WriteInv, WriteTypeOK
  <2>3. received[s] = <<>> /\ Len(out[s]) <= Len(outcomes[s])
        BY <1>1, <1>2 DEF LinkOK, Unhandled
  <2>4. \A f, o, w \in Nat : f + o <= 1 /\ w <= o => w <= 1  OBVIOUS
  <2>5. Len(out[s]) <= 1  BY <2>1, <2>2, <2>3, <2>4
  <2> QED  BY <1>2, <2>3, <2>5
<1>3. CASE s \notin deaf  BY <1>1, <1>3 DEF LinkOK, ContextOK
<1> QED  BY <1>2, <1>3

-------------------------------------------------------------------------------
\* Whatever is connected, sent, received and closed, in any order: an open
\* session that was connected before the io_context stopped has a thread to
\* serve it, one that was connected later never receives anything.
THEOREM ConnectionsServed == ClientSpec => []ServedWhileOpen
<1> QED  BY InvServes, ClientInvariant, PTL

\* The messages of each session of the client leave in the order of SendData(),
\* one write at a time.
THEOREM ClientWritesInOrder == ClientSpec => []OneWriteInOrder
<1>1. ClientInv => WriteInv  BY DEF ClientInv
<1> QED  BY <1>1, InvInOrder, ClientInvariant, PTL

\* The message handler of each session of the client gets the pieces in the
\* order they were sent, none twice.
THEOREM ClientReadsInOrder == ClientSpec => []ReceivedInOrder
<1>1. ClientInv => ReadInv  BY DEF ClientInv
<1> QED  BY <1>1, ReadInOrder, ClientInvariant, PTL

-------------------------------------------------------------------------------
(* The steps of the client as its sessions and its queue see them. *)

\* A call that uses sessionPtr_ uses a connected session.
LEMMA DereferenceMoves ==
    ASSUME ContextOK, SendData \/ CloseConnection \/ Destroy
    PROVE  /\ UNCHANGED sessionVars \/ \E s \in Sessions : User(s) /\ Moves(s)
           /\ UNCHANGED <<inboxVars, received>>
<1>1. /\ UNCHANGED inboxVars
      /\ \/ UNCHANGED sessionVars
         \/ sessionPtr_ # NoSession /\ User(sessionPtr_)
      BY DEF SendData, CloseConnection, Destroy, Dereference, User
<1>2. CASE UNCHANGED sessionVars  BY <1>1, <1>2 DEF sessionVars, readVars
<1>3. CASE sessionPtr_ # NoSession /\ User(sessionPtr_)
  <2>1. sessionPtr_ \in Sessions  BY <1>3 DEF ContextOK
  <2>2. UNCHANGED received  BY <1>3, ReceivesNothing
  <2> QED  BY <1>1, <1>3, <2>1, <2>2 DEF Moves
<1> QED  BY <1>1, <1>2, <1>3

\* Every step is one of a session, or of none.
LEMMA ClientMoves ==
    ASSUME ContextOK, [ClientNext]_clientVars
    PROVE  [\E s \in Sessions : Moves(s)]_sessionVars
<1>1. CASE UNCHANGED clientVars  BY <1>1 DEF clientVars
<1>2. CASE SendData \/ CloseConnection \/ Destroy  BY <1>2, DereferenceMoves
<1>3. CASE Poll \/ Fetch \/ Release \/ EnterRun \/ LeaveRun
      BY <1>3 DEF Poll, Fetch, Release, EnterRun, LeaveRun
<1>4. CASE \E s \in Sessions : ConnectToServer(s)
      BY <1>4 DEF ConnectToServer, Moves, User
<1>5. ASSUME NEW s \in connected, RunHandler(s) \/ Operate(s) \/ Outside(s)
      PROVE  \E t \in Sessions : Moves(t)
  <2>1. s \in Sessions  BY DEF ContextOK
  <2> QED  BY <1>5, <2>1 DEF RunHandler, Deliver, OtherHandler, Operate, Outside, Moves, Handler
<1> QED  BY <1>1, <1>2, <1>3, <1>4, <1>5 DEF ClientNext, AppCall

\* And it moves the queue as Inbox has it.
LEMMA ClientQueueMoves ==
    ASSUME ContextOK, [ClientNext]_clientVars
    PROVE  InboxMove
<1>1. CASE UNCHANGED clientVars
      BY <1>1 DEF clientVars, sessionVars, readVars, InboxMove
<1>2. CASE SendData \/ CloseConnection \/ Destroy
      BY <1>2, DereferenceMoves DEF InboxMove
<1>3. CASE Poll \/ Fetch \/ Release \/ EnterRun \/ LeaveRun
      BY <1>3 DEF Poll, Fetch, Release, EnterRun, LeaveRun, sessionVars, readVars, InboxMove
<1>4. ASSUME NEW s \in Sessions, ConnectToServer(s) PROVE InboxMove
      BY <1>4, ReceivesNothing DEF ConnectToServer, User, InboxMove
<1>5. ASSUME NEW s \in connected, RunHandler(s) PROVE InboxMove
  <2>1. s \in Sessions  BY DEF ContextOK
  <2>2. CASE Deliver(s)  BY <2>1, <2>2 DEF InboxMove
  <2>3. CASE OtherHandler(s)
        BY <2>3, ReceivesNothing DEF OtherHandler, InboxMove
  <2> QED  BY <1>5, <2>2, <2>3 DEF RunHandler
<1>6. ASSUME NEW s \in connected, Operate(s) \/ Outside(s) PROVE InboxMove
      BY <1>6, ReceivesNothing DEF Operate, Outside, InboxMove
<1> QED  BY <1>1, <1>2, <1>3, <1>4, <1>5, <1>6 DEF ClientNext, AppCall

\* The queue of the client keeps its invariant,
LEMMA ClientQueue == ClientSpec => []InboxInv
<1>1. ClientInit => InboxInv  BY InboxStarts DEF ClientInit
<1>2. ClientInv /\ InboxInv /\ [ClientNext]_clientVars => InboxInv'
      BY ClientQueueMoves, InboxStep DEF ClientInv
<1> QED  BY <1>1, <1>2, ClientInvariant, PTL DEF ClientSpec

\* its sessions theirs, when servers wait,
LEMMA ClientPaced == ASSUME Paced PROVE ClientSpec => []PacedInv
<1>1. ClientInit => PacedInv  BY PacedInit DEF ClientInit
<1>2. ClientInv /\ PacedInv /\ [ClientNext]_clientVars => PacedInv'
      BY ClientMoves, PacedStep DEF ClientInv
<1> QED  BY <1>1, <1>2, ClientInvariant, PTL DEF ClientSpec

\* and then every message pushed is whole.
LEMMA ClientUnbroken == ASSUME Paced PROVE ClientSpec => []Unbroken
<1>1. ClientInit => Unbroken  BY UnbrokenStarts DEF ClientInit
<1>2. ClientInv /\ PacedInv /\ InboxInv /\ Unbroken /\ [ClientNext]_clientVars => Unbroken'
      BY ClientQueueMoves, UnbrokenStep DEF ClientInv
<1> QED  BY <1>1, <1>2, ClientInvariant, ClientPaced, ClientQueue, PTL DEF ClientSpec

\* What RecData() returns, of however many connections one after another or at
\* once, also when the queue was full and others are lost: of each of them
\* messages that end in the order they were sent, none twice. From servers that
\* wait they are whole messages.
THEOREM ClientReturnsInOrder == ClientSpec => []ReturnedInOrder
<1>1. CASE Paced
  <2>1. ClientInv /\ InboxInv /\ Unbroken => ReturnedInOrder  BY InvReturns DEF ClientInv
  <2> QED  BY <1>1, <2>1, ClientInvariant, ClientQueue, ClientUnbroken, PTL
<1>2. CASE ~Paced
  <2>1. ClientInv /\ InboxInv => ReturnedInOrder  BY <1>2, InvReturns DEF ClientInv
  <2> QED  BY <2>1, ClientInvariant, ClientQueue, PTL
<1> QED  BY <1>1, <1>2

\* From servers that wait for their messages to be handled every message
\* reaches RecData(), once and in order, over any number of connections, as
\* long as the application keeps the queue from filling up.
THEOREM ClientEndToEnd ==
    ASSUME Paced
    PROVE  ClientSpec /\ [][RoomOnPush]_clientVars => []EndToEnd
<1>1. ClientInit => Whole  BY WholeStarts DEF ClientInit
<1>2. /\ ClientInv /\ PacedInv /\ InboxInv /\ Whole
      /\ [ClientNext]_clientVars /\ [RoomOnPush]_clientVars
      => Whole'
  <2> SUFFICES ASSUME ClientInv, PacedInv, InboxInv, Whole,
                      [ClientNext]_clientVars, [RoomOnPush]_clientVars
               PROVE  Whole'
      OBVIOUS
  <2>1. InboxMove  BY ClientQueueMoves DEF ClientInv
  <2>2. RoomOnPush  BY DEF RoomOnPush, clientVars, inboxVars, queueVars
  <2> QED  BY <2>1, <2>2, WholeStep DEF ClientInv
<1>3. ClientSpec /\ [][RoomOnPush]_clientVars => []Whole
      BY <1>1, <1>2, ClientInvariant, ClientQueue, ClientPaced, PTL DEF ClientSpec
<1>4. ClientInv /\ InboxInv /\ Whole /\ Unbroken => EndToEnd  BY InvHasAll DEF ClientInv
<1> QED  BY <1>3, <1>4, ClientInvariant, ClientQueue, ClientUnbroken, PTL

\* So nothing is lost, whenever RecData() is called, by a client whose queue has
\* room for all the servers send.
THEOREM ClientDeliversAll ==
    ASSUME Paced, LargeInbox
    PROVE  ClientSpec => []EndToEnd
<1>1. ClientInit => Whole  BY WholeStarts DEF ClientInit
<1>2. ClientInv /\ PacedInv /\ InboxInv /\ Whole
      /\ [ClientNext]_clientVars
      => Whole'
      BY ClientQueueMoves, LargeHasRoom, WholeStep DEF ClientInv
<1>3. ClientSpec => []Whole
      BY <1>1, <1>2, ClientInvariant, ClientQueue, ClientPaced, PTL DEF ClientSpec
<1>4. ClientInv /\ InboxInv /\ Whole /\ Unbroken => EndToEnd  BY InvHasAll DEF ClientInv
<1> QED  BY <1>3, <1>4, ClientInvariant, ClientQueue, ClientUnbroken, PTL

-------------------------------------------------------------------------------
(* The types of the client's variables. *)

\* There is one thread for each connect at most.
ThreadsOK == /\ IsFiniteSet(connected)
             /\ starting + running <= Cardinality(connected)
             /\ phase \in {"alive", "closing", "gone"} /\ undefined \in BOOLEAN

\* Every step keeps that.
LEMMA ThreadsStep ==
    ASSUME ContextOK, ThreadsOK, [ClientNext]_clientVars
    PROVE  ThreadsOK'
<1>0. /\ starting \in Nat /\ running \in Nat
      /\ starting + running <= Cardinality(connected) /\ IsFiniteSet(connected)
      /\ Cardinality(connected) \in Nat
      BY FS_CardinalityType DEF ContextOK, ThreadsOK
<1>1. CASE /\ UNCHANGED <<connected, starting, running>>
           /\ phase' \in {"alive", "closing", "gone"} /\ undefined' \in BOOLEAN
      BY <1>1 DEF ThreadsOK
<1>2. CASE UNCHANGED clientVars
      BY <1>1, <1>2 DEF clientVars, contextVars, ThreadsOK
<1>3. CASE SendData \/ CloseConnection \/ Destroy \/ Poll \/ Fetch \/ Release
  <2>1. UNCHANGED <<connected, starting, running>>
        BY <1>3 DEF SendData, CloseConnection, Destroy, Dereference, Poll, Fetch, Release,
                    contextVars
  <2>2. phase' \in {"alive", "closing", "gone"}
        BY <1>3 DEF SendData, CloseConnection, Destroy, Poll, Fetch, Release, ThreadsOK
  <2>3. CASE SendData \/ CloseConnection \/ Destroy \/ Poll \/ Fetch
    <3>1. undefined' = TRUE \/ undefined' = undefined
          BY <2>3 DEF SendData, CloseConnection, Destroy, Dereference, Poll, Fetch
    <3> QED  BY <1>1, <2>1, <2>2, <3>1 DEF ThreadsOK
  <2>4. CASE Release
    <3>1. undefined' = (starting + running > 0)  BY <2>4 DEF Release
    <3>2. undefined' \in BOOLEAN  BY <3>1
    <3> QED  BY <1>1, <2>1, <2>2, <3>2
  <2> QED  BY <1>3, <2>3, <2>4
<1>4. CASE EnterRun
  <2>1. starting' + running' = starting + running  BY <1>0, <1>4 DEF EnterRun
  <2> QED  BY <1>0, <1>4, <2>1 DEF EnterRun, ThreadsOK
<1>5. CASE LeaveRun
  <2>1. starting' + running' <= Cardinality(connected)  BY <1>0, <1>5 DEF LeaveRun
  <2> QED  BY <1>0, <1>5, <2>1 DEF LeaveRun, ThreadsOK
<1>6. ASSUME NEW s \in Sessions, ConnectToServer(s) PROVE ThreadsOK'
  <2>1. /\ s \notin connected /\ connected' = connected \cup {s}
        /\ starting' = starting + 1 /\ UNCHANGED <<running, phase, undefined>>
        BY <1>6 DEF ConnectToServer
  <2>2. IsFiniteSet(connected') /\ Cardinality(connected') = Cardinality(connected) + 1
        BY <1>0, <2>1, FS_AddElement
  <2>3. starting' + running' <= Cardinality(connected')  BY <1>0, <2>1, <2>2
  <2> QED  BY <2>1, <2>2, <2>3 DEF ThreadsOK
<1>7. CASE \E s \in connected : RunHandler(s) \/ Operate(s) \/ Outside(s)
      BY <1>1, <1>7 DEF RunHandler, Operate, Outside, contextVars, ThreadsOK
<1> QED  BY <1>2, <1>3, <1>4, <1>5, <1>6, <1>7 DEF ClientNext, AppCall

\* The client's variables keep their types: sessionPtr_ is a session that was
\* connected, threads are no more than connects, and RecData() never waits in
\* pop().
THEOREM ClientTypeCorrect == ClientSpec => []ClientTypeOK
<1>1. ClientInit => ThreadsOK /\ LimitsOK
  <2>1. ClientInit => LimitsOK
        BY SessionAssumption DEF ClientInit, SessionInit, LimitsOK
  <2>2. IsFiniteSet({}) /\ Cardinality({}) = 0  BY FS_EmptySet
  <2>3. ClientInit => ThreadsOK
    <3> SUFFICES ASSUME ClientInit PROVE ThreadsOK
        OBVIOUS
    <3>1. connected = {} /\ starting = 0 /\ running = 0  BY DEF ClientInit
    <3>2. phase \in {"alive", "closing", "gone"} /\ undefined \in BOOLEAN
          BY DEF ClientInit
    <3>3. starting + running <= Cardinality(connected)  BY <2>2, <3>1
    <3> QED  BY <2>2, <3>1, <3>2, <3>3 DEF ThreadsOK
  <2> QED  BY <2>1, <2>3
<1>2. ClientInv /\ ThreadsOK /\ LimitsOK /\ [ClientNext]_clientVars
      => ThreadsOK' /\ LimitsOK'
  <2> SUFFICES ASSUME ClientInv, ThreadsOK, LimitsOK, [ClientNext]_clientVars
               PROVE  ThreadsOK' /\ LimitsOK'
      OBVIOUS
  <2>1. ContextOK /\ WriteTypeOK /\ ReadTypeOK  BY DEF ClientInv, WriteInv, ReadInv
  <2> QED  BY <2>1, ThreadsStep, ClientMoves, LimitsStep
<1>3. ClientInv /\ InboxInv /\ ThreadsOK /\ LimitsOK => ClientTypeOK
  <2> SUFFICES ASSUME ClientInv, InboxInv, ThreadsOK, LimitsOK PROVE ClientTypeOK
      OBVIOUS
  <2>1. SessionTypeOK  BY SessionTypes DEF ClientInv
  <2>2. starting \in 0..Cardinality(connected) /\ running \in 0..Cardinality(connected)
    <3>1. starting \in Nat /\ running \in Nat /\ Cardinality(connected) \in Nat
          BY FS_CardinalityType DEF ClientInv, ContextOK, ThreadsOK
    <3> QED  BY <3>1 DEF ThreadsOK
  <2>3. waiting = {} /\ Len(origin) = pushed  BY DEF InboxInv, InboxTypeOK
  <2> QED  BY <2>1, <2>2, <2>3 DEF ClientInv, ContextOK, ThreadsOK, ClientTypeOK
<1>4. ClientSpec => [](ThreadsOK /\ LimitsOK)
      BY <1>1, <1>2, ClientInvariant, PTL DEF ClientSpec
<1> QED  BY <1>3, <1>4, ClientInvariant, ClientQueue, PTL
===============================================================================
