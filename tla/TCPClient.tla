------------------------------- MODULE TCPClient -------------------------------
(* Utils::TCP::TCPClient (TCP/src/Client.cpp): one io_context, a session and  *)
(* a detached thread in run() for each successful ConnectToServer(), and a    *)
(* MessageQueue between the sessions' handlers and RecData(). An io_context   *)
(* that runs out of work is stopped: its threads leave run(), and as nothing  *)
(* restarts it, threads that come later leave at once. One thread, `app`,     *)
(* makes the calls. A call that dereferences the null sessionPtr_, and the    *)
(* end of an io_context that a thread still uses, are undefined.              *)
EXTENDS Inbox

CONSTANT NoSession     \* the null sessionPtr_

ASSUME ClientAssumption == NoSession \notin Sessions

VARIABLES
    sessionPtr_,
    connected,         \* the sessions of successful connects,
    deaf,              \* and those of them that came after the context stopped
    starting,          \* threads on their way into run()
    running,           \* threads in run()
    stopped,           \* ioContext_ has run out of work
    phase,             \* "alive", in the destructor "closing", "gone"
    undefined          \* whatever happens next is undefined

contextVars == <<starting, running, stopped>>
clientVars == <<sessionVars, sessionPtr_, connected, deaf, contextVars, phase, undefined,
                inboxVars>>

ClientInit == /\ SessionInit /\ InboxInit
              /\ sessionPtr_ = NoSession
              /\ connected = {} /\ deaf = {}
              /\ starting = 0 /\ running = 0
              /\ stopped = FALSE
              /\ phase = "alive"
              /\ undefined = FALSE

-------------------------------------------------------------------------------
(* The calls of the application. *)

AppFree == phase = "alive" /\ polling[app] = "idle"

\* A connect that fails leaves no trace.
ConnectToServer(s) ==
    /\ AppFree /\ s \notin connected
    /\ Start(s)
    /\ sessionPtr_' = s
    /\ connected' = connected \cup {s}
    /\ deaf' = IF stopped THEN deaf \cup {s} ELSE deaf
    /\ starting' = starting + 1
    /\ UNCHANGED <<running, stopped, phase, undefined, inboxVars>>

\* sessionPtr_->SentData() or sessionPtr_->Close().
Dereference(action) ==
    /\ IF sessionPtr_ = NoSession THEN undefined' = TRUE /\ UNCHANGED sessionVars
                                  ELSE action /\ UNCHANGED undefined
    /\ UNCHANGED <<sessionPtr_, connected, deaf, contextVars, inboxVars>>

SendData == AppFree /\ Dereference(SentData(sessionPtr_)) /\ UNCHANGED phase

CloseConnection == AppFree /\ Dereference(Close(sessionPtr_)) /\ UNCHANGED phase

\* RecData(): false if empty() is true.
Poll == /\ AppFree
        /\ LookInside
        /\ UNCHANGED <<sessionVars, sessionPtr_, connected, deaf, contextVars, phase, undefined>>

Fetch == /\ TakeOut
         /\ UNCHANGED <<sessionVars, sessionPtr_, connected, deaf, contextVars, phase, undefined>>

\* ~TCPClient(): CloseConnection(), then the members go.
Destroy == /\ AppFree /\ phase' = "closing"
           /\ Dereference(Close(sessionPtr_))

Release == /\ phase = "closing" /\ phase' = "gone"
           /\ undefined' = (starting + running > 0)
           /\ UNCHANGED <<sessionVars, sessionPtr_, connected, deaf, contextVars, inboxVars>>

-------------------------------------------------------------------------------
(* The detached threads. *)

\* An operation or its handler keeps the context at work.
Outstanding(s) == reading[s] # "none" \/ inFlight[s] # <<>> \/ outcomes[s] # <<>>

Busy == \E s \in connected : Outstanding(s)

EnterRun == /\ starting > 0
            /\ starting' = starting - 1 /\ running' = running + 1
            /\ stopped' = (stopped \/ ~Busy)
            /\ UNCHANGED <<sessionVars, sessionPtr_, connected, deaf, phase, undefined,
                           inboxVars>>

LeaveRun == /\ running > 0 /\ stopped
            /\ running' = running - 1
            /\ UNCHANGED <<sessionVars, sessionPtr_, connected, deaf, starting, stopped,
                           phase, undefined, inboxVars>>

Polled == running > 0 /\ ~stopped

OtherHandler(s) == /\ ReadError(s) \/ AsyncWrite(s)
                   /\ UNCHANGED inboxVars

RunHandler(s) ==
    /\ Polled
    /\ Deliver(s) \/ OtherHandler(s)
    /\ UNCHANGED <<sessionPtr_, connected, deaf, starting, running, phase, undefined>>
    /\ stopped' = ~Busy'

\* An operation may also take effect in the call that starts it, without the
\* thread.
Operate(s) ==
    /\ Network(s)
    /\ UNCHANGED <<sessionPtr_, connected, deaf, contextVars, phase, undefined, inboxVars>>

Outside(s) ==
    /\ Peer(s)
    /\ UNCHANGED <<sessionPtr_, connected, deaf, contextVars, phase, undefined, inboxVars>>

-------------------------------------------------------------------------------
AppCall == SendData \/ CloseConnection \/ Poll \/ Fetch \/ Destroy \/ Release

ClientNext ==
    /\ phase # "gone" /\ ~undefined
    /\ \/ AppCall \/ EnterRun \/ LeaveRun
       \/ \E s \in Sessions : ConnectToServer(s)
       \/ \E s \in connected : RunHandler(s) \/ Operate(s) \/ Outside(s)

ClientSpec == ClientInit /\ [][ClientNext]_clientVars

\* Threads are scheduled, and what a polled operation waits for reaches it; no
\* call and no peer is obliged to anything.
Receives(s) == Polled /\ (ReadSome(s) \/ ReadFails(s)) /\ Operate(s)
Transmits(s) == Polled /\ (Transmit(s) \/ WriteFails(s)) /\ Operate(s)
ReadHandler(s) == (ReadOk(s) \/ ReadError(s)) /\ RunHandler(s)
WriteHandler(s) == AsyncWrite(s) /\ RunHandler(s)

Usable == phase # "gone" /\ ~undefined

ClientFairness ==
    /\ WF_clientVars(Usable /\ EnterRun)
    /\ WF_clientVars(Usable /\ LeaveRun)
    /\ \A s \in Sessions :
          /\ WF_clientVars(Usable /\ s \in connected /\ Receives(s))
          /\ WF_clientVars(Usable /\ s \in connected /\ Transmits(s))
          /\ WF_clientVars(Usable /\ s \in connected /\ ReadHandler(s))
          /\ WF_clientVars(Usable /\ s \in connected /\ WriteHandler(s))

ClientFairSpec == ClientSpec /\ ClientFairness

-------------------------------------------------------------------------------
\* The variables keep their types, and RecData() never waits in pop().
ClientTypeOK ==
    /\ SessionTypeOK
    /\ sessionPtr_ \in connected \cup {NoSession}
    /\ connected \subseteq Sessions /\ deaf \subseteq connected
    /\ starting \in 0..Cardinality(connected)
    /\ running \in 0..Cardinality(connected)
    /\ stopped \in BOOLEAN /\ undefined \in BOOLEAN
    /\ phase \in {"alive", "closing", "gone"}
    /\ waiting = {}
    /\ Len(origin) = pushed

\* A thread serves a session as long as its socket is open, whatever was sent,
\* received and connected before; a session connected after the context has
\* stopped is never served, though ConnectToServer() returned true.
ServedWhileOpen ==
    \A s \in connected :
        IF s \in deaf THEN received[s] = <<>> /\ Len(out[s]) <= 1
                      ELSE open[s] => ~stopped /\ starting + running > 0

\* A message given to SendData() goes out while the connection lasts.
SentGoesOut ==
    \A s \in Sessions : \A n \in 1..MaxSends[s] :
        (asked[s] >= n /\ s \notin deaf) ~>
            (Len(out[s]) >= n \/ ~open[s] \/ ~peerOpen[s] \/ ~Usable)

\* When every connection is closed the threads leave the io_context: from then
\* on the client can be destroyed.
ThreadsLeave ==
    (connected # {} /\ \A s \in connected : ~open[s]) ~>
        (starting + running = 0 \/ ~Usable \/ \E s \in connected : open[s])
===============================================================================
