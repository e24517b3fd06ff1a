------------------------------- MODULE TCPServer -------------------------------
(* Utils::TCP::TCPServer (TCP/src/Server.cpp) with its Acceptor and           *)
(* IOContextPool (TCP/src/Acceptor.cpp), its SessionManager, its sessions and *)
(* the MessageQueue between their handlers and GetMessage(). A handler is one *)
(* step of the thread of its context: what another thread does between two of *)
(* its locks commutes with the rest of it. The calls of the one thread that   *)
(* uses the server, `app` (README.md:186), take a step for each of their      *)
(* locks, and Broadcast() one for each session it serves.                     *)
EXTENDS SessionManager, Inbox

CONSTANTS
    PoolSize,          \* contexts, and threads that run them
    Vanishing,         \* the peers that may close their end
    Idling             \* the sessions that may become idle for clockTime_

ASSUME ServerAssumption ==
    /\ PoolSize \in Nat \ {0}
    /\ Vanishing \subseteq Sessions /\ Idling \subseteq Sessions

Contexts == 0..(PoolSize - 1)

VARIABLES
    phase,             \* of the server: "new", "running", and in Stop()
                       \* "unstarted", "closed", "stopped"
    accepting,         \* an async_accept is pending
    nextContext,       \* nextIOContextIndex_, modulo PoolSize
    contextOf,         \* the context of each accepted session
    stopped,           \* the contexts io_context::stop() was called on
    terminated         \* an exception left a handler, or what follows is undefined

acceptVars == <<accepting, nextContext, contextOf>>
serverVars == <<sessionVars, managerVars, acceptVars, inboxVars,
                phase, stopped, terminated>>

\* Acceptor's constructor takes the first context for itself.
ServerInit == /\ SessionInit /\ ManagerInit /\ InboxInit
              /\ phase = "new"
              /\ accepting = FALSE
              /\ nextContext = 1 % PoolSize
              /\ contextOf = [s \in Sessions |-> 0]
              /\ stopped = {}
              /\ terminated = FALSE

-------------------------------------------------------------------------------
(* Acceptor. *)

Accepted == {s \in Sessions : idOf[s] # 0}

isStarted_ == phase = "running"

\* The socket of the next connection belongs to the next context.
Arm == /\ accepting' = TRUE
       /\ nextContext' = (nextContext + 1) % PoolSize

Armed == (nextContext - 1) % PoolSize

DoAccept == IF isStarted_ THEN Arm ELSE accepting' = FALSE /\ UNCHANGED nextContext

\* The handler of async_accept runs in the context of the acceptor, 0. What it
\* accepted may have come before the acceptor was closed.
CanAccept == accepting /\ 0 \notin stopped

\* handleNewSession().
Accept(s) ==
    /\ CanAccept
    /\ s \notin Accepted
    /\ AddSession(s)
    /\ Start(s)
    /\ contextOf' = [contextOf EXCEPT ![s] = Armed]
    /\ DoAccept
    /\ UNCHANGED <<phase, stopped, terminated, inboxVars>>

\* async_accept fails once the acceptor is closed. (One that fails before does
\* no more than take another context from the pool.)
AcceptError ==
    /\ CanAccept /\ phase = "closed"
    /\ DoAccept
    /\ UNCHANGED <<sessionVars, managerVars, contextOf, phase, stopped, terminated,
                   inboxVars>>

-------------------------------------------------------------------------------
(* The sessions' handlers. *)

\* GetAddress() gets an address, also while the end of the peer is closed but
\* the connection not yet reset.
PushMessage(s) ==
    /\ open[s]
    /\ Deliver(s)
    /\ UNCHANGED terminated

\* GetAddress() throws, and nothing between it and the thread's run() catches.
AddressThrows(s) ==
    /\ reading[s] = "ok" /\ ~(open[s] /\ peerOpen[s])
    /\ terminated' = TRUE
    /\ UNCHANGED <<sessionVars, inboxVars>>

MessageHandler(s) ==
    /\ PushMessage(s) \/ AddressThrows(s)
    /\ UNCHANGED <<managerVars, acceptVars, phase, stopped>>

OtherHandler(s) ==
    /\ ReadError(s) \/ AsyncWrite(s)
    /\ UNCHANGED <<managerVars, acceptVars, phase, stopped, terminated, inboxVars>>

NetworkStep(s) ==
    /\ Network(s)
    /\ UNCHANGED <<managerVars, acceptVars, phase, stopped, terminated, inboxVars>>

\* What the thread of the session's context does.
ContextStep(s) == /\ contextOf[s] \notin stopped
                  /\ MessageHandler(s) \/ OtherHandler(s) \/ NetworkStep(s)

Outside(s) ==
    /\ PeerSend(s) \/ (s \in Vanishing /\ PeerClose(s)) \/ (s \in Idling /\ Expire(s))
    /\ UNCHANGED <<managerVars, acceptVars, phase, stopped, terminated, inboxVars>>

-------------------------------------------------------------------------------
(* The thread that uses the server. *)

AppFree == polling[app] = "idle" /\ sending = {} /\ expiredIds = {}

\* The pool starts before the acceptor.
ServerStart ==
    /\ phase = "new"
    /\ phase' = "running"
    /\ Arm
    /\ UNCHANGED <<sessionVars, managerVars, contextOf, stopped, terminated, inboxVars>>

Call == /\ AppFree /\ phase = "running"
        /\ \/ \E i \in Ids : Unicast(i) \/ (RemoveSession(i) /\ UNCHANGED expiredIds)
           \/ BroadcastBegin
           \/ CollectExpired
        /\ UNCHANGED <<acceptVars, phase, stopped, terminated, inboxVars>>

Continue == /\ BroadcastNext \/ RemoveExpired
            /\ UNCHANGED <<acceptVars, phase, stopped, terminated, inboxVars>>

\* GetMessage(): if empty() is true it returns a message without content.
Poll == /\ AppFree /\ phase # "new"
        /\ LookInside
        /\ UNCHANGED <<sessionVars, managerVars, acceptVars, phase, stopped, terminated>>

Fetch == /\ TakeOut
         /\ UNCHANGED <<sessionVars, managerVars, acceptVars, phase, stopped, terminated>>

-------------------------------------------------------------------------------
(* Stop(): the acceptor, then every context, then the threads. *)

StopSteps ==
    \/ /\ AppFree /\ phase = "running" /\ phase' = "unstarted"
       /\ UNCHANGED stopped
    \/ /\ phase = "unstarted" /\ phase' = "closed"
       /\ UNCHANGED stopped
    \/ /\ phase = "closed" /\ stopped # Contexts
       /\ stopped' = stopped \cup {Cardinality(stopped)}
       /\ UNCHANGED phase
    \/ /\ phase = "closed" /\ stopped = Contexts /\ phase' = "stopped"
       /\ UNCHANGED stopped

Stop == /\ StopSteps
        /\ UNCHANGED <<sessionVars, managerVars, acceptVars, terminated, inboxVars>>

\* The contexts are destroyed by then. Another Start() divides by their number,
\* a call that reaches a session uses its context, and so does the end of the
\* server, which destroys the acceptor: all of it is undefined.
AfterStop == /\ AppFree /\ phase = "stopped"
             /\ terminated' = TRUE
             /\ UNCHANGED <<sessionVars, managerVars, acceptVars, phase, stopped, inboxVars>>

-------------------------------------------------------------------------------
AcceptStep == (\E s \in Sessions : Accept(s)) \/ AcceptError

AppStep == ServerStart \/ Call \/ Continue \/ Poll \/ Fetch \/ Stop \/ AfterStop

ServerNext == /\ ~terminated
              /\ \/ AcceptStep \/ AppStep
                 \/ \E s \in Accepted : ContextStep(s) \/ Outside(s)

ServerSpec == ServerInit /\ [][ServerNext]_serverVars

-------------------------------------------------------------------------------
\* The variables keep their types, and the application never waits in pop().
ServerTypeOK ==
    /\ SessionTypeOK
    /\ Ids \subseteq 1..(sessionId_ - 1)
    /\ sending \subseteq Ids
    /\ phase \in {"new", "running", "unstarted", "closed", "stopped"}
    /\ accepting \in BOOLEAN /\ terminated \in BOOLEAN
    /\ nextContext \in Contexts
    /\ contextOf \in [Sessions -> Contexts]
    /\ stopped \subseteq Contexts
    /\ waiting = {}
    /\ Len(origin) = pushed
===============================================================================
