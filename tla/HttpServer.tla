------------------------------ MODULE HttpServer ------------------------------
(* Utils::Network::HTTPS::HTTPServer with its Router and its Sessions         *)
(* (Network/src/HTTPS/): one io_context and one thread that runs it, one      *)
(* request for each connection. A handler is a step of that thread, except    *)
(* the one of a request, which looks its route up in one step and calls it in *)
(* another. Stored handlers are numbered by the AddRoute() that stored them.  *)
(* What a peer sends and when its connection breaks is left to the module     *)
(* that uses the server. The application calls from one thread.               *)
EXTENDS Integers

CONSTANTS
    Connections,
    Keys,             \* of the routes: method and path
    MaxAdded,         \* bound: calls of AddRoute() for each key
    MaxStarts         \* bound: calls of Start()

ASSUME HttpServerAssumption == MaxAdded \in Nat /\ MaxStarts \in Nat

VARIABLES
    listening,        \* acceptorPtr_ is open
    isRunning_,
    ioThread_,        \* "none" (not joinable), "running", or "left" run()
    stopped,          \* ioContextPtr_->stop() was called, and nothing restarts it
    accepts,          \* pending calls of async_accept
    stopCall,         \* how far Stop() is: "no", "flagged", "joining"
    terminated,       \* std::terminate()
    added,            \* calls of AddRoute() for each key
    routes_,          \* the number of the handler stored for each key, 0 for none
    starts,
    session,          \* the server's end of each connection: "none", "backlog",
                      \* "reading", "calling", "writing", "written", "answered",
                      \* or "closed" without an answer
    wanted,           \* the key a request that has come in asks for
    answer            \* the handler that answered, 0 for 404

routeVars == <<added, routes_>>
controlVars == <<listening, isRunning_, ioThread_, stopped, stopCall, terminated, starts>>
httpVars == <<controlVars, accepts, routeVars, session, wanted, answer>>

NoKey == <<>>

HttpInit == /\ listening = TRUE
            /\ isRunning_ = FALSE
            /\ ioThread_ = "none"
            /\ stopped = FALSE
            /\ accepts = 0
            /\ stopCall = "no"
            /\ terminated = FALSE
            /\ added = [k \in Keys |-> 0]
            /\ routes_ = [k \in Keys |-> 0]
            /\ starts = 0
            /\ session = [c \in Connections |-> "none"]
            /\ wanted = [c \in Connections |-> NoKey]
            /\ answer = [c \in Connections |-> 0]

-------------------------------------------------------------------------------
(* The calls of the application. *)

Delivered == {"written", "answered"}

AppFree == listening /\ stopCall = "no"

\* routes_[key] = handler, also while the I/O thread looks routes up (a race,
\* taken here as if each access were atomic).
StoreIfNew(key) == IF routes_[key] = 0 THEN added[key] + 1 ELSE routes_[key]
Stored(key) == added[key] + 1

AddRoute(key) ==
    /\ AppFree /\ added[key] < MaxAdded
    /\ added' = [added EXCEPT ![key] = @ + 1]
    /\ routes_' = [routes_ EXCEPT ![key] = Stored(key)]
    /\ UNCHANGED <<controlVars, accepts, session, wanted, answer>>

\* A thread assigned over a joinable one ends the program.
HttpStart ==
    /\ AppFree /\ starts < MaxStarts
    /\ starts' = starts + 1
    /\ isRunning_' = TRUE
    /\ IF ioThread_ # "none" THEN terminated' = TRUE /\ UNCHANGED <<ioThread_, accepts>>
       ELSE /\ ioThread_' = "running"
            /\ accepts' = accepts + 1
            /\ UNCHANGED terminated
    /\ UNCHANGED <<listening, stopped, stopCall, routeVars, session, wanted, answer>>

\* Stop(): the flag, then the io_context, then the thread.
HttpStop ==
    /\ AppFree
    /\ isRunning_' = FALSE
    /\ stopCall' = "flagged"
    /\ UNCHANGED <<listening, ioThread_, stopped, accepts, terminated, starts, routeVars,
                   session, wanted, answer>>

StopContext ==
    /\ stopCall = "flagged" /\ stopCall' = "joining"
    /\ stopped' = TRUE
    /\ UNCHANGED <<listening, isRunning_, ioThread_, accepts, terminated, starts, routeVars,
                   session, wanted, answer>>

HttpJoin ==
    /\ stopCall = "joining" /\ ioThread_ # "running"
    /\ stopCall' = "no"
    /\ ioThread_' = "none"
    /\ UNCHANGED <<listening, isRunning_, stopped, terminated, accepts, starts, routeVars,
                   session, wanted, answer>>

\* There is no destructor: a joinable ioThread_ ends the program; the acceptor
\* and the sessions, which the io_context holds, are closed.
HttpDestroy ==
    /\ AppFree
    /\ IF ioThread_ # "none" THEN terminated' = TRUE /\ UNCHANGED <<listening, accepts, session>>
       ELSE /\ listening' = FALSE
            /\ accepts' = 0
            /\ session' = [c \in Connections |->
                              IF session[c] = "written" THEN "answered"
                              ELSE IF session[c] \in {"none", "answered"} THEN session[c]
                              ELSE "closed"]
            /\ UNCHANGED terminated
    /\ UNCHANGED <<isRunning_, ioThread_, stopped, stopCall, starts, routeVars, wanted, answer>>

-------------------------------------------------------------------------------
(* The I/O thread. *)

Calling == {c \in Connections : session[c] = "calling"}

Polled == ioThread_ = "running" /\ ~stopped /\ Calling = {}

Becomes(c, state) == session' = [session EXCEPT ![c] = state]

\* The handler of async_accept calls DoAccept() only while isRunning_.
NotAgain == accepts - 1
PendingAfter == IF isRunning_ THEN accepts ELSE accepts - 1

HttpAccept(c) ==
    /\ Polled /\ accepts > 0 /\ session[c] = "backlog"
    /\ Becomes(c, "reading")
    /\ accepts' = PendingAfter
    /\ UNCHANGED <<controlVars, routeVars, wanted, answer>>

AcceptFails ==
    /\ Polled /\ accepts > 0 /\ ~isRunning_
    /\ accepts' = PendingAfter
    /\ UNCHANGED <<controlVars, routeVars, session, wanted, answer>>

\* HandleRequest() finds the route or answers 404.
Lookup(c) ==
    /\ Polled /\ session[c] = "reading" /\ wanted[c] # NoKey
    /\ IF wanted[c] \in Keys /\ routes_[wanted[c]] # 0
       THEN Becomes(c, "calling") /\ UNCHANGED answer
       ELSE Becomes(c, "writing") /\ answer' = [answer EXCEPT ![c] = 0]
    /\ UNCHANGED <<controlVars, accepts, routeVars, wanted>>

\* `handler` refers into routes_: it is called as it is now.
CallHandler(c) ==
    /\ ioThread_ = "running" /\ session[c] = "calling"
    /\ answer' = [answer EXCEPT ![c] = routes_[wanted[c]]]
    /\ Becomes(c, "writing")
    /\ UNCHANGED <<controlVars, accepts, routeVars, wanted>>

\* A handler that throws: nothing between it and the thread's run() catches.
HandlerThrows ==
    /\ ioThread_ = "running" /\ Calling # {}
    /\ terminated' = TRUE
    /\ UNCHANGED <<listening, isRunning_, ioThread_, stopped, stopCall, starts, accepts,
                   routeVars, session, wanted, answer>>

\* The read fails: the request is malformed, or the connection is gone.
RequestFails(c) ==
    /\ Polled /\ session[c] = "reading"
    /\ Becomes(c, "closed")
    /\ UNCHANGED <<controlVars, accepts, routeVars, wanted, answer>>

\* async_write sends the response, from then on behind the thread's back, or
\* fails when the connection is gone; its handler closes the socket either way.
Respond(c, state) ==
    /\ session[c] = "writing" /\ (state = "closed" => Polled)
    /\ Becomes(c, state)
    /\ UNCHANGED <<controlVars, accepts, routeVars, wanted, answer>>

Finish(c) ==
    /\ Polled /\ session[c] = "written"
    /\ Becomes(c, "answered")
    /\ UNCHANGED <<controlVars, accepts, routeVars, wanted, answer>>

LeaveRun ==
    /\ ioThread_ = "running" /\ stopped /\ Calling = {}
    /\ ioThread_' = "left"
    /\ UNCHANGED <<listening, isRunning_, stopped, stopCall, terminated, starts, accepts,
                   routeVars, session, wanted, answer>>

-------------------------------------------------------------------------------
AppCalls == \/ \E k \in Keys : AddRoute(k)
            \/ HttpStart \/ HttpStop \/ StopContext \/ HttpJoin \/ HttpDestroy

\* The variables keep their types. Requests are handled one at a time, and only
\* inside the I/O thread: none is when Stop() has returned.
HttpTypeOK ==
    /\ {listening, isRunning_, stopped, terminated} \subseteq BOOLEAN
    /\ ioThread_ \in {"none", "running", "left"}
    /\ stopCall \in {"no", "flagged", "joining"}
    /\ accepts \in Nat /\ starts \in Nat
    /\ {added, routes_} \subseteq [Keys -> Nat]
    /\ session \in [Connections -> {"none", "backlog", "reading", "calling", "writing",
                                    "written", "answered", "closed"}]
    /\ \A c \in Connections : wanted[c] \in Keys \/ session[c] # "calling"
    /\ answer \in [Connections -> Nat]
    /\ \A c, d \in Calling : c = d /\ ioThread_ = "running"
===============================================================================
