------------------------------ MODULE HttpRequest ------------------------------
(* Utils::Network::Request (Network/src/Request/): calls of Get() and Post(), *)
(* each a thread of its own with a connection of its own, against an          *)
(* HttpServer. A call goes through stages, any of which may fail and end it   *)
(* with status -1. Whether it speaks TLS is decided by the port, and the      *)
(* server never does. There are no time limits and no retries. The name of    *)
(* the host is resolved to that of the server.                                *)
EXTENDS HttpServer, UrlParser

CONSTANTS
    Requests,         \* what the calls may ask for: a method and a URL for each
    Ports             \* the ports the server may be made for

Urls == {r[c].url : r \in Requests, c \in Connections}

ASSUME RequestAssumption == Urls \subseteq Seq(Symbols)

VARIABLES
    port_,            \* of the server
    request,            \* Get() or Post() and its argument, for each call
    parts,            \* of the URL, once it is parsed
    stage,            \* "idle", "resolving", "handshaking", "writing",
                      \* "reading", "closing", "done"
    outcome,           \* "none", "answered", or "error": status is -1
    seen              \* how many routes had been added for the key at the call

setting == <<port_, request, parts>>
callVars == <<stage, outcome, seen>>
exchangeVars == <<httpVars, callVars, setting>>

ExchangeInit == /\ HttpInit
                /\ port_ \in Ports
                /\ request \in Requests
                /\ parts = [c \in Connections |-> Invalid]
                /\ stage = [c \in Connections |-> "idle"]
                /\ outcome = [c \in Connections |-> "none"]
                /\ seen = [c \in Connections |-> 0]

KeyOf(c, url) == <<request[c].method, url.target>>
AddedFor(key) == IF key \in Keys THEN added[key] ELSE 0

Secure(c) == parts[c].port = <<"443">>

-------------------------------------------------------------------------------
(* The call. *)

Enters(c, next) == stage' = [stage EXCEPT ![c] = next]

Ends(c, how) == Enters(c, "done") /\ outcome' = [outcome EXCEPT ![c] = how]

\* A URL that cannot be parsed ends the call before anything is sent.
Begin(c) ==
    LET url == Parse(request[c].url)
    IN /\ stage[c] = "idle"
       /\ parts' = [parts EXCEPT ![c] = url]
       /\ seen' = [seen EXCEPT ![c] = AddedFor(KeyOf(c, url))]
       /\ IF url = Invalid THEN Ends(c, "error")
                           ELSE Enters(c, "resolving") /\ UNCHANGED outcome
       /\ UNCHANGED <<httpVars, port_, request>>

\* resolve() and connect(): the connection waits in the server's backlog.
CanConnect(c) == listening /\ parts[c].port = port_

Connect(c) ==
    /\ stage[c] = "resolving" /\ CanConnect(c)
    /\ Enters(c, IF Secure(c) THEN "handshaking" ELSE "writing")
    /\ Becomes(c, "backlog")
    /\ UNCHANGED <<controlVars, accepts, routeVars, wanted, answer, outcome, seen, setting>>

WriteRequest(c) ==
    /\ stage[c] = "writing" /\ session[c] # "closed"
    /\ wanted' = [wanted EXCEPT ![c] = KeyOf(c, parts[c])]
    /\ Enters(c, "reading")
    /\ UNCHANGED <<controlVars, accepts, routeVars, session, answer, outcome, seen, setting>>

ReadResponse(c) ==
    /\ stage[c] = "reading" /\ session[c] \in Delivered
    /\ Enters(c, "closing")
    /\ UNCHANGED <<httpVars, outcome, seen, setting>>

\* An error of the shutdown replaces the status and the text of the response.
Shutdown(c) ==
    /\ stage[c] = "closing"
    /\ Ends(c, "answered") \/ Ends(c, "error")
    /\ UNCHANGED <<httpVars, seen, setting>>

Fails(c) ==
    /\ stage[c] \in {"resolving", "handshaking", "writing", "reading"}
    /\ Ends(c, "error")
    /\ UNCHANGED <<httpVars, seen, setting>>

\* The connection is refused, or the server has let go of it.
Hopeless(c) == \/ stage[c] = "resolving" /\ ~CanConnect(c)
               \/ session[c] = "closed"

Call(c) == Connect(c) \/ WriteRequest(c) \/ ReadResponse(c) \/ Shutdown(c)

-------------------------------------------------------------------------------
(* The network, and the server. *)

\* async_write takes effect in the I/O thread's handler or behind its back.
SendResponse(c) ==
    /\ (stage[c] = "reading" /\ Respond(c, "written")) \/ Respond(c, "closed")
    /\ UNCHANGED <<callVars, setting>>

ThreadStep(c) == /\ HttpAccept(c) \/ Lookup(c) \/ CallHandler(c) \/ RequestFails(c) \/ Finish(c)
                 /\ UNCHANGED <<callVars, setting>>

ServerStep == /\ AppCalls \/ AcceptFails \/ LeaveRun \/ HandlerThrows
              /\ UNCHANGED <<callVars, setting>>

ExchangeNext ==
    /\ ~terminated
    /\ \/ ServerStep
       \/ \E c \in Connections : Begin(c) \/ Call(c) \/ Fails(c) \/ SendResponse(c) \/ ThreadStep(c)

ExchangeSpec == ExchangeInit /\ [][ExchangeNext]_exchangeVars

\* The I/O thread is scheduled and route handlers come to an end; calls go on,
\* and notice that the other end is gone. Nobody has to start, stop or call.
CallGoesOn(c) == Call(c) \/ (Hopeless(c) /\ Fails(c))

ThreadGoesOn(c) ==
    \/ SendResponse(c)
    \/ ThreadStep(c) /\ (session[c] = "reading" /\ wanted[c] = NoKey
                          => stage[c] \in {"handshaking", "done"})

ExchangeFairness ==
    /\ WF_exchangeVars(~terminated /\ \E c \in Connections : CallGoesOn(c))
    /\ WF_exchangeVars(~terminated /\ \E c \in Connections : ThreadGoesOn(c))

ExchangeFairSpec == ExchangeSpec /\ ExchangeFairness

-------------------------------------------------------------------------------
\* The variables keep their types.
ExchangeTypeOK ==
    /\ HttpTypeOK
    /\ port_ \in Ports /\ request \in Requests
    /\ \A c \in Connections : stage[c] \notin {"idle", "done"} => parts[c] # Invalid
    /\ stage \in [Connections -> {"idle", "resolving", "handshaking", "writing", "reading",
                                  "closing", "done"}]
    /\ outcome \in [Connections -> {"none", "answered", "error"}]
    /\ seen \in [Connections -> Nat]

\* The answer of a call is as fresh as the call: the handler that was stored for
\* its method and target when the call began, or a later one, and 404 only if
\* there was none; also while AddRoute() goes on, whatever other calls do.
FreshAnswer ==
    \A c \in Connections :
        outcome[c] = "answered" => seen[c] <= answer[c] /\ answer[c] <= AddedFor(KeyOf(c, parts[c]))

\* The server has been started and not stopped, or it is gone.
Served == ~terminated /\ (listening => ioThread_ = "running" /\ ~stopped /\ isRunning_)

\* Every call returns, with a response or an error, if from some time on the
\* server is served or destroyed. (A call to one that is stopped and kept hangs.)
CallsReturn ==
    <>[]Served => \A c \in Connections : (stage[c] # "idle" ~> stage[c] = "done")
===============================================================================
