---------------------------- MODULE ServicesProofs ----------------------------
(* Theorems about HTTP calls, the parser of URLs, JSON documents and the      *)
(* database, and about the four of them side by side.                         *)
EXTENDS MCServices, FiniteSetTheorems, SequenceTheorems, WellFoundedInduction, TLAPS

-------------------------------------------------------------------------------
(* An HTTP server and its calls. A call sees three things in a row: what had  *)
(* been added when it began, the route the I/O thread found, and the handler  *)
(* that was called. Each is at least as new as the one before, because        *)
(* routes_ holds the handler added last, and is never asked for another key.  *)

Answered == {"writing"} \cup Delivered

RoutesOK == /\ added \in [Keys -> Nat]
            /\ routes_ = added

\* Of a call: its stage, the server's end of its connection, the key it wanted,
\* what it has seen and what answered it.
CallOK(c) ==
    LET had == AddedFor(KeyOf(c, parts[c]))
    IN /\ stage[c] = "idle" => session[c] = "none" /\ wanted[c] = NoKey
       /\ stage[c] = "closing" \/ outcome[c] = "answered" => session[c] \in Delivered
       /\ outcome[c] = "answered" => stage[c] = "done"
       /\ wanted[c] \in {NoKey, KeyOf(c, parts[c])}
       /\ session[c] = "calling" => wanted[c] # NoKey /\ wanted[c] \in Keys
       /\ stage[c] # "idle" => seen[c] <= had
       /\ session[c] \in Answered => seen[c] <= answer[c] /\ answer[c] <= had

CallTypes == /\ DOMAIN stage = Connections /\ DOMAIN session = Connections
             /\ DOMAIN outcome = Connections
             /\ seen \in [Connections -> Nat] /\ answer \in [Connections -> Nat]
             /\ DOMAIN wanted = Connections /\ DOMAIN parts = Connections

ExchangeInv == RoutesOK /\ CallTypes /\ \A c \in Connections : CallOK(c)

\* What has been added for a key is a number.
LEMMA AddedIsNat == ASSUME RoutesOK, NEW key PROVE AddedFor(key) \in Nat
BY DEF RoutesOK, AddedFor

\* The invariant of the exchange holds before anything is added or called.
LEMMA ExchangeStarts == ExchangeInit => ExchangeInv
<1> SUFFICES ASSUME ExchangeInit PROVE ExchangeInv
    OBVIOUS
<1>1. RoutesOK /\ CallTypes  BY DEF ExchangeInit, HttpInit, RoutesOK, CallTypes
<1>2. ASSUME NEW c \in Connections PROVE CallOK(c)
      BY DEF ExchangeInit, HttpInit, CallOK, Answered, Delivered
<1> QED  BY <1>1, <1>2 DEF ExchangeInv

\* The calls of the application: routes are added, or no call notices.
LEMMA AppCallsKeep ==
    ASSUME ExchangeInv, AppCalls, UNCHANGED <<callVars, setting>>
    PROVE  ExchangeInv'
<1> USE DEF ExchangeInv, callVars, setting
<1>1. ASSUME NEW key \in Keys, AddRoute(key) PROVE ExchangeInv'
  <2>1. RoutesOK'  BY <1>1 DEF AddRoute, Stored, RoutesOK
  <2>2. ASSUME NEW any PROVE AddedFor(any) \in Nat /\ AddedFor(any)' \in Nat
                             /\ AddedFor(any) <= AddedFor(any)'
        BY <1>1 DEF AddRoute, AddedFor, RoutesOK
  <2>3. UNCHANGED <<session, wanted, answer>>  BY <1>1 DEF AddRoute
  <2>4. CallTypes'  BY <2>3 DEF CallTypes
  <2>5. ASSUME NEW c \in Connections PROVE CallOK(c)'
    <3>1. KeyOf(c, parts[c])' = KeyOf(c, parts[c])  BY DEF KeyOf
    <3>2. seen[c] \in Nat /\ answer[c] \in Nat /\ CallOK(c)  BY <2>5 DEF CallTypes
    <3> HIDE DEF ExchangeInv
    <3> QED  BY <2>2, <2>3, <3>1, <3>2 DEF CallOK
  <2> QED  BY <2>1, <2>4, <2>5
<1>2. CASE HttpStart \/ HttpStop \/ StopContext \/ HttpJoin
  <2>1. UNCHANGED <<added, routes_, session, wanted, answer>>
        BY <1>2 DEF HttpStart, HttpStop, StopContext, HttpJoin, routeVars
  <2> QED  BY <2>1 DEF RoutesOK, CallTypes, CallOK, AddedFor, KeyOf
<1>3. CASE HttpDestroy
  <2>1. UNCHANGED <<added, routes_, wanted, answer>>  BY <1>3 DEF HttpDestroy, routeVars
  <2>2. RoutesOK' /\ \A c \in Connections : KeyOf(c, parts[c])' = KeyOf(c, parts[c])
        BY <2>1 DEF RoutesOK, KeyOf
  <2>3. CASE UNCHANGED session  BY <2>1, <2>3 DEF RoutesOK, CallTypes, CallOK, AddedFor, KeyOf
  <2>4. CASE session' = [c \in Connections |->
                              IF session[c] = "written" THEN "answered"
                              ELSE IF session[c] \in {"none", "answered"} THEN session[c]
                              ELSE "closed"]
    <3>1. CallTypes'  BY <2>1, <2>4 DEF CallTypes
    <3>2. ASSUME NEW c \in Connections PROVE CallOK(c)'
          BY <2>1, <2>2, <2>4, <3>2 DEF CallOK, AddedFor, Answered, Delivered
    <3> QED  BY <2>2, <3>1, <3>2
  <2> QED  BY <1>3, <2>3, <2>4 DEF HttpDestroy
<1> QED  BY <1>1, <1>2, <1>3 DEF AppCalls

\* The I/O thread and the network.
LEMMA ThreadKeeps ==
    ASSUME ExchangeInv, UNCHANGED <<callVars, setting>>, NEW c \in Connections,
           \/ HttpAccept(c) \/ Lookup(c) \/ CallHandler(c) \/ RequestFails(c) \/ Finish(c)
           \/ SendResponse(c)
    PROVE  ExchangeInv'
<1> USE DEF ExchangeInv, callVars, setting
<1>1. UNCHANGED <<added, routes_, wanted>>
      BY DEF HttpAccept, Lookup, CallHandler, RequestFails, Finish, SendResponse, Respond, routeVars
<1>2. RoutesOK' /\ \A d \in Connections : KeyOf(d, parts[d])' = KeyOf(d, parts[d])
      BY <1>1 DEF RoutesOK, KeyOf
<1>3. \A key : AddedFor(key)' = AddedFor(key) /\ AddedFor(key) \in Nat
      BY <1>1, AddedIsNat DEF AddedFor
<1>4. CallOK(c) /\ answer[c] \in Nat /\ seen[c] \in Nat  BY DEF CallTypes
<1>5. ASSUME NEW state, Becomes(c, state), NEW number \in Nat,
             answer' = [answer EXCEPT ![c] = number],
             stage[c] # "idle",
             session[c] \in Delivered => state \in Delivered,
             state = "calling" => wanted[c] # NoKey /\ wanted[c] \in Keys,
             state \in Answered => /\ seen[c] <= number
                                   /\ number <= AddedFor(KeyOf(c, parts[c]))
      PROVE  ExchangeInv'
  <2>1. CallTypes'  BY <1>1, <1>5 DEF CallTypes, Becomes
  <2>2. CallOK(c)'
        BY <1>1, <1>2, <1>3, <1>4, <1>5 DEF CallOK, Becomes, CallTypes
  <2>3. ASSUME NEW d \in Connections, d # c PROVE CallOK(d)'
        BY <1>1, <1>2, <1>3, <1>5, <2>3 DEF CallOK, Becomes, CallTypes
  <2> QED  BY <1>2, <2>1, <2>2, <2>3
<1>6. answer = [answer EXCEPT ![c] = answer[c]]  BY DEF CallTypes
<1>7. session[c] # "none" => stage[c] # "idle"  BY <1>4 DEF CallOK
<1>8. CASE HttpAccept(c) \/ RequestFails(c)
      BY <1>4, <1>5, <1>6, <1>7, <1>8 DEF HttpAccept, RequestFails, Delivered, Answered
<1>9. CASE Finish(c)
      BY <1>4, <1>5, <1>6, <1>7, <1>9 DEF Finish, Delivered, Answered, CallOK
<1>10. CASE SendResponse(c)
      BY <1>4, <1>5, <1>6, <1>7, <1>10 DEF SendResponse, Respond, Delivered, Answered, CallOK
<1>11. CASE Lookup(c)
  <2>1. wanted[c] = KeyOf(c, parts[c]) /\ stage[c] # "idle" /\ seen[c] <= AddedFor(wanted[c])
        BY <1>4, <1>7, <1>11 DEF Lookup, CallOK
  <2>2. CASE wanted[c] \in Keys /\ routes_[wanted[c]] # 0
        BY <1>5, <1>6, <1>11, <2>1, <2>2, <1>4 DEF Lookup, Delivered, Answered
  <2>3. CASE ~(wanted[c] \in Keys /\ routes_[wanted[c]] # 0)
    <3>1. AddedFor(wanted[c]) = 0  BY <2>3 DEF AddedFor, RoutesOK
    <3> QED  BY <1>5, <1>11, <2>1, <2>3, <3>1, <1>4 DEF Lookup, Delivered, Answered
  <2> QED  BY <2>2, <2>3
<1>12. CASE CallHandler(c)
  <2>1. wanted[c] = KeyOf(c, parts[c]) /\ wanted[c] \in Keys /\ stage[c] # "idle"
        BY <1>4, <1>7, <1>12 DEF CallHandler, CallOK
  <2>2. routes_[wanted[c]] = AddedFor(KeyOf(c, parts[c]))
        BY <2>1 DEF AddedFor, RoutesOK
  <2>3. AddedFor(KeyOf(c, parts[c])) \in Nat /\ seen[c] <= AddedFor(KeyOf(c, parts[c]))
        BY <1>4, <2>1, AddedIsNat DEF CallOK
  <2>4. /\ routes_[wanted[c]] \in Nat /\ seen[c] <= routes_[wanted[c]]
        /\ routes_[wanted[c]] <= AddedFor(KeyOf(c, parts[c]))
        BY <2>2, <2>3
  <2>5. /\ session[c] = "calling" /\ Becomes(c, "writing")
        /\ answer' = [answer EXCEPT ![c] = routes_[wanted[c]]]
        BY <1>12 DEF CallHandler
  <2>6. session[c] \notin Delivered /\ "writing" # "calling"  BY <2>5 DEF Delivered
  <2> HIDE DEF ExchangeInv
  <2> QED  BY <1>5, <2>1, <2>4, <2>5, <2>6
<1> QED  BY <1>8, <1>9, <1>10, <1>11, <1>12

\* The calls. One that begins has seen what is added for its key.
LEMMA CallsKeep ==
    ASSUME ExchangeInv, NEW c \in Connections, Begin(c) \/ Call(c) \/ Fails(c)
    PROVE  ExchangeInv'
<1> USE DEF ExchangeInv
<1>1. UNCHANGED <<added, routes_, answer, request>>
      BY DEF Begin, Call, Connect, WriteRequest, ReadResponse, Shutdown, Fails, httpVars,
             routeVars, setting
<1>2. RoutesOK' /\ \A key : AddedFor(key)' = AddedFor(key) /\ AddedFor(key) \in Nat
      BY <1>1, AddedIsNat DEF RoutesOK, AddedFor
<1>3. CallTypes'
      BY <1>1, <1>2 DEF CallTypes, Begin, Call, Connect, WriteRequest, ReadResponse, Shutdown,
             Fails, Enters, Ends, Becomes, httpVars, setting
<1>4. ASSUME NEW d \in Connections, d # c PROVE CallOK(d)'
  <2>1. /\ stage'[d] = stage[d] /\ outcome'[d] = outcome[d] /\ seen'[d] = seen[d]
        /\ session'[d] = session[d] /\ wanted'[d] = wanted[d] /\ parts'[d] = parts[d]
        BY <1>4 DEF CallTypes, Begin, Call, Connect, WriteRequest, ReadResponse, Shutdown, Fails,
               Enters, Ends, Becomes, httpVars, setting
  <2>2. KeyOf(d, parts[d])' = KeyOf(d, parts[d])  BY <1>1, <2>1 DEF KeyOf
  <2> QED  BY <1>1, <1>2, <2>1, <2>2 DEF CallOK
<1>5. CallOK(c) /\ seen[c] \in Nat /\ answer[c] \in Nat  BY DEF CallTypes
<1>6. ASSUME Begin(c) PROVE CallOK(c)'
  <2> DEFINE url == Parse(request[c].url)
  <2>1. /\ parts'[c] = url /\ seen'[c] = AddedFor(KeyOf(c, url))
        /\ stage[c] = "idle" /\ stage'[c] \in {"done", "resolving"}
        /\ outcome'[c] # "answered" \/ outcome'[c] = outcome[c]
        /\ session' = session /\ wanted' = wanted
        BY <1>6 DEF Begin, Enters, Ends, CallTypes, httpVars
  <2>2. KeyOf(c, parts[c])' = KeyOf(c, url)  BY <1>1, <2>1 DEF KeyOf
  <2> HIDE DEF url
  <2> QED  BY <1>1, <1>2, <1>5, <2>1, <2>2 DEF CallOK, Delivered, Answered
<1>7. ASSUME Call(c) \/ Fails(c) PROVE CallOK(c)'
  <2>1. parts' = parts /\ seen' = seen
        BY <1>7 DEF Call, Connect, WriteRequest, ReadResponse, Shutdown, Fails, setting
  <2>2. KeyOf(c, parts[c])' = KeyOf(c, parts[c])  BY <1>1, <2>1 DEF KeyOf
  <2>3. CASE Connect(c)
        BY <1>1, <1>2, <1>5, <2>1, <2>2, <2>3
        DEF Connect, CallOK, CallTypes, Enters, Becomes, Delivered, Answered
  <2>4. CASE WriteRequest(c)
        BY <1>1, <1>2, <1>5, <2>1, <2>2, <2>4 DEF WriteRequest, CallOK, CallTypes, Enters
  <2>5. CASE ReadResponse(c)
        BY <1>1, <1>2, <1>5, <2>1, <2>2, <2>5 DEF ReadResponse, CallOK, CallTypes, Enters, httpVars
  <2>6. CASE Shutdown(c) \/ Fails(c)
        BY <1>1, <1>2, <1>5, <2>1, <2>2, <2>6
        DEF Shutdown, Fails, CallOK, CallTypes, Enters, Ends, httpVars
  <2> QED  BY <1>7, <2>3, <2>4, <2>5, <2>6 DEF Call
<1> QED  BY <1>2, <1>3, <1>4, <1>5, <1>6, <1>7

\* Every step of the application, of the server's thread or of a call keeps it.
LEMMA ExchangeStep == ExchangeInv /\ [ExchangeNext]_exchangeVars => ExchangeInv'
<1> SUFFICES ASSUME ExchangeInv, [ExchangeNext]_exchangeVars PROVE ExchangeInv'
    OBVIOUS
<1> DEFINE Same == UNCHANGED <<added, routes_, session, wanted, answer, callVars, setting>>
<1>1. CASE Same
      BY <1>1 DEF ExchangeInv, RoutesOK, CallTypes, CallOK, AddedFor, KeyOf, callVars, setting
<1>2. UNCHANGED exchangeVars => Same  BY DEF exchangeVars, httpVars, routeVars
<1>3. CASE ServerStep
  <2>1. AcceptFails \/ LeaveRun \/ HandlerThrows => Same
        BY <1>3 DEF ServerStep, AcceptFails, LeaveRun, HandlerThrows, routeVars
  <2> QED  BY <1>1, <1>3, <2>1, AppCallsKeep DEF ServerStep
<1>4. ASSUME NEW c \in Connections, SendResponse(c) \/ ThreadStep(c) PROVE ExchangeInv'
      BY <1>4, ThreadKeeps DEF SendResponse, ThreadStep
<1>5. ASSUME NEW c \in Connections, Begin(c) \/ Call(c) \/ Fails(c) PROVE ExchangeInv'
      BY <1>5, CallsKeep
<1> QED  BY <1>1, <1>2, <1>3, <1>4, <1>5 DEF ExchangeNext

\* Whatever is called, from however many threads, and whenever AddRoute() is: the
\* handler that answers a call is the one stored when the call began, or a later
\* one, and 404 means that there was none (Router.cpp:23).
THEOREM AnswersAreFresh == ExchangeSpec => []FreshAnswer
<1>1. ExchangeInv => FreshAnswer
      BY DEF ExchangeInv, CallOK, FreshAnswer, Answered
<1> QED  BY <1>1, ExchangeStarts, ExchangeStep, PTL DEF ExchangeSpec

-------------------------------------------------------------------------------
(* The wrappers of a file. Rows are collected under a SHARED lock, and no     *)
(* other wrapper commits while there is one: what a query selects stands      *)
(* still until its loop ends, though the file may stay locked after it.       *)

CollectedOK(w) ==
    \/ result[w] = <<>>
    \/ /\ w \in readers /\ call[w] = "query"
       /\ Answerable(asked[w]) /\ ~FewerColumns(w)
       /\ \E k \in Nat : /\ k <= Len(Selected(asked[w]))
                         /\ result[w] = [i \in 1..k |-> RowRead(w, i)]

DatabaseInv ==
    /\ DOMAIN call = Wrappers /\ DOMAIN asked = Wrappers /\ DOMAIN result = Wrappers
    /\ LocksInCalls
    /\ \A w \in Wrappers : call[w] = "write" => writer = w
    /\ \A w \in Wrappers : CollectedOK(w)

\* The invariant of the database holds before the first call.
LEMMA DatabaseStarts == DatabaseInit => DatabaseInv
BY DEF DatabaseInit, DatabaseInv, LocksInCalls, CollectedOK

\* One more row makes the beginning of a selection longer.
LEMMA RowAdded ==
    ASSUME NEW k \in Nat, NEW f, NEW seq, seq = [i \in 1..k |-> f[i]]
    PROVE  /\ Len(seq) = k
           /\ Append(seq, f[k + 1]) = [i \in 1..(k + 1) |-> f[i]]
<1> DEFINE S == {f[i] : i \in 1..(k + 1)}
<1>1. seq \in Seq(S) /\ Len(seq) = k  OBVIOUS
<1>2. f[k + 1] \in S  OBVIOUS
<1> QED  BY <1>1, <1>2

\* What a query takes of a row depends on the table and on what was asked alone.
LEMMA SelectionKept ==
    ASSUME NEW w, UNCHANGED dataVars, asked'[w] = asked[w]
    PROVE  /\ Answerable(asked[w])' <=> Answerable(asked[w])
           /\ FewerColumns(w)' <=> FewerColumns(w)
           /\ Selected(asked[w])' = Selected(asked[w])
           /\ \A i : RowRead(w, i)' = RowRead(w, i)
<1>1. Selected(asked[w])' = Selected(asked[w])
      BY DEF dataVars, Selected, ColumnsOf
<1>2. Counted(w)' = Counted(w) /\ ColumnsRead(w)' = ColumnsRead(w)
      BY DEF dataVars, Counted, ColumnsRead
<1>3. \A i : RowRead(w, i)' = RowRead(w, i)  BY <1>1, <1>2 DEF RowRead
<1> QED  BY <1>1, <1>2, <1>3 DEF dataVars, Answerable, Known, ColumnsOf, Names, FewerColumns

\* Every call of a wrapper, and each step of a query, keeps it.
LEMMA DatabaseKept == DatabaseInv /\ [DatabaseNext]_databaseVars => DatabaseInv'
<1> SUFFICES ASSUME DatabaseInv, [DatabaseNext]_databaseVars PROVE DatabaseInv'
    OBVIOUS
<1> USE DEF DatabaseInv, LocksInCalls
<1>1. ASSUME UNCHANGED dataVars, NEW w \in Wrappers, CollectedOK(w),
             asked'[w] = asked[w], result'[w] = result[w], call'[w] = call[w],
             w \in readers => w \in readers'
      PROVE  CollectedOK(w)'
      BY <1>1, SelectionKept DEF CollectedOK
<1>2. CASE UNCHANGED databaseVars  BY <1>1, <1>2 DEF databaseVars, dataVars, queryVars
<1>3. ASSUME NEW w \in Wrappers, Execute(w) PROVE DatabaseInv'
  <2>1. \A v \in Wrappers : CollectedOK(v)'
    <3>1. result[w] = <<>>  BY <1>3 DEF Execute, Free, CollectedOK
    <3>2. CollectedOK(w)'  BY <1>3, <3>1 DEF Execute, queryVars, CollectedOK
    <3>3. ASSUME NEW v \in Wrappers, v # w PROVE CollectedOK(v)'
          BY <1>1, <1>3, <3>3 DEF Execute, Calls, queryVars
    <3> QED  BY <3>2, <3>3
  <2> QED  BY <1>3, <2>1, DatabaseAssumption DEF Execute, Free, Calls, queryVars
<1>4. ASSUME NEW w \in Wrappers, Committed(w) PROVE DatabaseInv'
  <2>1. result[w] = <<>>  BY <1>4 DEF Committed, CollectedOK
  <2>2. ASSUME NEW v \in Wrappers PROVE CollectedOK(v)'
    <3>1. CASE v = w  BY <1>4, <2>1, <3>1 DEF Committed, queryVars, CollectedOK
    <3>2. CASE readers \subseteq {w} /\ v # w
          BY <1>4, <3>2 DEF Committed, queryVars, CollectedOK
    <3>3. CASE UNCHANGED dataVars /\ v # w
          BY <1>1, <1>4, <3>3 DEF Committed, Calls, queryVars
    <3> QED  BY <1>4, <3>1, <3>2, <3>3 DEF Committed
  <2> QED  BY <1>4, <2>2 DEF Committed, Calls, queryVars
<1>5. ASSUME NEW w \in Wrappers, NEW query, Prepare(w, query) PROVE DatabaseInv'
  <2>1. result[w] = <<>>  BY <1>5 DEF Prepare, Free, CollectedOK
  <2>2. CollectedOK(w)'  BY <1>5, <2>1 DEF Prepare, CollectedOK
  <2>3. ASSUME NEW v \in Wrappers, v # w PROVE CollectedOK(v)'
        BY <1>1, <1>5, <2>3 DEF Prepare, Calls
  <2> QED  BY <1>5, <2>2, <2>3 DEF Prepare, Free, Calls
<1>6. ASSUME NEW w \in Wrappers, StepRow(w) PROVE DatabaseInv'
  <2>1. CollectedOK(w)'
    <3> DEFINE Row(i) == RowRead(w, i)
    <3>1. PICK k \in Nat : result[w] = [i \in 1..k |-> Row(i)]
      <4>1. CASE result[w] = <<>>
        <5>1. result[w] = [i \in 1..0 |-> Row(i)]  BY <4>1
        <5> QED  BY <5>1
      <4> QED  BY <4>1 DEF CollectedOK
    <3> HIDE DEF Row
    <3>2. /\ Len(result[w]) = k
          /\ Append(result[w], Row(k + 1)) = [i \in 1..(k + 1) |-> Row(i)]
      <4> DEFINE f == [i \in 1..(k + 1) |-> Row(i)]
      <4>1. result[w] = [i \in 1..k |-> f[i]] /\ f[k + 1] = Row(k + 1)  BY <3>1
      <4>2. \A i \in 1..(k + 1) : f[i] = Row(i)  OBVIOUS
      <4> HIDE DEF f
      <4>3. /\ Len(result[w]) = k
            /\ Append(result[w], f[k + 1]) = [i \in 1..(k + 1) |-> f[i]]
            BY <4>1, RowAdded
      <4> QED  BY <4>1, <4>2, <4>3
    <3>3. /\ result'[w] = Append(result[w], Row(k + 1))
          /\ k + 1 <= Len(Selected(asked[w])) /\ w \in readers' /\ call'[w] = "query"
          BY <1>6, <3>2 DEF StepRow, RowComes, NextRow, Row
    <3>4. /\ Answerable(asked[w])' /\ ~FewerColumns(w)'
          /\ Selected(asked[w])' = Selected(asked[w])
          /\ \A i : RowRead(w, i)' = Row(i)
          BY <1>6, SelectionKept DEF StepRow, RowComes, Row
    <3>5. result'[w] = [i \in 1..(k + 1) |-> RowRead(w, i)']  BY <3>2, <3>3, <3>4
    <3> QED  BY <3>3, <3>4, <3>5 DEF CollectedOK
  <2>2. ASSUME NEW v \in Wrappers, v # w PROVE CollectedOK(v)'
        BY <1>1, <1>6, <2>2 DEF StepRow, RowComes
  <2> QED  BY <1>6, <2>1, <2>2 DEF StepRow, RowComes
<1>7. ASSUME NEW w \in Wrappers, StepThrows(w) \/ StepEnds(w) PROVE DatabaseInv'
  <2>1. CollectedOK(w)'  BY <1>7 DEF StepThrows, StepEnds, EndQuery, CollectedOK
  <2>2. ASSUME NEW v \in Wrappers, v # w PROVE CollectedOK(v)'
        BY <1>1, <1>7, <2>2
        DEF StepThrows, RowComes, StepEnds, EndQuery, Calls, Finalized
  <2>3. CASE StepThrows(w)
        BY <2>1, <2>2, <2>3 DEF StepThrows, RowComes, EndQuery, Calls
  <2>4. CASE StepEnds(w)
        BY <2>1, <2>2, <2>4 DEF StepEnds, EndQuery, Finalized, Calls
  <2> QED  BY <1>7, <2>3, <2>4
<1> QED  BY <1>2, <1>3, <1>4, <1>5, <1>6, <1>7 DEF DatabaseNext

\* So it holds in every state that can be reached.
LEMMA DatabaseInvariant == DatabaseSpec => []DatabaseInv
<1> QED  BY DatabaseStarts, DatabaseKept, PTL DEF DatabaseSpec

\* For any tables, queries and number of wrappers: who holds a lock outside a call
\* has run a query whose exception went past sqlite3_finalize() (Model.cpp:56-60).
\* However else a query or a statement ends, nothing stays locked by it.
THEOREM NothingStaysLocked == DatabaseSpec => []LocksInCalls
<1>1. DatabaseInv => LocksInCalls  BY DEF DatabaseInv
<1> QED  BY <1>1, DatabaseInvariant, PTL

-------------------------------------------------------------------------------
(* URLs. The parser cuts a text where it finds its separators; each cut loses *)
(* nothing, and no part before a cut holds what was looked for, because the   *)
(* first occurrence is the one that is found.                                 *)

OccursAt(part, s, i) == SubSeq(s, i, i + Len(part) - 1) = part
SeparatorAt(s, i) == s[i] = ":" /\ s[i + 1] = "/" /\ s[i + 2] = "/"
Lacks(s, c) == \A i \in 1..Len(s) : s[i] # c

\* A set of naturals that is not empty has a least member.
LEMMA LeastMember ==
    ASSUME NEW S, S \subseteq Nat, S # {}
    PROVE  Min(S) \in S /\ \A k \in S : Min(S) <= k
<1> DEFINE R == {p \in Nat \X Nat : p[1] < p[2]}
<1>1. R = OpToRel(<, Nat)  BY DEF OpToRel
<1>2. IsWellFoundedOn(R, Nat)  BY <1>1, NatLessThanWellFounded
<1> HIDE DEF R
<1>3. PICK m \in S : \A k \in S : <<k, m>> \notin R  BY <1>2, WFMin
<1>4. ASSUME NEW k \in S PROVE m <= k
  <2>1. m \in Nat /\ k \in Nat  OBVIOUS
  <2>2. ~(k < m)  BY <1>3, <2>1 DEF R
  <2> QED  BY <2>1, <2>2
<1> QED  BY <1>4 DEF Min

\* find() returns the first occurrence, or npos without one.
LEMMA FoundFirst ==
    ASSUME NEW s, NEW part, Len(s) \in Nat, Len(part) \in Nat
    PROVE  LET last == Len(s) - Len(part) + 1
               i == Find(s, part)
           IN /\ i = npos \/ (i \in 1..last /\ OccursAt(part, s, i))
              /\ \A j \in 1..last : OccursAt(part, s, j) => i # npos /\ i <= j
<1> DEFINE at == {i \in 1..(Len(s) - Len(part) + 1) : OccursAt(part, s, i)}
<1>1. Find(s, part) = IF at = {} THEN npos ELSE Min(at)  BY DEF Find, OccursAt
<1>2. at \subseteq Nat  OBVIOUS
<1>3. at # {} => Min(at) \in at /\ \A k \in at : Min(at) <= k  BY <1>2, LeastMember
<1>4. \A k \in at : k # npos  BY DEF npos
<1> QED  BY <1>1, <1>3, <1>4

\* The same for a single character,
LEMMA FoundChar ==
    ASSUME NEW S, NEW s \in Seq(S), NEW c
    PROVE  LET i == Find(s, <<c>>)
           IN /\ i = npos \/ (i \in 1..Len(s) /\ s[i] = c)
              /\ \A j \in 1..Len(s) : s[j] = c => i # npos /\ i <= j
<1>1. Len(s) \in Nat /\ Len(<<c>>) = 1  BY LenProperties
<1>2. ASSUME NEW j \in 1..Len(s) PROVE OccursAt(<<c>>, s, j) <=> s[j] = c
  <2>1. SubSeq(s, j, j) = <<s[j]>>
    <3>1. \A i \in j..j : s[i] \in S  BY <1>1, ElementOfSeq
    <3>2. /\ SubSeq(s, j, j) \in Seq(S) /\ Len(SubSeq(s, j, j)) = 1
          /\ SubSeq(s, j, j)[1] = s[j]
          BY <1>1, <3>1, SubSeqProperties
    <3>3. <<s[j]>> \in Seq(S) /\ Len(<<s[j]>>) = 1 /\ <<s[j]>>[1] = s[j]  BY <3>1
    <3> DEFINE u == SubSeq(s, j, j)  v == <<s[j]>>
    <3> HIDE DEF u, v
    <3>4. Len(u) = Len(v) /\ \A i \in 1..Len(u) : u[i] = v[i]  BY <3>2, <3>3 DEF u, v
    <3>5. u \in Seq(S) /\ v \in Seq(S)  BY <3>2, <3>3 DEF u, v
    <3>6. u = v  BY <3>4, <3>5, SeqEqual
    <3> QED  BY <3>6 DEF u, v
  <2>2. j + Len(<<c>>) - 1 = j  BY <1>1
  <2> QED  BY <2>1, <2>2 DEF OccursAt
<1>3. Len(s) - Len(<<c>>) + 1 = Len(s)  BY <1>1
<1> QED  BY <1>1, <1>2, <1>3, FoundFirst

\* and for the separator.
LEMMA FoundSeparator ==
    ASSUME NEW S, NEW s \in Seq(S)
    PROVE  LET i == Find(s, Separator)
           IN /\ i = npos \/ (i \in 1..(Len(s) - 2) /\ SeparatorAt(s, i))
              /\ \A j \in 1..(Len(s) - 2) : SeparatorAt(s, j) => i # npos /\ i <= j
<1>1. Len(s) \in Nat /\ Len(Separator) = 3  BY LenProperties DEF Separator
<1>2. ASSUME NEW j \in 1..(Len(s) - 2)
      PROVE  OccursAt(Separator, s, j) <=> SeparatorAt(s, j)
  <2>1. SubSeq(s, j, j + 2) = <<s[j], s[j + 1], s[j + 2]>>
    <3>1. \A i \in j..(j + 2) : s[i] \in S  BY <1>1, ElementOfSeq
    <3> DEFINE u == SubSeq(s, j, j + 2)
    <3>2. u \in Seq(S) /\ Len(u) = 3 /\ \A i \in 1..3 : u[i] = s[j + i - 1]
          BY <1>1, <3>1, SubSeqProperties
    <3> DEFINE v == <<s[j], s[j + 1], s[j + 2]>>
    <3>3. v \in Seq(S) /\ Len(v) = 3 /\ \A i \in 1..3 : v[i] = s[j + i - 1]
      <4>1. s[j] \in S /\ s[j + 1] \in S /\ s[j + 2] \in S  BY <1>1, <3>1
      <4>2. v \in Seq(S) /\ Len(v) = 3 /\ v[1] = s[j] /\ v[2] = s[j + 1] /\ v[3] = s[j + 2]
            BY <4>1
      <4> HIDE DEF v
      <4> QED  BY <4>2
    <3> HIDE DEF u, v
    <3>5. Len(u) = Len(v) /\ \A i \in 1..Len(u) : u[i] = v[i]  BY <3>2, <3>3
    <3>4. u = v  BY <3>2, <3>3, <3>5, SeqEqual
    <3> QED  BY <3>4 DEF u, v
  <2>2. j + Len(Separator) - 1 = j + 2  BY <1>1
  <2> QED  BY <2>1, <2>2 DEF OccursAt, SeparatorAt, Separator
<1>3. Len(s) - Len(Separator) + 1 = Len(s) - 2  BY <1>1
<1>4. LET i == Find(s, Separator)
      IN /\ i = npos \/ (i \in 1..(Len(s) - 2) /\ OccursAt(Separator, s, i))
         /\ \A j \in 1..(Len(s) - 2) : OccursAt(Separator, s, j) => i # npos /\ i <= j
  <2>1. Len(Separator) \in Nat  BY <1>1
  <2> QED  BY <1>1, <1>3, <2>1, FoundFirst
<1> QED  BY <1>2, <1>4

\* A text without a character.
LEMMA LacksChar ==
    ASSUME NEW S, NEW s \in Seq(S), NEW c
    PROVE  Occurs(<<c>>, s) <=> ~Lacks(s, c)
BY FoundChar DEF Occurs, Lacks

\* A cut leaves the two pieces, and they give the text back.
LEMMA Pieces ==
    ASSUME NEW S, NEW s \in Seq(S), NEW i \in 1..(Len(s) + 1)
    PROVE  /\ Before(s, i) \in Seq(S) /\ Len(Before(s, i)) = i - 1
           /\ \A k \in 1..(i - 1) : Before(s, i)[k] = s[k]
           /\ From(s, i) \in Seq(S) /\ Len(From(s, i)) = Len(s) - i + 1
           /\ \A k \in 1..(Len(s) - i + 1) : From(s, i)[k] = s[i + k - 1]
           /\ s = Before(s, i) \o From(s, i)
<1>1. Len(s) \in Nat /\ \A k \in 1..Len(s) : s[k] \in S  BY LenProperties, ElementOfSeq
<1>2. /\ Before(s, i) \in Seq(S) /\ Len(Before(s, i)) = i - 1
      /\ \A k \in 1..(i - 1) : Before(s, i)[k] = s[k]
  <2>1. \A k \in 1..(i - 1) : s[k] \in S  BY <1>1
  <2>2. /\ SubSeq(s, 1, i - 1) \in Seq(S)
        /\ Len(SubSeq(s, 1, i - 1)) = IF 1 <= i - 1 THEN i - 1 - 1 + 1 ELSE 0
        /\ \A k \in 1..(i - 1 - 1 + 1) : SubSeq(s, 1, i - 1)[k] = s[1 + k - 1]
        BY <1>1, <2>1, SubSeqProperties
  <2> QED  BY <1>1, <2>2 DEF Before
<1>3. /\ From(s, i) \in Seq(S) /\ Len(From(s, i)) = Len(s) - i + 1
      /\ \A k \in 1..(Len(s) - i + 1) : From(s, i)[k] = s[i + k - 1]
  <2>1. \A k \in i..Len(s) : s[k] \in S  BY <1>1
  <2>2. /\ SubSeq(s, i, Len(s)) \in Seq(S)
        /\ Len(SubSeq(s, i, Len(s))) = IF i <= Len(s) THEN Len(s) - i + 1 ELSE 0
        /\ \A k \in 1..(Len(s) - i + 1) : SubSeq(s, i, Len(s))[k] = s[i + k - 1]
        BY <1>1, <2>1, SubSeqProperties
  <2> QED  BY <1>1, <2>2 DEF From
<1>4. s = Before(s, i) \o From(s, i)
  <2>0. /\ 1 \in 1..(Len(s) + 1) /\ i - 1 \in (1 - 1)..Len(s)
        /\ Len(s) \in (i - 1)..Len(s)
        BY <1>1
  <2>1. SubSeq(s, 1, i - 1) \o SubSeq(s, (i - 1) + 1, Len(s)) = SubSeq(s, 1, Len(s))
        BY <2>0, ConcatAdjacentSubSeq
  <2>2. SubSeq(s, 1, Len(s)) = s /\ (i - 1) + 1 = i  BY <1>1, SubSeqFull
  <2> QED  BY <2>1, <2>2 DEF Before, From
<1> QED  BY <1>2, <1>3, <1>4

\* A cut at a character leaves it at the head of the second piece.
LEMMA CutAtChar ==
    ASSUME NEW S, NEW s \in Seq(S), NEW i \in 1..Len(s)
    PROVE  From(s, i) = <<s[i]>> \o From(s, i + 1)
<1>1. Len(s) \in Nat /\ i + 1 \in 1..(Len(s) + 1)  BY LenProperties
<1>2. SubSeq(s, i, Len(s)) = <<s[i]>> \o SubSeq(s, i + 1, Len(s))
  <2>1. Len(s) \in i..Len(s)  BY <1>1
  <2> QED  BY <2>1, SubSeqRecursiveFirst
<1> QED  BY <1>2 DEF From

\* A cut at the separator leaves the separator.
LEMMA CutAtSeparator ==
    ASSUME NEW S, NEW s \in Seq(S), NEW i \in 1..(Len(s) - 2), SeparatorAt(s, i)
    PROVE  From(s, i) = Separator \o From(s, i + 3)
<1>1. Len(s) \in Nat  BY LenProperties
<1>2. i \in 1..(Len(s) + 1) /\ i + 3 \in 1..(Len(s) + 1)  BY <1>1
<1> DEFINE u == From(s, i)  w == From(s, i + 3)
<1>3. /\ u \in Seq(S) /\ Len(u) = Len(s) - i + 1
      /\ \A k \in 1..(Len(s) - i + 1) : u[k] = s[i + k - 1]
      BY <1>2, Pieces
<1>4. /\ w \in Seq(S) /\ Len(w) = Len(s) - (i + 3) + 1
      /\ \A k \in 1..(Len(s) - (i + 3) + 1) : w[k] = s[(i + 3) + k - 1]
      BY <1>2, Pieces
<1>5. /\ Separator \in Seq(S) /\ Len(Separator) = 3
      /\ Separator[1] = ":" /\ Separator[2] = "/" /\ Separator[3] = "/"
  <2>1. s[i] \in S /\ s[i + 1] \in S  BY <1>1, ElementOfSeq
  <2>2. ":" \in S /\ "/" \in S  BY <2>1 DEF SeparatorAt
  <2> QED  BY <2>2 DEF Separator
<1> DEFINE v == Separator \o w
<1>6. /\ v \in Seq(S) /\ Len(v) = 3 + Len(w)
      /\ \A k \in 1..(3 + Len(w)) : v[k] = IF k <= 3 THEN Separator[k] ELSE w[k - 3]
  <2> HIDE DEF w
  <2>1. /\ Separator \o w \in Seq(S)
        /\ Len(Separator \o w) = Len(Separator) + Len(w)
        /\ \A k \in 1..(Len(Separator) + Len(w)) :
               (Separator \o w)[k] = IF k <= Len(Separator) THEN Separator[k]
                                     ELSE w[k - Len(Separator)]
        BY <1>4, <1>5, ConcatProperties
  <2> QED  BY <1>5, <2>1
<1> HIDE DEF u, v, w
<1>7. Len(u) = Len(v)  BY <1>1, <1>3, <1>4, <1>6
<1>8. ASSUME NEW k \in 1..Len(u) PROVE u[k] = v[k]
  <2>1. u[k] = s[i + k - 1]  BY <1>1, <1>3
  <2>2. CASE k > 3
    <3>1. k - 3 \in 1..(Len(s) - (i + 3) + 1)  BY <1>1, <1>3, <2>2
    <3>2. w[k - 3] = s[(i + 3) + (k - 3) - 1]  BY <1>4, <3>1
    <3>3. (i + 3) + (k - 3) - 1 = i + k - 1  BY <1>1, <1>3
    <3>4. v[k] = w[k - 3]  BY <1>1, <1>3, <1>6, <1>7, <2>2
    <3> QED  BY <2>1, <3>2, <3>3, <3>4
  <2>3. CASE k \in {1, 2, 3}
    <3>1. v[k] = Separator[k]  BY <1>3, <1>6, <1>7, <2>3
    <3>2. i + 1 - 1 = i /\ i + 2 - 1 = i + 1 /\ i + 3 - 1 = i + 2  BY <1>1
    <3> QED  BY <1>5, <2>1, <2>3, <3>1, <3>2 DEF SeparatorAt
  <2> QED  BY <1>1, <1>3, <2>2, <2>3
<1>9. u = v  BY <1>3, <1>6, <1>7, <1>8, SeqEqual
<1> QED  BY <1>9 DEF u, v, w

\* What precedes the target is split into a host and a port that give it back,
\* where the default port may go unsaid.
LEMMA AuthoritySplits ==
    ASSUME NEW protocol, NEW target,
           NEW authority \in Seq(Symbols), Lacks(authority, "/")
    PROVE  LET split == Split(protocol, authority, target)
           IN /\ split.protocol = protocol /\ split.target = target
              /\ split.host \in Seq(Symbols)
              /\ ~Occurs(<<":">>, split.host) /\ ~Occurs(<<"/">>, split.host)
              /\ ~Occurs(<<"/">>, split.port)
              /\ \E port \in Seq(Symbols) :
                     /\ authority = split.host \o port
                     /\ \/ port = <<":">> \o split.port
                        \/ port = <<>> /\ split.port = DefaultPort(protocol)
<1> DEFINE i == Find(authority, <<":">>)  split == Split(protocol, authority, target)
<1>1. /\ i = npos \/ (i \in 1..Len(authority) /\ authority[i] = ":")
      /\ \A j \in 1..Len(authority) : authority[j] = ":" => i # npos /\ i <= j
      BY FoundChar
<1>2. Len(authority) \in Nat  BY LenProperties
<1>3. split.protocol = protocol /\ split.target = target  BY DEF Split
<1>4. CASE i = npos
  <2>1. split.host = authority /\ split.port = DefaultPort(protocol)  BY <1>4 DEF Split
  <2>2. Lacks(authority, ":")  BY <1>1, <1>4 DEF Lacks
  <2>3. ~Occurs(<<"/">>, DefaultPort(protocol))
    <3> DEFINE port == DefaultPort(protocol)
    <3>1. port \in Seq({"443", "80"}) /\ Len(port) = 1 /\ port[1] \in {"443", "80"}
      <4>1. port = <<"443">> \/ port = <<"80">>  BY DEF DefaultPort
      <4> HIDE DEF port
      <4>2. CASE port = <<"443">>  BY <4>2
      <4>3. CASE port = <<"80">>  BY <4>3
      <4> QED  BY <4>1, <4>2, <4>3
    <3> HIDE DEF port
    <3>2. Lacks(port, "/")  BY <3>1 DEF Lacks
    <3>3. ~Occurs(<<"/">>, port)  BY <3>1, <3>2, LacksChar
    <3> QED  BY <3>3 DEF port
  <2>4. authority = authority \o <<>> /\ <<>> \in Seq(Symbols)
        BY ConcatEmptySeq, EmptySeq
  <2>5. ~Occurs(<<":">>, authority) /\ ~Occurs(<<"/">>, authority)  BY <2>2, LacksChar
  <2> QED  BY <1>3, <2>1, <2>3, <2>4, <2>5
<1>5. CASE i # npos
  <2>1. i \in 1..Len(authority) /\ authority[i] = ":"  BY <1>1, <1>5
  <2> DEFINE host == Before(authority, i)  port == From(authority, i + 1)
  <2>2. split.host = host /\ split.port = port  BY <1>5 DEF Split
  <2>3. i \in 1..(Len(authority) + 1) /\ i + 1 \in 1..(Len(authority) + 1)
        BY <1>2, <2>1
  <2>4. /\ host \in Seq(Symbols) /\ Len(host) = i - 1
        /\ \A k \in 1..(i - 1) : host[k] = authority[k]
        /\ authority = host \o From(authority, i)
        /\ From(authority, i) \in Seq(Symbols)
        BY <2>3, Pieces
  <2>5. /\ port \in Seq(Symbols) /\ Len(port) = Len(authority) - (i + 1) + 1
        /\ \A k \in 1..(Len(authority) - (i + 1) + 1) : port[k] = authority[(i + 1) + k - 1]
        BY <2>3, Pieces
  <2>6. From(authority, i) = <<":">> \o port  BY <2>1, CutAtChar
  <2> HIDE DEF host, port, i
  <2>7. Lacks(host, ":") /\ Lacks(host, "/")
    <3>1. ASSUME NEW k \in 1..Len(host) PROVE host[k] # ":" /\ host[k] # "/"
      <4>1. k \in 1..Len(authority) /\ k < i /\ host[k] = authority[k]
            BY <1>2, <2>1, <2>4
      <4>2. ~(i <= k)  BY <1>2, <2>1, <4>1
      <4> QED  BY <1>1, <4>1, <4>2 DEF Lacks
    <3> QED  BY <3>1 DEF Lacks
  <2>8. Lacks(port, "/")
    <3>1. ASSUME NEW k \in 1..Len(port) PROVE port[k] # "/"
      <4>1. (i + 1) + k - 1 \in 1..Len(authority)  BY <1>2, <2>1, <2>5
      <4>2. port[k] = authority[(i + 1) + k - 1]  BY <2>5
      <4> QED  BY <4>1, <4>2 DEF Lacks
    <3> QED  BY <3>1 DEF Lacks
  <2>9. ~Occurs(<<":">>, host) /\ ~Occurs(<<"/">>, host) /\ ~Occurs(<<"/">>, port)
        BY <2>4, <2>5, <2>7, <2>8, LacksChar
  <2>10. \E tail \in Seq(Symbols) :
             /\ authority = split.host \o tail
             /\ \/ tail = <<":">> \o split.port
                \/ tail = <<>> /\ split.port = DefaultPort(protocol)
    <3> DEFINE tail == From(authority, i)
    <3>1. /\ tail \in Seq(Symbols) /\ authority = split.host \o tail
          /\ tail = <<":">> \o split.port
          BY <2>2, <2>4, <2>6
    <3> HIDE DEF tail, split
    <3> QED  BY <3>1
  <2> QED  BY <1>3, <2>2, <2>4, <2>9, <2>10
<1> QED  BY <1>4, <1>5

\* The text before the separator does not hold one, nor does one begin in it.
LEMMA ProtocolEnds ==
    ASSUME NEW url \in Seq(Symbols), NEW e \in 1..(Len(url) - 2), SeparatorAt(url, e),
           \A j \in 1..(Len(url) - 2) : SeparatorAt(url, j) => e <= j
    PROVE  ~Occurs(Separator, Before(url, e) \o <<":", "/">>)
<1> DEFINE protocol == Before(url, e)  s == protocol \o <<":", "/">>
<1>1. Len(url) \in Nat /\ e \in 1..(Len(url) + 1)
  <2>1. Len(url) \in Nat  BY LenProperties
  <2> QED  BY <2>1
<1>2. /\ protocol \in Seq(Symbols) /\ Len(protocol) = e - 1
      /\ \A k \in 1..(e - 1) : protocol[k] = url[k]
      BY <1>1, Pieces
<1>3. <<":", "/">> \in Seq(Symbols) /\ Len(<<":", "/">>) = 2
      BY DEF Symbols
<1>4. /\ s \in Seq(Symbols) /\ Len(s) = e + 1
      /\ \A k \in 1..(e + 1) : s[k] = url[k]
  <2> DEFINE two == <<":", "/">>
  <2>1. two \in Seq(Symbols) /\ Len(two) = 2 /\ two[1] = ":" /\ two[2] = "/"  BY <1>3
  <2> HIDE DEF two, protocol
  <2>2. /\ protocol \o two \in Seq(Symbols)
        /\ Len(protocol \o two) = Len(protocol) + Len(two)
        /\ \A k \in 1..(Len(protocol) + Len(two)) :
               (protocol \o two)[k] = IF k <= Len(protocol) THEN protocol[k]
                                      ELSE two[k - Len(protocol)]
        BY <1>2, <2>1, ConcatProperties
  <2>3. Len(protocol) + Len(two) = e + 1  BY <1>1, <1>2, <2>1
  <2>4. ASSUME NEW k \in 1..(e + 1) PROVE (protocol \o two)[k] = url[k]
    <3>1. CASE k <= e - 1
      <4>1. k \in 1..(e - 1)  BY <1>1, <3>1
      <4> QED  BY <1>1, <1>2, <2>2, <2>3, <3>1, <4>1
    <3>2. CASE k = e
      <4>1. (protocol \o two)[k] = two[1]  BY <1>1, <1>2, <2>2, <2>3, <3>2
      <4> QED  BY <2>1, <3>2, <4>1 DEF SeparatorAt
    <3>3. CASE k = e + 1
      <4>1. (protocol \o two)[k] = two[2]  BY <1>1, <1>2, <2>2, <2>3, <3>3
      <4> QED  BY <2>1, <3>3, <4>1 DEF SeparatorAt
    <3>4. e \in Nat /\ k \in Nat /\ k <= e + 1  BY <1>1
    <3>5. k <= e - 1 \/ k = e \/ k = e + 1  BY <3>4
    <3> QED  BY <3>1, <3>2, <3>3, <3>5
  <2> QED  BY <2>2, <2>3, <2>4 DEF two
<1> HIDE DEF protocol, s
<1>5. ASSUME NEW j \in 1..(Len(s) - 2) PROVE ~SeparatorAt(s, j)
  <2>1. j \in 1..(e - 1) /\ j \in 1..(Len(url) - 2)  BY <1>1, <1>4
  <2>2. s[j] = url[j] /\ s[j + 1] = url[j + 1] /\ s[j + 2] = url[j + 2]
        BY <1>1, <1>4, <2>1
  <2>3. ~(e <= j)  BY <1>1, <2>1
  <2> QED  BY <2>1, <2>2, <2>3 DEF SeparatorAt
<1>6. ~Occurs(Separator, s)  BY <1>4, <1>5, FoundSeparator DEF Occurs
<1> QED  BY <1>6 DEF s, protocol

\* Concatenation by a name of its own, for the prover to reason about equations.
Cat(a, b) == a \o b

\* What Spellings() consists of.
Compounds(named, P, Q) == {named \o p \o q : p \in P, q \in Q}

\* A member of each set gives a compound.
LEMMA InCompounds ==
    ASSUME NEW P, NEW Q, NEW named, NEW p \in P, NEW q \in Q
    PROVE  Cat(Cat(named, p), q) \in Compounds(named, P, Q)
BY DEF Cat, Compounds

\* Pieces of a text may be put together in any order.
LEMMA Grouped ==
    ASSUME NEW a \in Seq(Symbols), NEW b \in Seq(Symbols), NEW c \in Seq(Symbols)
    PROVE  Cat(a, b) \in Seq(Symbols) /\ Cat(a, Cat(b, c)) = Cat(Cat(a, b), c)
BY ConcatAssociative, ConcatProperties DEF Cat

\* The same for the five pieces of a URL.
LEMMA Regrouped ==
    ASSUME NEW a \in Seq(Symbols), NEW b \in Seq(Symbols), NEW c \in Seq(Symbols),
           NEW d \in Seq(Symbols), NEW f \in Seq(Symbols)
    PROVE  Cat(a, Cat(b, Cat(Cat(c, d), f))) = Cat(Cat(Cat(Cat(a, b), c), d), f)
<1>1. Cat(c, d) \in Seq(Symbols) /\ Cat(a, b) \in Seq(Symbols)  BY Grouped
<1>2. Cat(Cat(c, d), f) \in Seq(Symbols)  BY <1>1, Grouped
<1>3. Cat(a, Cat(b, Cat(Cat(c, d), f))) = Cat(Cat(a, b), Cat(Cat(c, d), f))
      BY <1>2, Grouped
<1>4. Cat(Cat(a, b), Cat(Cat(c, d), f)) = Cat(Cat(Cat(a, b), Cat(c, d)), f)
      BY <1>1, Grouped
<1>5. Cat(Cat(a, b), Cat(c, d)) = Cat(Cat(Cat(a, b), c), d)  BY <1>1, Grouped
<1> QED  BY <1>3, <1>4, <1>5

\* After the protocol come the authority and the target, which may be left out.
LEMMA RestSplits ==
    ASSUME NEW rest \in Seq(Symbols)
    PROVE  LET h == Find(rest, <<"/">>)
               authority == IF h = npos THEN rest ELSE Before(rest, h)
               target == IF h = npos THEN <<"/">> ELSE Target(rest, h)
           IN /\ authority \in Seq(Symbols) /\ Lacks(authority, "/")
              /\ target \in Seq(Symbols) /\ target # <<>> /\ Head(target) = "/"
              /\ \/ rest = authority \o target
                 \/ rest = authority \o <<>> /\ target = <<"/">>
<1> DEFINE h == Find(rest, <<"/">>)
<1>1. /\ h = npos \/ (h \in 1..Len(rest) /\ rest[h] = "/")
      /\ \A j \in 1..Len(rest) : rest[j] = "/" => h # npos /\ h <= j
      BY FoundChar
<1>2. Len(rest) \in Nat  BY LenProperties
<1> HIDE DEF h
<1>3. CASE h = npos
  <2>1. Lacks(rest, "/")  BY <1>1, <1>3 DEF Lacks
  <2>2. <<"/">> \in Seq(Symbols) /\ <<"/">> # <<>> /\ Head(<<"/">>) = "/"
        BY DEF Symbols
  <2>3. rest = rest \o <<>>  BY ConcatEmptySeq
  <2> QED  BY <1>3, <2>1, <2>2, <2>3 DEF h
<1>4. CASE h # npos
  <2>1. h \in 1..Len(rest) /\ rest[h] = "/" /\ h \in 1..(Len(rest) + 1)
        BY <1>1, <1>2, <1>4
  <2> DEFINE authority == Before(rest, h)  target == From(rest, h)
  <2>2. /\ authority \in Seq(Symbols) /\ Len(authority) = h - 1
        /\ \A k \in 1..(h - 1) : authority[k] = rest[k]
        /\ rest = authority \o target
        BY <2>1, Pieces
  <2>3. /\ target \in Seq(Symbols) /\ Len(target) = Len(rest) - h + 1
        /\ \A k \in 1..(Len(rest) - h + 1) : target[k] = rest[h + k - 1]
        BY <2>1, Pieces
  <2> HIDE DEF authority, target
  <2>4. Lacks(authority, "/")
    <3>1. ASSUME NEW k \in 1..Len(authority) PROVE authority[k] # "/"
      <4>1. k \in 1..Len(rest) /\ authority[k] = rest[k] /\ ~(h <= k)
            BY <1>2, <2>1, <2>2
      <4> QED  BY <1>1, <4>1
    <3> QED  BY <3>1 DEF Lacks
  <2>5. target # <<>> /\ Head(target) = "/"
    <3>1. Len(target) \in Nat \ {0} /\ target[1] = rest[h]
      <4>1. 1 \in 1..(Len(rest) - h + 1) /\ h + 1 - 1 = h  BY <1>2, <2>1
      <4> QED  BY <1>2, <2>1, <2>3, <4>1
    <3> QED  BY <2>1, <2>3, <3>1
  <2> QED  BY <1>4, <2>2, <2>3, <2>4, <2>5 DEF authority, target, h, Target
<1> QED  BY <1>3, <1>4

\* For every set of words and every text: the parser refuses exactly the texts
\* without "://", and of any other returns parts that give it back, none of which
\* holds the character that ends it (UrlParser.cpp:7-32).
THEOREM EveryUrlSplitsBack == \A url \in Seq(Symbols) : SplitsBack(url)
<1> SUFFICES ASSUME NEW url \in Seq(Symbols) PROVE SplitsBack(url)
    OBVIOUS
<1> DEFINE e == Find(url, Separator)
           protocol == Before(url, e)
           rest == From(url, e + 3)
           h == Find(rest, <<"/">>)
           authority == IF h = npos THEN rest ELSE Before(rest, h)
           target == IF h = npos THEN <<"/">> ELSE Target(rest, h)
<1>1. /\ e = npos \/ (e \in 1..(Len(url) - 2) /\ SeparatorAt(url, e))
      /\ \A j \in 1..(Len(url) - 2) : SeparatorAt(url, j) => e # npos /\ e <= j
      BY FoundSeparator
<1>2. CASE e = npos
  <2>1. Parse(url) = Invalid  BY <1>2 DEF Parse
  <2> QED  BY <1>2, <2>1 DEF SplitsBack, Occurs
<1>3. CASE e # npos
  <2>1. Parse(url) = Split(protocol, authority, target)  BY <1>3 DEF Parse
  <2> DEFINE split == Split(protocol, authority, target)
  <2>2. e \in 1..(Len(url) - 2) /\ SeparatorAt(url, e)  BY <1>1, <1>3
  <2>3. e \in 1..(Len(url) + 1) /\ e + 3 \in 1..(Len(url) + 1)
    <3>1. Len(url) \in Nat  BY LenProperties
    <3> QED  BY <2>2, <3>1
  <2>4. /\ protocol \in Seq(Symbols) /\ rest \in Seq(Symbols)
        /\ url = protocol \o (Separator \o rest)
    <3>1. url = protocol \o From(url, e) /\ protocol \in Seq(Symbols)  BY <2>3, Pieces
    <3>2. From(url, e) = Separator \o rest  BY <2>2, CutAtSeparator
    <3>3. rest \in Seq(Symbols)  BY <2>3, Pieces
    <3> QED  BY <3>1, <3>2, <3>3
  <2>5. /\ authority \in Seq(Symbols) /\ Lacks(authority, "/")
        /\ target \in Seq(Symbols) /\ target # <<>> /\ Head(target) = "/"
        /\ \/ rest = authority \o target
           \/ rest = authority \o <<>> /\ target = <<"/">>
        BY <2>4, RestSplits
  <2>6. ~Occurs(Separator, protocol \o <<":", "/">>)
        BY <1>1, <2>2, ProtocolEnds
  <2> HIDE DEF protocol, rest, authority, target
  <2>7. /\ split.protocol = protocol /\ split.target = target
        /\ split.host \in Seq(Symbols)
        /\ ~Occurs(<<":">>, split.host) /\ ~Occurs(<<"/">>, split.host)
        /\ ~Occurs(<<"/">>, split.port)
        /\ \E port \in Seq(Symbols) :
               /\ authority = split.host \o port
               /\ \/ port = <<":">> \o split.port
                  \/ port = <<>> /\ split.port = DefaultPort(protocol)
        BY <2>5, AuthoritySplits
  <2> HIDE DEF split
  <2>8. url \in Spellings(split)
    <3>1. PICK port \in Seq(Symbols) :
                 /\ authority = split.host \o port
                 /\ \/ port = <<":">> \o split.port
                    \/ port = <<>> /\ split.port = DefaultPort(protocol)
          BY <2>7
    <3>2. PICK tail \in Seq(Symbols) :
                 /\ rest = authority \o tail
                 /\ tail = split.target \/ (tail = <<>> /\ split.target = <<"/">>)
          BY <2>5, <2>7, EmptySeq
    <3>3. Separator \in Seq(Symbols)  BY DEF Separator, Symbols
    <3> DEFINE host == split.host
    <3>4. /\ protocol \in Seq(Symbols) /\ Separator \in Seq(Symbols)
          /\ host \in Seq(Symbols) /\ port \in Seq(Symbols) /\ tail \in Seq(Symbols)
          BY <2>4, <2>7, <3>3
    <3> DEFINE ports == {<<":">> \o split.port}
                    \cup (IF split.port = DefaultPort(split.protocol) THEN {<<>>} ELSE {})
               targets == {split.target}
                    \cup (IF split.target = <<"/">> THEN {<<>>} ELSE {})
    <3>5. port \in ports /\ tail \in targets  BY <2>7, <3>1, <3>2
    <3>6. url = Cat(protocol, Cat(Separator, Cat(Cat(host, port), tail)))
          BY <2>4, <3>1, <3>2 DEF Cat
    <3> HIDE DEF ports, targets, host
    <3>7. url = Cat(Cat(Cat(Cat(protocol, Separator), host), port), tail)
          BY <3>4, <3>6, Regrouped
    <3> DEFINE named == Cat(Cat(protocol, Separator), host)
    <3>8. Cat(Cat(named, port), tail) \in Compounds(named, ports, targets)
          BY <3>5, InCompounds
    <3>9. named = split.protocol \o Separator \o split.host  BY <2>7 DEF Cat, host
    <3>10. Spellings(split) = Compounds(split.protocol \o Separator \o split.host, ports, targets)
          BY DEF Spellings, Compounds, ports, targets
    <3> HIDE DEF named
    <3>11. url \in Compounds(named, ports, targets)  BY <3>7, <3>8 DEF named
    <3> QED  BY <3>9, <3>10, <3>11
  <2>9. split # Invalid
    <3>1. Invalid.target = <<>>  BY DEF Invalid
    <3> QED  BY <2>5, <2>7, <3>1
  <2>10. SplitsBack(url) <=>
             /\ url \in Spellings(split)
             /\ ~Occurs(Separator, split.protocol \o <<":", "/">>)
             /\ ~Occurs(<<":">>, split.host) /\ ~Occurs(<<"/">>, split.host)
             /\ ~Occurs(<<"/">>, split.port)
             /\ split.target # <<>> /\ Head(split.target) = "/"
    <3>1. Parse(url) = split  BY <2>1 DEF split
    <3> QED  BY <2>9, <3>1 DEF SplitsBack
  <2> QED  BY <2>5, <2>6, <2>7, <2>8, <2>10
<1> QED  BY <1>2, <1>3

TextInv == subject = "url" => text \in Seq(Symbols)

\* So it is with the texts of a run.
THEOREM TextsSplitBack == ServicesSpec => []UrlSplitsBack
<1>1. ServicesInit => TextInv
  <2> SUFFICES ASSUME ServicesInit, subject = "url" PROVE text \in Seq(Symbols)
      BY DEF TextInv
  <2>1. text \in TextsUpTo(5)  BY DEF ServicesInit, Only
  <2>2. PICK length \in 0..5 : text \in [1..length -> Symbols]  BY <2>1 DEF TextsUpTo
  <2> QED  BY <2>2
<1>2. TextInv /\ [ServicesNext]_servicesVars => TextInv'
      BY DEF TextInv, ServicesNext, servicesVars
<1>3. TextInv => UrlSplitsBack  BY EveryUrlSplitsBack DEF TextInv, UrlSplitsBack
<1> QED  BY <1>1, <1>2, <1>3, PTL DEF ServicesSpec

-------------------------------------------------------------------------------
(* JSON documents. *)

\* What an access that goes through `doc` and creates the nodes `paths` leaves.
LEMMA MadeKeeps ==
    ASSUME NEW doc, NEW r, NEW kind, NEW paths,
           NEW p \in DOMAIN doc, (p # r /\ p \notin Below(doc, r)) \/ doc[r] = kind
    PROVE  LET after == WithNulls(Made(doc, r, kind), paths)
           IN p \in DOMAIN after /\ after[p] = doc[p]
<1> DEFINE made == Made(doc, r, kind)
<1>1. p \in DOMAIN made /\ made[p] = doc[p]
  <2>1. CASE doc[r] = kind  BY <2>1 DEF Made
  <2>2. CASE doc[r] # kind  BY <2>2 DEF Made, Assigned
  <2> QED  BY <2>1, <2>2
<1> HIDE DEF made
<1> QED  BY <1>1 DEF WithNulls, made

\* For any documents, keys and indices: a non-const access loses nothing but what
\* the receiver held as a value of another kind (JSON.hpp:74-89).
THEOREM AccessesKeepData == ServicesSpec => AccessKeepsData
<1>1. ASSUME NEW r \in Receivers, NEW key, AtKey(r, key) PROVE Keeps(r, "object")
      BY <1>1, MadeKeeps DEF AtKey, Keeps
<1>2. ASSUME NEW r \in Receivers, NEW index, AtIndex(r, index) PROVE Keeps(r, "array")
      BY <1>2, MadeKeeps DEF AtIndex, Keeps
<1>3. TRUE => [\A r \in Receivers :
                  /\ (\E key \in JsonKeys : AtKey(r, key)) => Keeps(r, "object")
                  /\ (\E index \in 0..MaxIndex : AtIndex(r, index))
                     => Keeps(r, "array")]_jsonVars
      BY <1>1, <1>2
<1> QED  BY <1>3, PTL DEF AccessKeepsData

-------------------------------------------------------------------------------
(* The types of an exchange. Only one request is with its handler, and only   *)
(* while the I/O thread runs: a route is looked up when no other is called,   *)
(* and the thread leaves run() between two handlers.                          *)

SessionStates == {"none", "backlog", "reading", "calling", "writing", "written",
                  "answered", "closed"}

ControlOK == /\ {listening, isRunning_, stopped, terminated} \subseteq BOOLEAN
             /\ ioThread_ \in {"none", "running", "left"}
             /\ stopCall \in {"no", "flagged", "joining"}
             /\ accepts \in Nat /\ starts \in Nat
SessionsOK == /\ session \in [Connections -> SessionStates]
              /\ answer \in [Connections -> Nat]
              /\ \A c, d \in Calling : c = d /\ ioThread_ = "running"
StagesOK == /\ port_ \in Ports /\ request \in Requests
            /\ \A c \in Connections : stage[c] \notin {"idle", "done"} => parts[c] # Invalid
            /\ stage \in [Connections -> {"idle", "resolving", "handshaking", "writing",
                                          "reading", "closing", "done"}]
            /\ outcome \in [Connections -> {"none", "answered", "error"}]
            /\ seen \in [Connections -> Nat]

\* The types in three parts, what is left follows from ExchangeInv.
LEMMA ExchangeTypes ==
    ASSUME ExchangeInv
    PROVE  ExchangeTypeOK <=> ControlOK /\ SessionsOK /\ StagesOK
<1>1. {added, routes_} \subseteq [Keys -> Nat]  BY DEF ExchangeInv, RoutesOK
<1>2. \A c \in Connections : wanted[c] \in Keys \/ session[c] # "calling"
      BY DEF ExchangeInv, CallOK
<1> QED  BY <1>1, <1>2 DEF ExchangeTypeOK, HttpTypeOK, ControlOK, SessionsOK, StagesOK,
                           SessionStates

\* The control of the server.
LEMMA ControlTyped ==
    ASSUME ControlOK, [ExchangeNext]_exchangeVars
    PROVE  ControlOK'
<1> USE DEF ControlOK, controlVars
<1>1. CASE AppCalls
  <2>1. ASSUME NEW k \in Keys, AddRoute(k) PROVE ControlOK'  BY <2>1 DEF AddRoute
  <2>2. CASE HttpStart
    <3>1. /\ isRunning_' = TRUE /\ starts' = starts + 1
          /\ UNCHANGED <<listening, stopped, stopCall>>
          BY <2>2 DEF HttpStart
    <3>2. CASE ioThread_ # "none"
          BY <2>2, <3>1, <3>2 DEF HttpStart
    <3>3. CASE ioThread_ = "none"
          BY <2>2, <3>1, <3>3 DEF HttpStart
    <3> QED  BY <3>2, <3>3
  <2>3. CASE HttpStop  BY <2>3 DEF HttpStop
  <2>4. CASE StopContext  BY <2>4 DEF StopContext
  <2>5. CASE HttpJoin  BY <2>5 DEF HttpJoin
  <2>6. CASE HttpDestroy
    <3>1. UNCHANGED <<isRunning_, ioThread_, stopped, stopCall, starts>>
          BY <2>6 DEF HttpDestroy
    <3>2. CASE ioThread_ # "none"
          BY <2>6, <3>1, <3>2 DEF HttpDestroy
    <3>3. CASE ioThread_ = "none"
      <4>1. listening' = FALSE /\ accepts' = 0 /\ UNCHANGED terminated
            BY <2>6, <3>3 DEF HttpDestroy
      <4> QED  BY <3>1, <4>1
    <3> QED  BY <3>2, <3>3
  <2> QED  BY <1>1, <2>1, <2>2, <2>3, <2>4, <2>5, <2>6 DEF AppCalls
<1>2. CASE AcceptFails  BY <1>2 DEF AcceptFails, PendingAfter
<1>3. CASE LeaveRun \/ HandlerThrows  BY <1>3 DEF LeaveRun, HandlerThrows
<1>4. ASSUME NEW c \in Connections, ThreadStep(c) PROVE ControlOK'
      BY <1>4 DEF ThreadStep, HttpAccept, PendingAfter, Lookup, CallHandler, RequestFails, Finish
<1>5. ASSUME NEW c \in Connections, Begin(c) \/ Call(c) \/ Fails(c) \/ SendResponse(c)
      PROVE  ControlOK'
      BY <1>5 DEF Begin, Call, Connect, WriteRequest, ReadResponse, Shutdown, Fails,
                  SendResponse, Respond, httpVars
<1>6. CASE UNCHANGED exchangeVars  BY <1>6 DEF exchangeVars, httpVars
<1> QED  BY <1>1, <1>2, <1>3, <1>4, <1>5, <1>6 DEF ExchangeNext, ServerStep

\* The server's ends of the connections.
LEMMA SessionsTyped ==
    ASSUME ExchangeInv, ControlOK, SessionsOK, [ExchangeNext]_exchangeVars
    PROVE  SessionsOK'
<1> USE DEF SessionsOK, controlVars
<1>1. ASSUME UNCHANGED <<session, answer>>, ioThread_ = "running" => ioThread_' = "running"
      PROVE  SessionsOK'
      BY <1>1 DEF Calling
<1>2. CASE AppCalls
  <2>1. ASSUME NEW k \in Keys, AddRoute(k) PROVE SessionsOK'  BY <1>1, <2>1 DEF AddRoute
  <2>2. CASE HttpStart  BY <1>1, <2>2 DEF HttpStart
  <2>3. CASE HttpStop \/ StopContext  BY <1>1, <2>3 DEF HttpStop, StopContext
  <2>4. CASE HttpJoin  BY <2>4 DEF HttpJoin, Calling
  <2>5. CASE HttpDestroy
    <3>1. CASE UNCHANGED session  BY <1>1, <2>5, <3>1 DEF HttpDestroy
    <3>2. CASE session' = [c \in Connections |->
                              IF session[c] = "written" THEN "answered"
                              ELSE IF session[c] \in {"none", "answered"} THEN session[c]
                              ELSE "closed"]
      <4>1. \A c \in Connections : session'[c] \in {"answered", "none", "closed"}
            BY <3>2
      <4>2. Calling' = {}  BY <4>1 DEF Calling
      <4>3. session' \in [Connections -> SessionStates]  BY <3>2 DEF SessionStates
      <4>4. UNCHANGED answer  BY <2>5 DEF HttpDestroy
      <4> QED  BY <4>2, <4>3, <4>4
    <3> QED  BY <2>5, <3>1, <3>2 DEF HttpDestroy
  <2> QED  BY <1>2, <2>1, <2>2, <2>3, <2>4, <2>5 DEF AppCalls
<1>3. CASE AcceptFails  BY <1>1, <1>3 DEF AcceptFails
<1>4. CASE LeaveRun \/ HandlerThrows
      BY <1>1, <1>4 DEF LeaveRun, HandlerThrows, Calling
<1>5. ASSUME NEW c \in Connections, NEW state \in SessionStates \ {"calling"},
             Becomes(c, state), UNCHANGED ioThread_, answer' \in [Connections -> Nat]
      PROVE  SessionsOK'
  <2>1. session' \in [Connections -> SessionStates]  BY <1>5 DEF Becomes
  <2>2. Calling' \subseteq Calling  BY <1>5 DEF Becomes, Calling
  <2> QED  BY <1>5, <2>1, <2>2
<1>6. ASSUME NEW c \in Connections, ThreadStep(c) PROVE SessionsOK'
  <2>1. CASE HttpAccept(c)  BY <1>5, <2>1 DEF HttpAccept, SessionStates
  <2>2. CASE Lookup(c)
    <3>1. CASE Becomes(c, "calling") /\ UNCHANGED answer
      <4>1. Calling = {} /\ ioThread_ = "running" /\ UNCHANGED ioThread_
            BY <2>2 DEF Lookup, Polled
      <4>2. session' \in [Connections -> SessionStates]
            BY <3>1 DEF Becomes, SessionStates
      <4>3. Calling' \subseteq {c}  BY <3>1, <4>1 DEF Becomes, Calling
      <4> QED  BY <3>1, <4>1, <4>2, <4>3
    <3>2. CASE Becomes(c, "writing") /\ answer' = [answer EXCEPT ![c] = 0]
          BY <1>5, <2>2, <3>2 DEF Lookup, SessionStates
    <3> QED  BY <2>2, <3>1, <3>2 DEF Lookup
  <2>3. CASE CallHandler(c)
    <3>1. routes_[wanted[c]] \in Nat
          BY <2>3 DEF CallHandler, ExchangeInv, CallOK, RoutesOK
    <3>2. answer' \in [Connections -> Nat]  BY <2>3, <3>1 DEF CallHandler
    <3> QED  BY <1>5, <2>3, <3>2 DEF CallHandler, SessionStates
  <2>4. CASE RequestFails(c)  BY <1>5, <2>4 DEF RequestFails, SessionStates
  <2>5. CASE Finish(c)  BY <1>5, <2>5 DEF Finish, SessionStates
  <2> QED  BY <1>6, <2>1, <2>2, <2>3, <2>4, <2>5 DEF ThreadStep
<1>7. ASSUME NEW c \in Connections, SendResponse(c) PROVE SessionsOK'
      BY <1>5, <1>7 DEF SendResponse, Respond, SessionStates
<1>8. ASSUME NEW c \in Connections, Begin(c) \/ Call(c) \/ Fails(c) PROVE SessionsOK'
  <2>1. CASE Connect(c)  BY <1>5, <2>1 DEF Connect, SessionStates
  <2>2. CASE WriteRequest(c)  BY <1>1, <2>2 DEF WriteRequest
  <2>3. CASE Begin(c) \/ ReadResponse(c) \/ Shutdown(c) \/ Fails(c)
        BY <1>1, <2>3 DEF Begin, ReadResponse, Shutdown, Fails, httpVars
  <2> QED  BY <1>8, <2>1, <2>2, <2>3 DEF Call
<1>9. CASE UNCHANGED exchangeVars  BY <1>1, <1>9 DEF exchangeVars, httpVars
<1> QED  BY <1>2, <1>3, <1>4, <1>6, <1>7, <1>8, <1>9 DEF ExchangeNext, ServerStep

\* The calls.
LEMMA StagesTyped ==
    ASSUME ExchangeInv, StagesOK, [ExchangeNext]_exchangeVars
    PROVE  StagesOK'
<1> USE DEF StagesOK
<1>1. CASE UNCHANGED <<callVars, setting>>  BY <1>1 DEF callVars, setting
<1>2. ASSUME NEW c \in Connections, Begin(c) PROVE StagesOK'
  <2> DEFINE url == Parse(request[c].url)
  <2>1. AddedFor(KeyOf(c, url)) \in Nat  BY AddedIsNat DEF ExchangeInv
  <2>2. /\ seen' = [seen EXCEPT ![c] = AddedFor(KeyOf(c, url))]
        /\ parts' = [parts EXCEPT ![c] = url]
        /\ UNCHANGED <<port_, request>> /\ DOMAIN parts = Connections
        BY <1>2 DEF Begin, ExchangeInv, CallTypes
  <2> HIDE DEF url
  <2>3. seen' \in [Connections -> Nat]  BY <2>1, <2>2
  <2>4. CASE url = Invalid
    <3>1. stage' = [stage EXCEPT ![c] = "done"] /\ outcome' = [outcome EXCEPT ![c] = "error"]
          BY <1>2, <2>4 DEF Begin, Ends, Enters, url
    <3> QED  BY <2>2, <2>3, <3>1
  <2>5. CASE url # Invalid
    <3>1. stage' = [stage EXCEPT ![c] = "resolving"] /\ UNCHANGED outcome
          BY <1>2, <2>5 DEF Begin, Enters, url
    <3> QED  BY <2>2, <2>3, <2>5, <3>1
  <2> QED  BY <2>4, <2>5
<1>3. ASSUME NEW c \in Connections, Call(c) \/ Fails(c) PROVE StagesOK'
  <2>1. /\ stage[c] \notin {"idle", "done"} /\ UNCHANGED <<seen, setting>>
        /\ \E next \in {"handshaking", "writing", "reading", "closing", "done"} :
               stage' = [stage EXCEPT ![c] = next]
        /\ outcome' \in {outcome, [outcome EXCEPT ![c] = "answered"],
                         [outcome EXCEPT ![c] = "error"]}
        BY <1>3 DEF Call, Connect, WriteRequest, ReadResponse, Shutdown, Fails, Enters, Ends
  <2> QED  BY <2>1 DEF setting
<1>4. ASSUME NEW c \in Connections, SendResponse(c) \/ ThreadStep(c)
      PROVE  UNCHANGED <<callVars, setting>>
      BY <1>4 DEF SendResponse, ThreadStep
<1>5. ServerStep \/ UNCHANGED exchangeVars => UNCHANGED <<callVars, setting>>
      BY DEF ServerStep, exchangeVars
<1> QED  BY <1>1, <1>2, <1>3, <1>4, <1>5 DEF ExchangeNext

\* Every step of an exchange keeps the types.
LEMMA ExchangeTyped ==
    ExchangeInv /\ ExchangeInv' /\ ExchangeTypeOK /\ [ExchangeNext]_exchangeVars
        => ExchangeTypeOK'
<1> SUFFICES ASSUME ExchangeInv, ExchangeInv', ExchangeTypeOK, [ExchangeNext]_exchangeVars
             PROVE  ExchangeTypeOK'
    OBVIOUS
<1>1. ControlOK /\ SessionsOK /\ StagesOK  BY ExchangeTypes
<1>2. ControlOK' /\ SessionsOK' /\ StagesOK'
      BY <1>1, ControlTyped, SessionsTyped, StagesTyped
<1>3. {added', routes_'} \subseteq [Keys -> Nat]  BY DEF ExchangeInv, RoutesOK
<1>4. \A c \in Connections : wanted'[c] \in Keys \/ session'[c] # "calling"
      BY DEF ExchangeInv, CallOK
<1> QED  BY <1>2, <1>3, <1>4 DEF ExchangeTypeOK, HttpTypeOK, ControlOK, SessionsOK, StagesOK,
                                 SessionStates

\* An exchange begins with its types.
LEMMA ExchangeTypesStart == ExchangeInit => ExchangeTypeOK
<1> SUFFICES ASSUME ExchangeInit PROVE ExchangeTypeOK
    OBVIOUS
<1>1. ControlOK  BY DEF ExchangeInit, HttpInit, ControlOK
<1>2. SessionsOK  BY DEF ExchangeInit, HttpInit, SessionsOK, SessionStates, Calling
<1>3. StagesOK  BY DEF ExchangeInit, StagesOK
<1> QED  BY <1>1, <1>2, <1>3, ExchangeStarts, ExchangeTypes

\* For any connections, routes and requests: the server handles one request at a
\* time, in its I/O thread, so that none is in a handler when Stop() has returned
\* (HTTPS/Server.cpp:20-26); and every variable keeps its type.
THEOREM ExchangeTypesCorrect == ExchangeSpec => []ExchangeTypeOK
<1>1. ExchangeInv /\ ExchangeTypeOK /\ [ExchangeNext]_exchangeVars
      => ExchangeInv' /\ ExchangeTypeOK'
      BY ExchangeStep, ExchangeTyped
<1> QED  BY <1>1, ExchangeStarts, ExchangeTypesStart, PTL DEF ExchangeSpec

-------------------------------------------------------------------------------
(* The document stays a tree. An assignment takes away all that is below one  *)
(* node: the parent of a node that stays is not below it, nor are its         *)
(* siblings. An access adds children of one node, with every smaller index.   *)

Steps == JsonKeys \cup Nat
Kinds == Scalars \cup Containers \cup {"null"}

\* A path is strictly below another when it goes on where that one ends.
LEMMA StrictPrefix ==
    ASSUME NEW s \in Seq(Steps), NEW t \in Seq(Steps)
    PROVE  IsStrictPrefix(s, t) <=> Len(s) < Len(t) /\ \A i \in 1..Len(s) : s[i] = t[i]
<1>1. Len(s) \in Nat /\ Len(t) \in Nat  BY LenProperties
<1>2. ASSUME Len(s) <= Len(t)
      PROVE  SubSeq(s, 1, Len(s)) = SubSeq(t, 1, Len(s)) <=> \A i \in 1..Len(s) : s[i] = t[i]
  <2>1. SubSeq(s, 1, Len(s)) = s  BY SubSeqFull
  <2> DEFINE u == SubSeq(t, 1, Len(s))
  <2>2. \A i \in 1..Len(s) : t[i] \in Steps  BY <1>1, <1>2, ElementOfSeq
  <2>3. /\ u \in Seq(Steps) /\ Len(u) = IF 1 <= Len(s) THEN Len(s) - 1 + 1 ELSE 0
        /\ \A i \in 1..(Len(s) - 1 + 1) : u[i] = t[1 + i - 1]
        BY <1>1, <2>2, SubSeqProperties
  <2>4. Len(u) = Len(s) /\ \A i \in 1..Len(s) : u[i] = t[i]  BY <1>1, <2>3
  <2> HIDE DEF u
  <2>5. (\A i \in 1..Len(s) : s[i] = t[i]) => s = u  BY <2>3, <2>4, SeqEqual
  <2>6. s = u => \A i \in 1..Len(s) : s[i] = t[i]  BY <2>4
  <2> QED  BY <2>1, <2>5, <2>6 DEF u
<1>3. (Len(s) = Len(t) /\ \A i \in 1..Len(s) : s[i] = t[i]) => s = t  BY SeqEqual
<1>4. s = t => Len(s) = Len(t)  OBVIOUS
<1> QED  BY <1>1, <1>2, <1>3, <1>4 DEF IsStrictPrefix, IsPrefix

\* A path and its last step.
LEMMA ParentFacts ==
    ASSUME NEW p \in Seq(Steps), p # <<>>
    PROVE  /\ Front(p) \in Seq(Steps) /\ Len(Front(p)) = Len(p) - 1 /\ Len(p) >= 1
           /\ \A i \in 1..(Len(p) - 1) : Front(p)[i] = p[i]
           /\ Last(p) \in Steps
<1>1. Len(p) \in Nat /\ Len(p) >= 1  BY LenProperties, EmptySeq
<1>2. \A i \in 1..Len(p) : p[i] \in Steps  BY ElementOfSeq
<1>3. \A i \in 1..(Len(p) - 1) : p[i] \in Steps  BY <1>1, <1>2
<1>4. /\ SubSeq(p, 1, Len(p) - 1) \in Seq(Steps)
      /\ Len(SubSeq(p, 1, Len(p) - 1))
           = IF 1 <= Len(p) - 1 THEN Len(p) - 1 - 1 + 1 ELSE 0
      /\ \A i \in 1..(Len(p) - 1 - 1 + 1) : SubSeq(p, 1, Len(p) - 1)[i] = p[1 + i - 1]
      BY <1>1, <1>3, SubSeqProperties
<1>5. Last(p) \in Steps  BY <1>1, <1>2 DEF Last
<1>6. /\ Front(p) \in Seq(Steps) /\ Len(Front(p)) = Len(p) - 1
      /\ \A i \in 1..(Len(p) - 1) : Front(p)[i] = p[i]
  <2> DEFINE u == SubSeq(p, 1, Len(p) - 1)
  <2>0. /\ u \in Seq(Steps)
        /\ Len(u) = IF 1 <= Len(p) - 1 THEN Len(p) - 1 - 1 + 1 ELSE 0
        /\ \A i \in 1..(Len(p) - 1 - 1 + 1) : u[i] = p[1 + i - 1]
        BY <1>4
  <2> HIDE DEF u
  <2>1. u \in Seq(Steps) /\ Len(u) = Len(p) - 1
    <3>1. CASE Len(p) = 1  BY <2>0, <3>1
    <3>2. CASE Len(p) > 1
      <4>1. 1 <= Len(p) - 1 /\ Len(p) - 1 - 1 + 1 = Len(p) - 1  BY <1>1, <3>2
      <4>2. Len(u) = Len(p) - 1 - 1 + 1  BY <2>0, <4>1
      <4> QED  BY <2>0, <4>1, <4>2
    <3>3. \A n \in Nat : n >= 1 => n = 1 \/ n > 1  OBVIOUS
    <3>4. Len(p) = 1 \/ Len(p) > 1  BY <1>1, <3>3
    <3> QED  BY <3>1, <3>2, <3>4
  <2>2. \A i \in 1..(Len(p) - 1) : u[i] = p[i]  BY <1>1, <2>0
  <2>3. Front(p) = u  BY DEF Front, u
  <2> QED  BY <2>1, <2>2, <2>3
<1> QED  BY <1>1, <1>5, <1>6

\* A path that has been made longer by a step.
LEMMA ChildFacts ==
    ASSUME NEW q \in Seq(Steps), NEW x \in Steps
    PROVE  /\ Append(q, x) \in Seq(Steps) /\ Append(q, x) # <<>>
           /\ Len(Append(q, x)) = Len(q) + 1 /\ Len(q) \in Nat
           /\ \A i \in 1..Len(q) : Append(q, x)[i] = q[i]
           /\ Front(Append(q, x)) = q /\ Last(Append(q, x)) = x
<1> DEFINE p == Append(q, x)
<1>1. /\ p \in Seq(Steps) /\ Len(p) = Len(q) + 1 /\ Len(q) \in Nat
      /\ \A i \in 1..Len(q) : p[i] = q[i]
      /\ p[Len(q) + 1] = x
      BY AppendProperties, LenProperties
<1> HIDE DEF p
<1>2. p # <<>>  BY <1>1
<1>3. Front(p) = q
  <2>1. /\ Front(p) \in Seq(Steps) /\ Len(Front(p)) = Len(p) - 1
        /\ \A i \in 1..(Len(p) - 1) : Front(p)[i] = p[i]
        BY <1>1, <1>2, ParentFacts
  <2>2. Len(Front(p)) = Len(q) /\ \A i \in 1..Len(Front(p)) : Front(p)[i] = q[i]
        BY <1>1, <2>1
  <2> QED  BY <2>1, <2>2, SeqEqual
<1>4. Last(p) = x  BY <1>1 DEF Last
<1> QED  BY <1>1, <1>2, <1>3, <1>4 DEF p

\* A node that is not below r has a parent that is neither r nor below it, and
\* no sibling of it is below r.
LEMMA NotBelow ==
    ASSUME NEW doc, IsDocument(doc), NEW r \in DOMAIN doc,
           NEW p \in DOMAIN doc \ {Root}, p \notin Below(doc, r)
    PROVE  /\ Front(p) \in DOMAIN doc /\ Front(p) # r /\ Front(p) \notin Below(doc, r)
           /\ \A x \in Steps : Append(Front(p), x) \notin Below(doc, r)
<1> DEFINE q == Front(p)
<1>1. DOMAIN doc \subseteq Seq(Steps)  BY DEF IsDocument, Steps
<1>2. q \in DOMAIN doc /\ p # <<>> /\ r \in Seq(Steps) /\ p \in Seq(Steps)
      BY <1>1 DEF IsDocument, Root
<1>3. /\ q \in Seq(Steps) /\ Len(q) = Len(p) - 1 /\ Len(p) >= 1
      /\ \A i \in 1..(Len(p) - 1) : q[i] = p[i]
      BY <1>2, ParentFacts
<1>4. Len(p) \in Nat /\ Len(r) \in Nat /\ Len(q) \in Nat  BY <1>2, <1>3, LenProperties
<1>5. ~(Len(r) < Len(p) /\ \A i \in 1..Len(r) : r[i] = p[i])
      BY <1>2, StrictPrefix DEF Below
<1> HIDE DEF q
<1>6. ~(Len(r) <= Len(q) /\ \A i \in 1..Len(r) : r[i] = q[i])
  <2> SUFFICES ASSUME Len(r) <= Len(q), \A i \in 1..Len(r) : r[i] = q[i] PROVE FALSE
      OBVIOUS
  <2>1. Len(r) < Len(p)  BY <1>3, <1>4
  <2>2. \A i \in 1..Len(r) : i \in 1..(Len(p) - 1)  BY <1>3, <1>4
  <2>3. \A i \in 1..Len(r) : r[i] = p[i]  BY <1>3, <2>2
  <2> QED  BY <1>5, <2>1, <2>3
<1>7. q # r  BY <1>4, <1>6
<1>8. q \notin Below(doc, r)
  <2>1. ASSUME q \in Below(doc, r) PROVE FALSE
    <3>1. IsStrictPrefix(r, q)  BY <2>1 DEF Below
    <3>2. Len(r) < Len(q) /\ \A i \in 1..Len(r) : r[i] = q[i]
          BY <1>2, <1>3, <3>1, StrictPrefix
    <3> QED  BY <1>4, <1>6, <3>2
  <2> QED  BY <2>1
<1>9. ASSUME NEW x \in Steps, Append(q, x) \in Below(doc, r) PROVE FALSE
  <2>1. /\ Append(q, x) \in Seq(Steps) /\ Len(Append(q, x)) = Len(q) + 1
        /\ \A i \in 1..Len(q) : Append(q, x)[i] = q[i]
        BY <1>3, ChildFacts
  <2>2. IsStrictPrefix(r, Append(q, x))  BY <1>9 DEF Below
  <2>3. Len(r) < Len(Append(q, x)) /\ \A i \in 1..Len(r) : r[i] = Append(q, x)[i]
        BY <1>2, <2>1, <2>2, StrictPrefix
  <2>4. Len(r) <= Len(q)  BY <1>4, <2>1, <2>3
  <2>5. \A i \in 1..Len(r) : i \in 1..Len(q)  BY <1>4, <2>4
  <2>6. \A i \in 1..Len(r) : r[i] = q[i]  BY <2>1, <2>3, <2>5
  <2> QED  BY <1>6, <2>4, <2>6
<1> QED  BY <1>2, <1>7, <1>8, <1>9 DEF q

\* An assignment to a node.
LEMMA AssignedDocument ==
    ASSUME NEW doc, IsDocument(doc), NEW r \in DOMAIN doc, NEW value \in Kinds
    PROVE  LET after == Assigned(doc, r, value)
           IN /\ IsDocument(after)
              /\ DOMAIN after = DOMAIN doc \ Below(doc, r)
              /\ r \in DOMAIN after /\ after[r] = value
<1> DEFINE after == Assigned(doc, r, value)
<1>1. /\ DOMAIN after = DOMAIN doc \ Below(doc, r)
      /\ \A p \in DOMAIN after : after[p] = IF p = r THEN value ELSE doc[p]
      BY DEF Assigned
<1>2. after = [p \in DOMAIN after |-> after[p]]  BY DEF Assigned
<1> HIDE DEF after
<1>3. /\ DOMAIN doc \subseteq Seq(Steps) /\ Root \in DOMAIN doc
      /\ doc \in [DOMAIN doc -> Kinds]
      BY DEF IsDocument, Steps, Kinds
<1>4. r \notin Below(doc, r) /\ Root \notin Below(doc, r)
  <2>1. r \in Seq(Steps) /\ Root \in Seq(Steps) /\ Len(r) \in Nat /\ Len(Root) = 0
        BY <1>3, LenProperties DEF Root
  <2>2. ~IsStrictPrefix(r, r)  BY <2>1, StrictPrefix
  <2>3. ~IsStrictPrefix(r, Root)
    <3>1. ~(Len(r) < Len(Root))  BY <2>1
    <3>2. IsStrictPrefix(r, Root) => Len(r) < Len(Root)  BY <2>1, StrictPrefix
    <3> QED  BY <3>1, <3>2
  <2> QED  BY <2>2, <2>3 DEF Below
<1>5. after \in [DOMAIN after -> Kinds]
  <2>1. \A p \in DOMAIN after : after[p] \in Kinds  BY <1>1, <1>3
  <2> QED  BY <1>2, <2>1
<1>6. ASSUME NEW p \in DOMAIN after \ {Root}
      PROVE  /\ Front(p) \in DOMAIN after
             /\ \/ Last(p) \in JsonKeys /\ after[Front(p)] = "object"
                \/ /\ Last(p) \in Nat /\ after[Front(p)] = "array"
                   /\ \A i \in 0..Last(p) : Append(Front(p), i) \in DOMAIN after
  <2>1. p \in DOMAIN doc \ {Root} /\ p \notin Below(doc, r)  BY <1>1
  <2>2. /\ Front(p) \in DOMAIN doc /\ Front(p) # r /\ Front(p) \notin Below(doc, r)
        /\ \A x \in Steps : Append(Front(p), x) \notin Below(doc, r)
        BY <2>1, NotBelow
  <2>3. Front(p) \in DOMAIN after /\ after[Front(p)] = doc[Front(p)]  BY <1>1, <2>2
  <2>4. \/ Last(p) \in JsonKeys /\ doc[Front(p)] = "object"
        \/ /\ Last(p) \in Nat /\ doc[Front(p)] = "array"
           /\ \A i \in 0..Last(p) : Append(Front(p), i) \in DOMAIN doc
        BY <2>1 DEF IsDocument
  <2>5. CASE Last(p) \in JsonKeys /\ doc[Front(p)] = "object"  BY <2>3, <2>5
  <2>6. CASE /\ Last(p) \in Nat /\ doc[Front(p)] = "array"
             /\ \A i \in 0..Last(p) : Append(Front(p), i) \in DOMAIN doc
    <3>1. \A i \in 0..Last(p) : i \in Steps  BY <2>6 DEF Steps
    <3>2. \A i \in 0..Last(p) : Append(Front(p), i) \in DOMAIN after
          BY <1>1, <2>2, <2>6, <3>1
    <3> QED  BY <2>3, <2>6, <3>2
  <2> QED  BY <2>4, <2>5, <2>6
<1>7. IsDocument(after)
  <2>1. DOMAIN after \subseteq Seq(JsonKeys \cup Nat)  BY <1>1, <1>3 DEF Steps
  <2>2. after \in [DOMAIN after -> Scalars \cup Containers \cup {"null"}]  BY <1>5 DEF Kinds
  <2>3. Root \in DOMAIN after  BY <1>1, <1>3, <1>4
  <2> QED  BY <1>6, <2>1, <2>2, <2>3 DEF IsDocument
<1> QED  BY <1>1, <1>4, <1>7 DEF after

\* Children of a node, null at first, that come with every smaller index.
LEMMA ChildrenDocument ==
    ASSUME NEW doc, IsDocument(doc), NEW r \in DOMAIN doc, NEW new,
           \A p \in new : \E x \in Steps :
               /\ p = Append(r, x)
               /\ \/ x \in JsonKeys /\ doc[r] = "object"
                  \/ /\ x \in Nat /\ doc[r] = "array"
                     /\ \A i \in 0..x : Append(r, i) \in DOMAIN doc \cup new
    PROVE  LET after == WithNulls(doc, new)
           IN IsDocument(after) /\ DOMAIN after = DOMAIN doc \cup new
<1> DEFINE after == WithNulls(doc, new)
<1>1. /\ DOMAIN after = DOMAIN doc \cup new
      /\ \A p \in DOMAIN after : after[p] = IF p \in DOMAIN doc THEN doc[p] ELSE "null"
      BY DEF WithNulls
<1>2. after = [p \in DOMAIN after |-> after[p]]  BY DEF WithNulls
<1> HIDE DEF after
<1>3. /\ DOMAIN doc \subseteq Seq(Steps) /\ Root \in DOMAIN doc
      /\ doc \in [DOMAIN doc -> Kinds]
      BY DEF IsDocument, Steps, Kinds
<1>4. r \in Seq(Steps)  BY <1>3
<1>5. \A p \in new : p \in Seq(Steps)  BY <1>4, ChildFacts
<1>6. ASSUME NEW p \in DOMAIN after \ {Root}
      PROVE  /\ Front(p) \in DOMAIN after
             /\ \/ Last(p) \in JsonKeys /\ after[Front(p)] = "object"
                \/ /\ Last(p) \in Nat /\ after[Front(p)] = "array"
                   /\ \A i \in 0..Last(p) : Append(Front(p), i) \in DOMAIN after
  <2>1. CASE p \in DOMAIN doc
    <3>1. /\ Front(p) \in DOMAIN doc
          /\ \/ Last(p) \in JsonKeys /\ doc[Front(p)] = "object"
             \/ /\ Last(p) \in Nat /\ doc[Front(p)] = "array"
                /\ \A i \in 0..Last(p) : Append(Front(p), i) \in DOMAIN doc
          BY <2>1 DEF IsDocument
    <3>2. Front(p) \in DOMAIN after /\ after[Front(p)] = doc[Front(p)]  BY <1>1, <3>1
    <3> QED  BY <1>1, <3>1, <3>2
  <2>2. CASE p \in new
    <3>1. PICK x \in Steps :
               /\ p = Append(r, x)
               /\ \/ x \in JsonKeys /\ doc[r] = "object"
                  \/ /\ x \in Nat /\ doc[r] = "array"
                     /\ \A i \in 0..x : Append(r, i) \in DOMAIN doc \cup new
          BY <2>2
    <3>2. Front(p) = r /\ Last(p) = x  BY <1>4, <3>1, ChildFacts
    <3>3. r \in DOMAIN after /\ after[r] = doc[r]  BY <1>1
    <3> QED  BY <1>1, <3>1, <3>2, <3>3
  <2> QED  BY <1>1, <2>1, <2>2
<1>7. IsDocument(after)
  <2>1. DOMAIN after \subseteq Seq(JsonKeys \cup Nat)  BY <1>1, <1>3, <1>5 DEF Steps
  <2>2. \A p \in DOMAIN after : after[p] \in Kinds  BY <1>1, <1>3 DEF Kinds
  <2>3. after \in [DOMAIN after -> Scalars \cup Containers \cup {"null"}]
        BY <1>2, <2>2 DEF Kinds
  <2>4. Root \in DOMAIN after  BY <1>1, <1>3
  <2> QED  BY <1>6, <2>1, <2>3, <2>4 DEF IsDocument
<1> QED  BY <1>1, <1>7 DEF after

\* What a receiver is made into before one of its children is asked for.
LEMMA MadeDocument ==
    ASSUME NEW doc, IsDocument(doc), NEW r \in DOMAIN doc, NEW kind \in Containers
    PROVE  LET made == Made(doc, r, kind)
           IN IsDocument(made) /\ r \in DOMAIN made /\ made[r] = kind
<1>1. kind \in Kinds  BY DEF Kinds
<1>2. CASE doc[r] = kind  BY <1>2 DEF Made
<1>3. CASE doc[r] # kind  BY <1>1, <1>3, AssignedDocument DEF Made
<1> QED  BY <1>2, <1>3

\* Accesses, assignments and savings keep the tree, and views its nodes.
LEMMA JsonTyped == JsonTypeOK /\ [JsonNext]_jsonVars => JsonTypeOK'
<1> SUFFICES ASSUME JsonTypeOK, [JsonNext]_jsonVars PROVE JsonTypeOK'
    OBVIOUS
<1> USE DEF JsonTypeOK
<1>1. Root \in DOMAIN json_ /\ DOMAIN json_ \subseteq Seq(Steps)
      BY DEF IsDocument, Steps
<1>2. ASSUME NEW r \in DOMAIN json_, NEW key \in JsonKeys, AtKey(r, key)
      PROVE  JsonTypeOK'
  <2> DEFINE object == Made(json_, r, "object")  new == {Append(r, key)}
  <2>1. IsDocument(object) /\ r \in DOMAIN object /\ object[r] = "object"
        BY MadeDocument DEF Containers
  <2>2. json_' = WithNulls(object, new)  BY <1>2 DEF AtKey
  <2>3. views' = (views \cap DOMAIN object) \cup new /\ UNCHANGED file
        BY <1>2 DEF AtKey, Returns
  <2> HIDE DEF object
  <2>4. IsDocument(json_') /\ DOMAIN json_' = DOMAIN object \cup new
    <3>1. \A p \in new : \E x \in Steps :
               /\ p = Append(r, x)
               /\ \/ x \in JsonKeys /\ object[r] = "object"
                  \/ /\ x \in Nat /\ object[r] = "array"
                     /\ \A i \in 0..x : Append(r, i) \in DOMAIN object \cup new
          BY <2>1 DEF Steps
    <3> HIDE DEF new
    <3> QED  BY <2>1, <2>2, <3>1, ChildrenDocument
  <2> QED  BY <2>3, <2>4
<1>3. ASSUME NEW r \in DOMAIN json_, NEW index \in Nat, AtIndex(r, index)
      PROVE  JsonTypeOK'
  <2> DEFINE array == Made(json_, r, "array")  filled == {Append(r, i) : i \in 0..index}
  <2>1. IsDocument(array) /\ r \in DOMAIN array /\ array[r] = "array"
        BY MadeDocument DEF Containers
  <2>2. json_' = WithNulls(array, filled)  BY <1>3 DEF AtIndex
  <2>3. views' \subseteq (views \cap DOMAIN array) \cup {Append(r, index)} /\ UNCHANGED file
        BY <1>3 DEF AtIndex, Returns
  <2> HIDE DEF array
  <2>4. IsDocument(json_') /\ DOMAIN json_' = DOMAIN array \cup filled
    <3>1. ASSUME NEW p \in filled
          PROVE  \E x \in Steps :
               /\ p = Append(r, x)
               /\ \/ x \in JsonKeys /\ array[r] = "object"
                  \/ /\ x \in Nat /\ array[r] = "array"
                     /\ \A i \in 0..x : Append(r, i) \in DOMAIN array \cup filled
      <4>1. PICK x \in 0..index : p = Append(r, x)  BY <3>1
      <4>2. x \in Nat /\ x \in Steps /\ \A i \in 0..x : i \in 0..index  BY <4>1 DEF Steps
      <4>3. \A i \in 0..x : Append(r, i) \in filled  BY <4>2
      <4> QED  BY <2>1, <4>1, <4>2, <4>3
    <3> HIDE DEF filled
    <3> QED  BY <2>1, <2>2, <3>1, ChildrenDocument
  <2>5. Append(r, index) \in filled  OBVIOUS
  <2> HIDE DEF filled
  <2> QED  BY <2>3, <2>4, <2>5
<1>4. ASSUME NEW r \in DOMAIN json_, NEW value \in Scalars \cup {"null"}, Set(r, value)
      PROVE  JsonTypeOK'
  <2>1. value \in Kinds  BY DEF Kinds
  <2>2. IsDocument(Assigned(json_, r, value))  BY <2>1, AssignedDocument
  <2> QED  BY <1>4, <2>2 DEF Set
<1>5. ASSUME NEW r, Forget(r) \/ SaveToFile(r) PROVE JsonTypeOK'
      BY <1>5 DEF Forget, SaveToFile
<1>6. CASE UNCHANGED jsonVars  BY <1>6 DEF jsonVars
<1>7. ASSUME JsonNext PROVE JsonTypeOK'
  <2>1. PICK r \in Receivers :
            \/ \E key \in JsonKeys : AtKey(r, key) \/ ConstAtKey(r, key)
            \/ \E index \in 0..MaxIndex : AtIndex(r, index) \/ ConstAtIndex(r, index)
            \/ \E value \in Scalars \cup {"null"} : Set(r, value)
            \/ Forget(r) \/ SaveToFile(r)
        BY <1>7 DEF JsonNext
  <2>2. r \in DOMAIN json_  BY <1>1 DEF Receivers
  <2>3. ASSUME NEW key \in JsonKeys, AtKey(r, key) \/ ConstAtKey(r, key) PROVE JsonTypeOK'
        BY <1>2, <2>2, <2>3 DEF ConstAtKey
  <2>4. ASSUME NEW index \in 0..MaxIndex, AtIndex(r, index) \/ ConstAtIndex(r, index)
        PROVE  JsonTypeOK'
        BY <1>3, <2>2, <2>4 DEF ConstAtIndex
  <2>5. ASSUME NEW value \in Scalars \cup {"null"}, Set(r, value) PROVE JsonTypeOK'
        BY <1>4, <2>2, <2>5
  <2> QED  BY <1>5, <2>1, <2>3, <2>4, <2>5
<1> QED  BY <1>6, <1>7

\* What is read is a tree.
LEMMA JsonTypesStart == JsonInit => JsonTypeOK
<1> SUFFICES ASSUME JsonInit PROVE JsonTypeOK
    OBVIOUS
<1>1. IsDocument(NullDocument)
  <2>1. DOMAIN NullDocument = {Root} /\ NullDocument[Root] = "null"  BY DEF NullDocument
  <2>2. Root \in Seq(JsonKeys \cup Nat)  BY DEF Root
  <2>3. NullDocument \in [DOMAIN NullDocument -> Scalars \cup Containers \cup {"null"}]
        BY <2>1 DEF NullDocument
  <2> QED  BY <2>1, <2>2, <2>3 DEF IsDocument
<1> QED  BY <1>1, TextsAssumption DEF JsonInit, JsonTypeOK

\* For any texts, keys and indices, however accesses and assignments through the
\* views of a document alternate: it stays a tree in which an array has no gaps
\* (JSON.hpp:74-113), and every view in use points at a node of it.
THEOREM DocumentStaysTree == JsonSpec => []JsonTypeOK
<1> QED  BY JsonTypesStart, JsonTyped, PTL DEF JsonSpec

-------------------------------------------------------------------------------
(* The table. *)

\* The rows that are picked from a table are rows of the table: the recursive
\* definition is satisfied by a function (built up to the least number for which
\* there would be none), which has its values among the sequences of rows (up to
\* the least number at which it would not).
LEMMA PickedRows ==
    ASSUME NEW T, NEW table \in Seq(T), NEW numbers
    PROVE  Picked(table, numbers) \in Seq(T)
<1> DEFINE L == Len(table)
           Next1(n, before) == IF n \in numbers THEN Append(before, table[n]) ELSE before
           Up(f, n) == /\ f \in [0..n -> Seq(T)] /\ f[0] = <<>>
                       /\ \A i \in 1..n : f[i] = Next1(i, f[i - 1])
           Missing == {n \in 0..L : ~\E f : Up(f, n)}
<1>1. L \in Nat /\ \A i \in 1..L : table[i] \in T  BY LenProperties, ElementOfSeq
<1>2. ASSUME NEW n \in 1..L, NEW before \in Seq(T) PROVE Next1(n, before) \in Seq(T)
      BY <1>1, AppendProperties
<1> HIDE DEF Next1, L
<1>3. Missing = {}
  <2> SUFFICES ASSUME Missing # {} PROVE FALSE
      OBVIOUS
  <2>1. Missing \subseteq Nat  BY <1>1
  <2>2. PICK m \in Missing : \A k \in Missing : m <= k  BY <2>1, LeastMember
  <2>3. m \in 0..L /\ ~\E f : Up(f, m)  OBVIOUS
  <2>4. CASE m = 0
    <3> DEFINE f == [i \in 0..0 |-> <<>>]
    <3>1. Up(f, 0)  BY EmptySeq
    <3> QED  BY <2>3, <2>4, <3>1
  <2>5. CASE m # 0
    <3>1. m - 1 \in 0..L /\ m \in 1..L /\ m \in Nat /\ m - 1 \in Nat /\ ~(m <= m - 1)
          BY <1>1, <2>3, <2>5
    <3>2. PICK g : Up(g, m - 1)  BY <2>2, <3>1
    <3> DEFINE f == [i \in 0..m |-> IF i = m THEN Next1(m, g[m - 1]) ELSE g[i]]
    <3>3. g[m - 1] \in Seq(T)  BY <3>1, <3>2
    <3>4. Next1(m, g[m - 1]) \in Seq(T)  BY <1>2, <3>1, <3>3
    <3>5. \A i \in 0..m : i # m => i \in 0..(m - 1)  BY <3>1
    <3>6. f \in [0..m -> Seq(T)]  BY <3>2, <3>4, <3>5
    <3>7. f[0] = <<>>  BY <3>1, <3>2
    <3>8. ASSUME NEW i \in 1..m PROVE f[i] = Next1(i, f[i - 1])
      <4>1. i - 1 \in 0..m /\ i \in 0..m /\ i - 1 # m  BY <3>1
      <4>2. f[i - 1] = g[i - 1]  BY <4>1
      <4>3. CASE i = m  BY <4>1, <4>2, <4>3
      <4>4. CASE i # m
        <5>1. i \in 1..(m - 1)  BY <3>1, <4>4
        <5>2. f[i] = g[i]  BY <4>1, <4>4
        <5> QED  BY <3>2, <4>2, <5>1, <5>2
      <4> QED  BY <4>3, <4>4
    <3>9. Up(f, m)  BY <3>6, <3>7, <3>8
    <3> QED  BY <2>3, <3>9
  <2> QED  BY <2>4, <2>5
<1>4. PICK f : Up(f, L)
  <2>1. L \in 0..L  BY <1>1
  <2> QED  BY <1>3, <2>1
<1> DEFINE Satisfies(p) == p = [n \in 0..L |-> IF n = 0 THEN <<>> ELSE Next1(n, p[n - 1])]
<1>5. Satisfies(f)
  <2>1. \A n \in 0..L : n = 0 \/ n \in 1..L  BY <1>1
  <2>2. \A n \in 0..L : f[n] = IF n = 0 THEN <<>> ELSE Next1(n, f[n - 1])  BY <1>4, <2>1
  <2>3. f = [n \in 0..L |-> f[n]]  BY <1>4
  <2> QED  BY <2>2, <2>3
<1> DEFINE picked == CHOOSE p : Satisfies(p)
<1>6. Satisfies(picked)
  <2> HIDE DEF Satisfies
  <2> QED  BY <1>5
<1>7. Picked(table, numbers) = picked[L]  BY DEF Picked, Next1, L
<1> HIDE DEF picked, Up, Missing
<1>8. \A n \in 0..L : picked[n] \in Seq(T)
  <2> DEFINE Bad == {n \in 0..L : picked[n] \notin Seq(T)}
  <2> SUFFICES ASSUME Bad # {} PROVE FALSE
      OBVIOUS
  <2>1. Bad \subseteq Nat  BY <1>1
  <2>2. PICK m \in Bad : \A k \in Bad : m <= k  BY <2>1, LeastMember
  <2>3. m \in 0..L /\ picked[m] \notin Seq(T)  OBVIOUS
  <2>4. picked[m] = IF m = 0 THEN <<>> ELSE Next1(m, picked[m - 1])  BY <1>6, <2>3
  <2>5. m # 0  BY <2>3, <2>4, EmptySeq
  <2>6. m - 1 \in 0..L /\ m \in 1..L /\ ~(m <= m - 1)  BY <1>1, <2>3, <2>5
  <2>7. picked[m - 1] \in Seq(T)  BY <2>2, <2>6
  <2> QED  BY <1>2, <2>3, <2>4, <2>5, <2>6, <2>7
<1>9. L \in 0..L  BY <1>1
<1> QED  BY <1>7, <1>8, <1>9

RowsOf(columns) == [columns -> Values \cup {NULL}]

TableOK == /\ columns_ \subseteq Columns
           /\ rows \in Seq(RowsOf(columns_))
           /\ columns_ = {} => rows = <<>>
QueriesOK == /\ abandoned \subseteq Wrappers
             /\ call \in [Wrappers -> {"none", "query", "write"}]
             /\ asked \in [Wrappers -> [all : BOOLEAN, select : SUBSET Columns,
                                        where : Conditions \cup {{}}]]

\* What the statements leave of the table.
LEMMA TableTyped == ASSUME NEW w, TableOK, Change(w) PROVE TableOK'
<1> USE DEF TableOK
<1>1. ASSUME NEW columns \in SUBSET Columns \ {{}}, CreateTable(columns) PROVE TableOK'
  <2>1. CASE columns_ = {}
    <3>1. columns_' = columns /\ rows' = <<>>  BY <1>1, <2>1 DEF CreateTable
    <3> QED  BY <3>1, EmptySeq
  <2>2. CASE columns_ # {}  BY <1>1, <2>2 DEF CreateTable, dataVars
  <2> QED  BY <2>1, <2>2
<1>2. CASE DeleteTable(w)  BY <1>2, EmptySeq DEF DeleteTable
<1>3. ASSUME NEW data \in Data PROVE \A c \in DOMAIN data : data[c] \in Values
      BY DEF Data
<1>4. ASSUME NEW data \in Data, InsertData(data) PROVE TableOK'
  <2>1. UNCHANGED columns_ /\ columns_ # {} /\ rows' = Append(rows, NewRow(data))
        BY <1>4 DEF InsertData, Known
  <2>2. NewRow(data) \in RowsOf(columns_)  BY <1>3, <1>4 DEF NewRow, RowsOf
  <2>3. rows' \in Seq(RowsOf(columns_))  BY <2>1, <2>2, AppendProperties
  <2> QED  BY <2>1, <2>3
<1>5. ASSUME NEW data \in Data, NEW where \in Conditions, UpdateData(data, where)
      PROVE  TableOK'
  <2> DEFINE Changed(i) == IF Matches(rows[i], where)
                           THEN [c \in columns_ |-> IF c \in DOMAIN data THEN data[c]
                                                    ELSE rows[i][c]]
                           ELSE rows[i]
  <2>1. UNCHANGED columns_ /\ columns_ # {} /\ rows' = [i \in DOMAIN rows |-> Changed(i)]
        BY <1>5 DEF UpdateData, Known
  <2>2. DOMAIN rows = 1..Len(rows) /\ Len(rows) \in Nat
        /\ \A i \in 1..Len(rows) : rows[i] \in RowsOf(columns_)
        BY LenProperties, ElementOfSeq
  <2>3. ASSUME NEW i \in DOMAIN rows PROVE Changed(i) \in RowsOf(columns_)
    <3>1. rows[i] \in RowsOf(columns_)  BY <2>2
    <3>2. \A c \in columns_ : rows[i][c] \in Values \cup {NULL}  BY <3>1 DEF RowsOf
    <3>3. [c \in columns_ |-> IF c \in DOMAIN data THEN data[c] ELSE rows[i][c]]
            \in RowsOf(columns_)
          BY <1>3, <3>2 DEF RowsOf
    <3> QED  BY <3>1, <3>3
  <2> HIDE DEF Changed
  <2>4. rows' \in Seq(RowsOf(columns_))  BY <2>1, <2>2, <2>3, IsASeq
  <2> QED  BY <2>1, <2>4
<1>6. ASSUME NEW where \in Conditions, DeleteData(where) PROVE TableOK'
  <2>1. /\ UNCHANGED columns_ /\ columns_ # {}
        /\ rows' = Picked(rows, {n \in DOMAIN rows : ~Matches(rows[n], where)})
        BY <1>6 DEF DeleteData, Known, WhereNot
  <2>2. rows' \in Seq(RowsOf(columns_))  BY <2>1, PickedRows
  <2> QED  BY <2>1, <2>2
<1> QED  BY <1>1, <1>2, <1>4, <1>5, <1>6 DEF Change

\* The types in three parts.
LEMMA DatabaseTypes == DatabaseTypeOK <=> TableOK /\ QueriesOK /\ LocksInCalls
BY DEF DatabaseTypeOK, TableOK, QueriesOK, RowsOf

\* Every statement, and each step of a query, keeps the types.
LEMMA DatabaseTyped ==
    DatabaseInv /\ DatabaseInv' /\ DatabaseTypeOK /\ [DatabaseNext]_databaseVars
        => DatabaseTypeOK'
<1> SUFFICES ASSUME DatabaseInv, DatabaseInv', DatabaseTypeOK, [DatabaseNext]_databaseVars
             PROVE  DatabaseTypeOK'
    OBVIOUS
<1>1. TableOK /\ QueriesOK /\ LocksInCalls'  BY DatabaseTypes DEF DatabaseInv
<1>2. TableOK'
  <2>1. CASE UNCHANGED dataVars  BY <1>1, <2>1 DEF TableOK, dataVars
  <2>2. ASSUME NEW w \in Wrappers, Change(w) PROVE TableOK'  BY <1>1, <2>2, TableTyped
  <2>3. UNCHANGED dataVars \/ \E w \in Wrappers : Change(w)
        BY DEF DatabaseNext, Execute, Committed, RowComes, StepRow, StepThrows, StepEnds,
               Prepare, databaseVars
  <2> QED  BY <2>1, <2>2, <2>3
<1>3. QueriesOK'
  <2> USE DEF QueriesOK
  <2>1. ASSUME NEW w \in Wrappers, NEW what \in {"none", "query", "write"}, Calls(w, what)
        PROVE  call' \in [Wrappers -> {"none", "query", "write"}]
        BY <1>1, <2>1 DEF Calls
  <2>2. ASSUME NEW w \in Wrappers, Execute(w) \/ Committed(w) PROVE QueriesOK'
        BY <1>1, <2>1, <2>2 DEF Execute, Committed, queryVars
  <2>3. ASSUME NEW w \in Wrappers, StepRow(w) PROVE QueriesOK'  BY <1>1, <2>3 DEF StepRow
  <2>4. ASSUME NEW w \in Wrappers, StepThrows(w) \/ StepEnds(w) PROVE QueriesOK'
    <3>1. NoQuery \in [all : BOOLEAN, select : SUBSET Columns, where : Conditions \cup {{}}]
          BY DEF NoQuery
    <3>2. asked' = [asked EXCEPT ![w] = NoQuery] /\ Calls(w, "none")
          BY <2>4 DEF StepThrows, StepEnds, EndQuery
    <3>3. abandoned' \subseteq abandoned \cup {w}  BY <2>4 DEF StepThrows, StepEnds
    <3> HIDE DEF NoQuery
    <3> QED  BY <1>1, <2>1, <3>1, <3>2, <3>3
  <2>5. ASSUME NEW w \in Wrappers, NEW all \in BOOLEAN, NEW select \in SUBSET Columns,
               NEW where \in Conditions,
               Prepare(w, [all |-> all, select |-> select, where |-> where])
        PROVE  QueriesOK'
    <3> DEFINE query == [all |-> all, select |-> select, where |-> where]
    <3>1. query \in [all : BOOLEAN, select : SUBSET Columns, where : Conditions \cup {{}}]
          OBVIOUS
    <3>2. asked' = [asked EXCEPT ![w] = query] /\ Calls(w, "query") /\ UNCHANGED abandoned
          BY <2>5 DEF Prepare
    <3> HIDE DEF query
    <3> QED  BY <1>1, <2>1, <3>1, <3>2
  <2>6. CASE UNCHANGED databaseVars  BY <1>1, <2>6 DEF databaseVars, queryVars
  <2> QED  BY <2>2, <2>3, <2>4, <2>5, <2>6 DEF DatabaseNext
<1>4. DatabaseTypeOK' <=> TableOK' /\ QueriesOK' /\ LocksInCalls'
      BY DEF DatabaseTypeOK, TableOK, QueriesOK, RowsOf
<1> QED  BY <1>1, <1>2, <1>3, <1>4

\* No table yet.
LEMMA DatabaseTypesStart == DatabaseInit => DatabaseTypeOK
BY EmptySeq DEF DatabaseInit, DatabaseTypeOK, NoQuery, LocksInCalls

\* For any wrappers, columns and conditions: whatever is created, dropped, changed
\* and asked, every row of the table has the columns of the table, a table that is
\* gone has no rows (Model.cpp:5-40, SQLiteWrapper.cpp:22-42), and a lock is held
\* inside a call or by an abandoned statement.
THEOREM TableStaysTyped == DatabaseSpec => []DatabaseTypeOK
<1>1. DatabaseInv /\ DatabaseTypeOK /\ [DatabaseNext]_databaseVars
      => DatabaseInv' /\ DatabaseTypeOK'
      BY DatabaseKept, DatabaseTyped
<1> QED  BY <1>1, DatabaseStarts, DatabaseTypesStart, PTL DEF DatabaseSpec

\* The first n of n columns are all of them.
LEMMA LeadingAll ==
    ASSUME NEW columns, columns \subseteq Columns
    PROVE  Leading(columns, Cardinality(columns)) = columns
<1>1. IsFiniteSet(columns)  BY DatabaseAssumption, FS_Subset
<1>2. ASSUME NEW c \in columns
      PROVE  Cardinality({d \in columns : d < c}) < Cardinality(columns)
  <2> DEFINE before == {d \in columns : d < c}
  <2>1. c \in Nat  BY DatabaseAssumption
  <2>2. before \subseteq columns /\ before # columns  BY <2>1
  <2>3. IsFiniteSet(before) /\ Cardinality(before) <= Cardinality(columns)
        /\ Cardinality(before) # Cardinality(columns)
        BY <1>1, <2>2, FS_Subset
  <2>4. Cardinality(before) \in Nat /\ Cardinality(columns) \in Nat
        BY <1>1, <2>3, FS_CardinalityType
  <2> QED  BY <2>3, <2>4
<1> QED  BY <1>2 DEF Leading

\* What is selected has a text for every column asked for.
LEMMA SelectedRows ==
    ASSUME TableOK, NEW query
    PROVE  /\ DOMAIN Selected(query) = 1..Len(Selected(query))
           /\ \A i \in DOMAIN Selected(query) :
                 Selected(query)[i] = [c \in ColumnsOf(query, columns_) |-> Selected(query)[i][c]]
<1> DEFINE found == Where(rows, query.where)
<1>1. found \in Seq(RowsOf(columns_))  BY PickedRows DEF TableOK, Where
<1>2. DOMAIN found = 1..Len(found) /\ Len(found) \in Nat  BY <1>1
<1> HIDE DEF found
<1>3. Selected(query) = [i \in 1..Len(found) |-> TextOf(found[i], ColumnsOf(query, columns_))]
      BY <1>2 DEF Selected, found
<1>4. \A i \in 1..Len(found) :
        Selected(query)[i] = [c \in ColumnsOf(query, columns_) |-> Selected(query)[i][c]]
      BY <1>3 DEF TextOf
<1>5. DOMAIN Selected(query) = 1..Len(found) /\ Len(Selected(query)) = Len(found)
      BY <1>2, <1>3
<1> QED  BY <1>4, <1>5

\* For any tables, queries and number of wrappers: the rows a query has collected
\* are the first rows of what it selects at that moment (Model.cpp:51), whole unless
\* the table has more columns than were counted when it was prepared (Model.cpp:50).
THEOREM QueriesArePrefixes == DatabaseSpec => []QueryIsPrefix
<1>1. ASSUME DatabaseInv, DatabaseTypeOK, NEW w \in Wrappers, result[w] # <<>>,
             NEW k \in Nat, k <= Len(Selected(asked[w])),
             result[w] = [i \in 1..k |-> RowRead(w, i)], NEW i \in 1..k, ~FewerColumns(w)
      PROVE  \/ result[w][i] = Selected(asked[w])[i]
             \/ MoreColumns(w) /\ result[w][i] = RowRead(w, i)
  <2>1. TableOK /\ QueriesOK  BY <1>1, DatabaseTypes
  <2>2. result[w][i] = RowRead(w, i)  BY <1>1
  <2>3. CASE ~MoreColumns(w)
    <3>1. ColumnsRead(w) = ColumnsOf(asked[w], columns_)
      <4>1. CASE asked[w].all
        <5>1. IsFiniteSet(columns_) /\ IsFiniteSet(asked[w].select)
              BY <2>1, DatabaseAssumption, FS_Subset DEF TableOK, QueriesOK
        <5>2. Cardinality(columns_) \in Nat /\ Counted(w) \in Nat
              BY <5>1, FS_CardinalityType DEF Counted
        <5>3. Cardinality(columns_) = Counted(w)
              BY <1>1, <2>3, <4>1, <5>2 DEF FewerColumns, MoreColumns
        <5>4. Leading(columns_, Counted(w)) = columns_
              BY <2>1, <5>3, LeadingAll DEF TableOK
        <5> QED  BY <4>1, <5>4 DEF ColumnsRead, ColumnsOf
      <4>2. CASE ~asked[w].all  BY <4>2 DEF ColumnsRead, ColumnsOf
      <4> QED  BY <4>1, <4>2
    <3>2. i \in DOMAIN Selected(asked[w])
      <4>1. DOMAIN Selected(asked[w]) = 1..Len(Selected(asked[w]))  BY <2>1, SelectedRows
      <4> QED  BY <1>1, <4>1
    <3>3. Selected(asked[w])[i]
              = [c \in ColumnsOf(asked[w], columns_) |-> Selected(asked[w])[i][c]]
          BY <2>1, <3>2, SelectedRows
    <3> QED  BY <2>2, <3>1, <3>3 DEF RowRead
  <2> QED  BY <2>2, <2>3
<1>2. DatabaseInv /\ DatabaseTypeOK => QueryIsPrefix
  <2> SUFFICES ASSUME DatabaseInv, DatabaseTypeOK, NEW w \in Wrappers, call[w] = "query",
                      result[w] # <<>>
               PROVE  /\ Answerable(asked[w]) /\ ~FewerColumns(w)
                      /\ Len(result[w]) <= Len(Selected(asked[w]))
                      /\ \A i \in 1..Len(result[w]) :
                            \/ result[w][i] = Selected(asked[w])[i]
                            \/ MoreColumns(w) /\ result[w][i] = RowRead(w, i)
      BY DEF QueryIsPrefix
  <2>1. Answerable(asked[w]) /\ ~FewerColumns(w)  BY DEF DatabaseInv, CollectedOK
  <2>2. PICK k \in Nat : /\ k <= Len(Selected(asked[w]))
                         /\ result[w] = [i \in 1..k |-> RowRead(w, i)]
        BY DEF DatabaseInv, CollectedOK
  <2>3. Len(result[w]) = k  BY <2>2
  <2> QED  BY <1>1, <2>1, <2>2, <2>3
<1>3. DatabaseInv /\ DatabaseTypeOK /\ [DatabaseNext]_databaseVars
      => DatabaseInv' /\ DatabaseTypeOK'
      BY DatabaseKept, DatabaseTyped
<1> QED  BY <1>2, <1>3, DatabaseStarts, DatabaseTypesStart, PTL DEF DatabaseSpec

-------------------------------------------------------------------------------
(* The parts together, each of which only its own steps change.               *)

ServicesInv == ExchangeInv /\ ExchangeTypeOK /\ JsonTypeOK /\ DatabaseInv /\ DatabaseTypeOK

\* They begin as they begin alone,
LEMMA ServicesStart == ServicesInit => ServicesInv
<1> SUFFICES ASSUME ServicesInit PROVE ServicesInv
    OBVIOUS
<1> QED  BY ExchangeStarts, ExchangeTypesStart, JsonTypesStart, DatabaseStarts,
            DatabaseTypesStart
            DEF ServicesInit, ServicesInv

\* and a step of one of them leaves the others as they are.
LEMMA ServicesKept == ServicesInv /\ [ServicesNext]_servicesVars => ServicesInv'
<1> SUFFICES ASSUME ServicesInv, [ServicesNext]_servicesVars PROVE ServicesInv'
    OBVIOUS
<1>1. /\ [ExchangeNext]_exchangeVars /\ [JsonNext]_jsonVars
      /\ [DatabaseNext]_databaseVars
      BY DEF ServicesNext, HttpStep, JsonStep, DatabaseStep, servicesVars
<1>2. ExchangeInv' /\ ExchangeTypeOK'  BY <1>1, ExchangeStep, ExchangeTyped DEF ServicesInv
<1>3. JsonTypeOK'  BY <1>1, JsonTyped DEF ServicesInv
<1>4. DatabaseInv' /\ DatabaseTypeOK'  BY <1>1, DatabaseKept, DatabaseTyped DEF ServicesInv
<1> QED  BY <1>2, <1>3, <1>4 DEF ServicesInv

\* So all of them keep their types side by side.
THEOREM ServicesTypesCorrect == ServicesSpec => []ServicesTypeOK
<1>1. ServicesInv => ServicesTypeOK  BY DEF ServicesInv, ServicesTypeOK
<1> QED  BY <1>1, ServicesStart, ServicesKept, PTL DEF ServicesSpec
===============================================================================
