---------------------------- MODULE SessionManager ----------------------------
(* Utils::TCP::SessionManager (TCP/src/Session.cpp): the table of sessions.   *)
(* Every member function holds sessionMutex_; Broadcast() keeps it while it   *)
(* goes through the table, CleanExpiredSession() gives it up between finding  *)
(* the expired sessions and removing each of them. The actions leave the      *)
(* order of calls to the module that uses them.                               *)
EXTENDS Session

VARIABLES
    sessions_,     \* from ids to sessions
    sessionId_,    \* the next id
    idOf,          \* Session::sessionId_, 0 before AddSession()
    sending,       \* the ids Broadcast() has still to serve
    expiredIds     \* the ids CleanExpiredSession() has still to remove

managerVars == <<sessions_, sessionId_, idOf, sending, expiredIds>>

ManagerInit == /\ sessions_ = <<>>
               /\ sessionId_ = 1
               /\ idOf = [s \in Sessions |-> 0]
               /\ sending = {}
               /\ expiredIds = {}

Ids == DOMAIN sessions_

Unlocked == sending = {}

AddSession(s) ==
    /\ Unlocked
    /\ idOf' = [idOf EXCEPT ![s] = sessionId_]
    /\ sessions_' = [i \in Ids \cup {sessionId_} |-> IF i = sessionId_ THEN s ELSE sessions_[i]]
    /\ sessionId_' = sessionId_ + 1
    /\ UNCHANGED <<sending, expiredIds>>

-------------------------------------------------------------------------------
ErasedFirst(i) == UNCHANGED sessionVars
ClosedFirst(i) == Close(sessions_[i])

RemoveKnown(i) ==
    /\ i \in Ids
    /\ ClosedFirst(i)
    /\ sessions_' = [j \in Ids \ {i} |-> sessions_[j]]

RemoveUnknown(i) ==
    /\ i \notin Ids
    /\ UNCHANGED <<sessionVars, sessions_>>

RemoveSession(i) ==
    /\ Unlocked
    /\ RemoveKnown(i) \/ RemoveUnknown(i)
    /\ UNCHANGED <<sessionId_, idOf, sending>>

\* An id that is not in the table is ignored.
Unicast(i) == /\ Unlocked /\ i \in Ids
              /\ SentData(sessions_[i])
              /\ UNCHANGED managerVars

BroadcastBegin == /\ Unlocked /\ Ids # {}
                  /\ \A i \in Ids : asked[sessions_[i]] < MaxSends[sessions_[i]]
                  /\ sending' = Ids
                  /\ UNCHANGED <<sessionVars, sessions_, sessionId_, idOf, expiredIds>>

BroadcastNext == \E i \in sending :
                    /\ SentData(sessions_[i])
                    /\ sending' = sending \ {i}
                    /\ UNCHANGED <<sessions_, sessionId_, idOf, expiredIds>>

CollectExpired == /\ Unlocked
                  /\ expiredIds' = {i \in Ids : expired[sessions_[i]]}
                  /\ UNCHANGED <<sessionVars, sessions_, sessionId_, idOf, sending>>

RemoveExpired == \E i \in expiredIds :
                    /\ RemoveSession(i)
                    /\ expiredIds' = expiredIds \ {i}

-------------------------------------------------------------------------------
\* An id in the table names one session, which knows it, and a session that has
\* left the table is closed: nobody could close or reach it any more.
TableAgrees ==
    /\ \A i \in Ids : idOf[sessions_[i]] = i
    /\ \A s \in Sessions : idOf[s] # 0 /\ idOf[s] \notin Ids => ~open[s]
===============================================================================
