----------------------------- MODULE TaskExecutor -----------------------------
(* What a thread pool promises, without its threads' handshakes: submitted    *)
(* tasks are numbered in the order they are accepted, at most Backlog of them *)
(* wait, they start in that order, at most Parallelism run at a time, each    *)
(* runs once, and the pool is gone only when all of them are done.            *)
EXTENDS Naturals, FiniteSets

CONSTANTS Backlog, Parallelism

VARIABLES
    submitted,   \* number of tasks accepted
    pending,     \* accepted, not started
    running,
    done,
    destroyed

execVars == <<submitted, pending, running, done, destroyed>>

ExecInit == /\ submitted = 0
            /\ pending = {}
            /\ running = {}
            /\ done = {}
            /\ destroyed = FALSE

Submit == /\ ~destroyed
          /\ Cardinality(pending) < Backlog
          /\ submitted' = submitted + 1
          /\ pending' = pending \cup {submitted'}
          /\ UNCHANGED <<running, done, destroyed>>

Start == /\ Cardinality(running) < Parallelism
         /\ \E k \in pending :
                /\ \A other \in pending : k <= other
                /\ pending' = pending \ {k}
                /\ running' = running \cup {k}
         /\ UNCHANGED <<submitted, done, destroyed>>

Finish == /\ \E k \in running :
                /\ running' = running \ {k}
                /\ done' = done \cup {k}
          /\ UNCHANGED <<submitted, pending, destroyed>>

Destroy == /\ done = 1..submitted
           /\ pending = {} /\ running = {}
           /\ destroyed' = TRUE
           /\ UNCHANGED <<submitted, pending, running, done>>

ExecSpec == ExecInit /\ [][Submit \/ Start \/ Finish \/ Destroy]_execVars
===============================================================================
