------------------------------ MODULE OrderedLog ------------------------------
(* What an asynchronous log promises, whatever threads and queues it is made  *)
(* of: messages are numbered as they are accepted, come out one at a time in  *)
(* that order, each once, and the log is closed only when all of them are out.*)
EXTENDS Naturals, Sequences

VARIABLES
    accepted,    \* number of messages accepted
    out,         \* the messages that came out
    closed

logVars == <<accepted, out, closed>>

LogInit == accepted = 0 /\ out = <<>> /\ closed = FALSE

Accept == /\ ~closed
          /\ accepted' = accepted + 1
          /\ UNCHANGED <<out, closed>>

Emit == /\ Len(out) < accepted
        /\ out' = Append(out, Len(out) + 1)
        /\ UNCHANGED <<accepted, closed>>

Close == /\ Len(out) = accepted
         /\ closed' = TRUE
         /\ UNCHANGED <<accepted, out>>

LogSpec == LogInit /\ [][Accept \/ Emit \/ Close]_logVars
===============================================================================
