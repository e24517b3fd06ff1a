------------------------------ MODULE LossyFifo ------------------------------
(* What a bounded message queue promises, without threads or locks: messages  *)
(* are numbered as they are sent, the oldest message in transit is the next   *)
(* one delivered, and a message is lost only by being sent while Capacity     *)
(* others are in transit: then either the oldest one in transit makes room    *)
(* (KeepNewest) or the new one is refused.                                    *)
EXTENDS Naturals, FiniteSets

CONSTANTS Capacity, KeepNewest

VARIABLES
    sent,        \* number of messages sent so far
    transit,     \* the messages accepted and not yet delivered
    delivered    \* the message delivered last, 0 before the first

fifoVars == <<sent, transit, delivered>>

Oldest(S) == CHOOSE m \in S : \A n \in S : m <= n

FifoInit == sent = 0 /\ transit = {} /\ delivered = 0

Accept == /\ Cardinality(transit) < Capacity
          /\ transit' = transit \cup {sent + 1}

Overwrite == /\ Cardinality(transit) = Capacity
             /\ KeepNewest
             /\ transit' = (transit \ {Oldest(transit)}) \cup {sent + 1}

Refuse == /\ Cardinality(transit) = Capacity
          /\ ~KeepNewest
          /\ transit' = transit

Send == /\ sent' = sent + 1
        /\ Accept \/ Overwrite \/ Refuse
        /\ UNCHANGED delivered

Deliver == /\ transit # {}
           /\ delivered' = Oldest(transit)
           /\ transit' = transit \ {Oldest(transit)}
           /\ UNCHANGED sent

FifoSpec == FifoInit /\ [][Send \/ Deliver]_fifoVars
==============================================================================
