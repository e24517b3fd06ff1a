---------------------------- MODULE MCMessageQueue ----------------------------
(* MessageQueue for TLC: a few consumers and a small capacity, so that the    *)
(* queue fills, overwrites and runs empty within a few calls.                 *)
EXTENDS MessageQueue
===============================================================================
