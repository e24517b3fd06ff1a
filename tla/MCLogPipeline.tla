----------------------------- MODULE MCLogPipeline -----------------------------
(* LogPipeline for TLC: a console and a policy of another kind. *)
EXTENDS LogPipeline
===============================================================================
