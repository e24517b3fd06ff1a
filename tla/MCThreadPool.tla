----------------------------- MODULE MCThreadPool -----------------------------
(* Model constants of ThreadPool for TLC. Workers are interchangeable, and so *)
(* are clients, in every safety property.                                     *)
EXTENDS ThreadPool, TLC

Symmetry == Permutations(Workers) \cup Permutations(Clients)
===============================================================================
