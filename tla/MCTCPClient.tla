------------------------------ MODULE MCTCPClient ------------------------------
(* Model constants of TCPClient for TLC: two connections, one after another   *)
(* or at once, one whose peer sends and one that is sent to.                  *)
EXTENDS TCPClient, TLC

CONSTANTS s1, s2

Pieces == (s1 :> 4) @@ (s2 :> 0)
Sends == (s1 :> 0) @@ (s2 :> 2)
===============================================================================
