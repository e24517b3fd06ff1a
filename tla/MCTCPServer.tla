------------------------------ MODULE MCTCPServer ------------------------------
(* Model constants of TCPServer for TLC: a session whose peer sends and that  *)
(* is sent to twice, and one that is only sent to.                            *)
EXTENDS TCPServer, TLC

CONSTANTS s1, s2

Pieces == (s1 :> 4) @@ (s2 :> 0)
Sends == (s1 :> 2) @@ (s2 :> 1)
===============================================================================
