---------------------------- MODULE MCFileLogPolicy ----------------------------
(* Model constants of FileLogPolicy for TLC: small rings and buffers, so that *)
(* buffers fill, the ring wraps and the queue backs up within a few messages. *)
EXTENDS FileLogPolicy
===============================================================================
