------------------------------ MODULE MCDaemons ------------------------------
(* One operator, who runs one command at a time, and a handful of processes. *)
EXTENDS Daemons, TLC

CONSTANTS c1, q1, q2, q3
=============================================================================
