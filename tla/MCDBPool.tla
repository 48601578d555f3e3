------------------------------ MODULE MCDBPool ------------------------------
(* Small instances of DBPool. *)
EXTENDS DBPool

CONSTANTS c1, c2, q1, q2
=============================================================================
