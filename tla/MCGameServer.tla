---------------------------- MODULE MCGameServer ----------------------------
(* Small instances of GameServer. *)
EXTENDS GameServer

CONSTANTS c1, c2
=============================================================================
