---------------------------- MODULE MCConnecter ----------------------------
(* Small instances of Connecter: nodes of two bytes stand for those of 4096. *)
EXTENDS Connecter
=============================================================================
