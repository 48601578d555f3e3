------------------------- MODULE MCEventCentrePool -------------------------
(* Small instances of EventCentrePool: one pool and who registers with it.  *)
EXTENDS EventCentrePool

CONSTANTS p1, r1, r2
=============================================================================
