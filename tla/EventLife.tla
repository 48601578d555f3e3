----------------------------- MODULE EventLife -----------------------------
(***************************************************************************)
(* What an EventCentre promises its users about the life of an event: it   *)
(* is in the centre from registration to deletion, only a cancelled event  *)
(* is deleted, a handler runs one at a time and only for an event that is  *)
(* in and not cancelled, and the load figure counts the events inside.     *)
(***************************************************************************)
EXTENDS Integers

CONSTANTS Events, Nobody, First  \* First is in from the start

VARIABLES
    life,  \* "out", "in", or "closing": cancelled, not deleted yet
    busy,  \* the event whose handler runs, or Nobody
    count  \* the number of events that are not "out"

lifeVars == <<life, busy, count>>

LifeInit ==
    /\ life = [e \in Events |-> IF e = First THEN "in" ELSE "out"]
    /\ busy = Nobody
    /\ count = 1

Enter(e) ==
    /\ life[e] = "out"
    /\ life' = [life EXCEPT ![e] = "in"]
    /\ count' = count + 1
    /\ UNCHANGED busy

Close(e) ==
    /\ life[e] = "in"
    /\ life' = [life EXCEPT ![e] = "closing"]
    /\ UNCHANGED <<busy, count>>

Leave(e) ==
    /\ life[e] = "closing" /\ busy = Nobody
    /\ life' = [life EXCEPT ![e] = "out"]
    /\ count' = count - 1
    /\ UNCHANGED busy

Begin(e) ==
    /\ life[e] = "in" /\ busy = Nobody
    /\ busy' = e
    /\ UNCHANGED <<life, count>>

End ==
    /\ busy # Nobody
    /\ busy' = Nobody
    /\ UNCHANGED <<life, count>>

LifeNext == End \/ \E e \in Events : Enter(e) \/ Close(e) \/ Leave(e) \/ Begin(e)

LifeSpec == LifeInit /\ [][LifeNext]_lifeVars
=============================================================================
