-------------------------------- MODULE Aoi --------------------------------
(***************************************************************************)
(* src/servers/gamesvr/aoi/AOIManager: a scene cut into grids, entities    *)
(* that stand in them, and the notices entities get of those around them.  *)
(* Locations are integers here, counted from xleft and zbottom; y is       *)
(* treated as x is, and is left out.  A path finder is given or not: the   *)
(* built-in one finds no locations.                                        *)
(***************************************************************************)
EXTENDS Integers

CONSTANTS
    Entities,
    SizeX, SizeZ,  \* m_senceSize
    Len0,          \* edge of a grid, in x and in z
    Locations,     \* <<x, z>> the application asks for, valid or not
    None

VARIABLES
    loc,      \* m_location of each entity
    entities, \* the entities of each grid
    knows,    \* who each entity was told has entered, and not that he left
    fresh,    \* history: who entered, unknown, since each entity came or moved
    misused,  \* history: who entered twice, or moved before it entered
    ub        \* the location that led out of m_grids, or None

vars == <<loc, entities, knows, fresh, misused, ub>>

SceneConstants ==
    /\ SizeX \in Nat /\ SizeZ \in Nat /\ Len0 \in Nat \ {0}
    /\ Locations \subseteq Int \X Int
    /\ \E p \in Locations : p[1] \in 0..SizeX /\ p[2] \in 0..SizeZ

PiecesOf(size) ==
    LET n == size \div Len0 + (IF size % Len0 > 0 THEN 1 ELSE 0)
    IN  IF n <= 0 THEN 1 ELSE n

PX == PiecesOf(SizeX)
PZ == PiecesOf(SizeZ)
Grids == (0 .. PX - 1) \X (0 .. PZ - 1)

CheckPos(p) == p[1] \in 0..SizeX /\ p[2] \in 0..SizeZ

\* ceil(length / m_gridSize.length): what stands on the left edge of a grid is
\* still in the one before.
IdxOf(x) == (x + Len0 - 1) \div Len0

GridOf(p) == <<IdxOf(p[1]), IdxOf(p[2])>>

\* "idx - 1; < idx + 1": the grid and the one before it.
Span(i) == i - 1 .. i

\* FindAroundGrids: z may be the number of grids, one past the last.
FindAroundGrids(p) ==
    IF ~CheckPos(p) THEN {}
    ELSE {g \in Span(IdxOf(p[1])) \X Span(IdxOf(p[2])) :
              g[1] \in 0 .. PX - 1 /\ g[2] \in 0 .. PZ}

Inside(p) == GridOf(p) \in Grids
AroundInside(p) == FindAroundGrids(p) \subseteq Grids

\* The entities in the grids gs, once ents is who stands where.
In(ents, gs) == UNION {ents[g] : g \in gs}

Init ==
    /\ loc \in [Entities -> {CHOOSE p \in Locations : CheckPos(p)}]
    /\ entities = [g \in Grids |-> {}]
    /\ knows = [o \in Entities |-> {}]
    /\ fresh = [o \in Entities |-> {}]
    /\ misused = {} /\ ub = None

Out(p) ==
    /\ ub' = p
    /\ UNCHANGED <<loc, entities, knows, fresh, misused>>

Standing(e) == \E g \in Grids : e \in entities[g]

\* e came or moved: what it was told before is about another place.  When it
\* came, those who did not know it are told what they are to know.
Freshen(e, came) ==
    fresh' = [o \in Entities |-> IF o = e THEN {}
                                 ELSE IF came /\ e \notin knows[o]
                                 THEN fresh[o] \cup {e} ELSE fresh[o]]

\* Enter: the entity is inserted, then those around are told, itself among
\* them.  A second Enter does not take it out of the first grid.
Enter(e, p) ==
    /\ CheckPos(p) /\ Inside(p) /\ AroundInside(p)
    /\ loc' = [loc EXCEPT ![e] = p]
    /\ entities' = [entities EXCEPT ![GridOf(p)] = @ \cup {e}]
    /\ misused' = IF Standing(e) THEN misused \cup {e} ELSE misused
    /\ knows' = [o \in Entities |->
                    IF o \in In(entities', FindAroundGrids(p))
                    THEN knows[o] \cup {e} ELSE knows[o]]
    /\ Freshen(e, TRUE)
    /\ UNCHANGED ub

\* Leave, also of an entity that stands nowhere.
Leave(e) ==
    /\ CheckPos(loc[e])
    /\ entities' = [entities EXCEPT ![GridOf(loc[e])] = @ \ {e}]
    /\ knows' = [o \in Entities |->
                    IF o \in In(entities', FindAroundGrids(loc[e]))
                    THEN knows[o] \ {e} ELSE knows[o]]
    /\ Freshen(e, FALSE)
    /\ UNCHANGED <<loc, misused, ub>>

\* Mutant: those who see the entity before and after are told that it left.
LeaveSet_All(old, new) == old

LeaveSet(old, new) == old \ new

EnterSet(old, new) == new \ old

\* One location of a Move.  The notices of AOI_MOVE, to all grids of both
\* sets, change nothing that is kept here.
StepTo(e, p) ==
    LET old == FindAroundGrids(loc[e])  new == FindAroundGrids(p)
        from == GridOf(loc[e])          to == GridOf(p)
    IN
    /\ loc' = [loc EXCEPT ![e] = p]
    /\ IF from = to
       THEN UNCHANGED <<entities, knows, fresh>>
       ELSE /\ entities' = [entities EXCEPT ![from] = @ \ {e}, ![to] = @ \cup {e}]
            /\ knows' = [o \in Entities |->
                   LET left == IF o \in In(entities', LeaveSet(old, new))
                               THEN knows[o] \ {e} ELSE knows[o]
                   IN  IF o \in In(entities', EnterSet(old, new))
                       THEN left \cup {e} ELSE left]
            /\ Freshen(e, FALSE)

\* Move with a path finder, to a location; a path of several is several moves.
Move(e, p) ==
    /\ CheckPos(p) /\ Inside(p) /\ AroundInside(p)
    /\ StepTo(e, p)
    /\ misused' = IF Standing(e) THEN misused ELSE misused \cup {e}
    /\ UNCHANGED ub

\* Enter and Move index m_grids with what GetGridIdxByPos gave them.
LeadsOut(p) ==
    /\ CheckPos(p) /\ ~(Inside(p) /\ AroundInside(p))
    /\ Out(p)

\* Nothing is said of what follows a location out of m_grids; and bound: nor
\* of what follows the first use the class is not meant for.
Next ==
    /\ ub = None /\ misused = {}
    /\ \/ \E e \in Entities, p \in Locations : Enter(e, p) \/ Move(e, p)
       \/ \E e \in Entities : Leave(e)
       \/ \E p \in Locations : LeadsOut(p)

Spec == Init /\ [][Next]_vars

----------------------------------------------------------------------------
(* Properties.                                                             *)

TypeOK ==
    /\ loc \in [Entities -> Locations] /\ entities \in [Grids -> SUBSET Entities]
    /\ knows \in [Entities -> SUBSET Entities]
    /\ fresh \in [Entities -> SUBSET Entities]
    /\ misused \subseteq Entities /\ ub \in Locations \cup {None}

\* An entity that has stood still knows of those that came
\* since exactly if its grid is one that FindAroundGrids gives for them, however
\* far they move, as long as both are used as meant.
KnowsWhoIsAround ==
    \A o, e \in Entities :
        (o # e /\ e \in fresh[o] /\ {o, e} \cap misused = {} /\ Standing(o)) =>
            (e \in knows[o]
                <=> Standing(e) /\ GridOf(loc[o]) \in FindAroundGrids(loc[e]))

\* An entity used as meant stands in the grid of its location or nowhere.
StandsWhereItIs ==
    \A e \in Entities \ misused, g \in Grids :
        e \in entities[g] => g = GridOf(loc[e])

\* A valid location leads out of m_grids only if it lies past the start of the
\* last grid, and nothing stands there.
OutPastLastGrid ==
    /\ ub # None => ub[1] > (PX - 1) * Len0 \/ ub[2] > (PZ - 1) * Len0
    /\ \A e \in Entities :
           Standing(e) => loc[e][1] <= (PX - 1) * Len0 /\ loc[e][2] <= (PZ - 1) * Len0
=============================================================================
