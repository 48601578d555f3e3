---------------------------- MODULE MineSweeper ----------------------------
(***************************************************************************)
(* src/servers/gamesvr/mine_sweeper/MineSweeperMgr: the map, the drawing   *)
(* of the mines, the numbers, and the clicks that open or flag a point.    *)
(* The class is in no build file.                                          *)
(***************************************************************************)
EXTENDS Integers, FiniteSets, SequencesExt

CONSTANTS
    MaxX, MaxY,  \* nMaxX, nMaxY
    Mines,       \* numbers of mines a map may be asked for; 0: a tenth
    Beyond,      \* points that may stand in the memory behind MinePointAry
    MaxMaps      \* bound: calls of CreateMap

SweeperConstants ==
    /\ MaxX \in Nat /\ MaxY \in Nat /\ MaxMaps \in Nat
    /\ Mines \subseteq Nat

Points == (0 .. MaxX - 1) \X (0 .. MaxY - 1)
Cells == MaxX * MaxY
Landmine == -1

VARIABLES
    content,  \* Content of each point in m_mine_sweeper_map
    status,   \* Status of each
    mines,    \* m_mine_points
    maxMine,  \* m_max_mine
    openPoint,   \* m_open_point
    result,   \* what the last click returned: "", "win" or "over"
    maps      \* calls of CreateMap so far

vars == <<content, status, mines, maxMine, openPoint, result, maps>>

Init ==
    /\ content = <<>> /\ status = <<>> /\ mines = {}
    /\ maxMine = 0 /\ openPoint = 0 /\ result = "" /\ maps = 0

\* GetPointAroundMine: the neighbours within the map, for a point of it.
Around(p) ==
    {q \in (p[1] - 1 .. p[1] + 1) \X (p[2] - 1 .. p[2] + 1) :
        /\ q # p
        /\ q[1] > p[1] => q[1] <= MaxX - 1
        /\ q[1] < p[1] => q[1] >= 0
        /\ q[2] > p[2] => q[2] <= MaxY - 1
        /\ q[2] < p[2] => q[2] >= 0}

----------------------------------------------------------------------------
(* CreateMap.                                                              *)

\* MinePointAry, and the memory behind it.
FirstArray(g) ==
    [n \in 0..Cells |-> IF n = Cells THEN g ELSE <<n \div MaxY, n % MaxY>>]

\* The place of a drawn point is filled from MinePointAry[nMaxIdx], which is
\* one past the last that can be drawn.
Arrays(draws, g) ==
    LET after[i \in 0 .. Len(draws)] ==
            IF i = 0 THEN FirstArray(g)
            ELSE [after[i - 1] EXCEPT ![draws[i]] = after[i - 1][Cells - (i - 1)]]
    IN  after

Drawn(draws, g) ==
    LET after == Arrays(draws, g)
    IN  {after[i - 1][draws[i]] : i \in DOMAIN draws}

Draws(n) == {d \in [1..n -> 0 .. Cells - 1] : \A i \in 1..n : d[i] < Cells - (i - 1)}

\* CalcNumber: the mines that count at p.
NumberedBy(p, ms) == {m \in ms : p \in Around(m)}

\* The map and the mines of an earlier CreateMap stay, and its numbers.
CreateMap(n, draws, g) ==
    LET map == Points \cup DOMAIN content
        ms == mines \cup Drawn(draws, g)
        was(p) == IF p \in DOMAIN content THEN content[p] ELSE 0
    IN
    /\ maps < MaxMaps
    /\ maps' = maps + 1
    /\ mines' = ms
    /\ content' = [p \in map \cup ms |->
                      IF p \in ms THEN Landmine
                      ELSE was(p) + Cardinality(NumberedBy(p, ms))]
    /\ status' = [p \in map \cup ms |->
                      IF p \in DOMAIN status THEN status[p] ELSE "default"]
    /\ maxMine' = n
    /\ result' = ""
    /\ UNCHANGED openPoint

Create ==
    \E n \in Mines, g \in Beyond :
        LET k == IF n = 0 THEN Cells \div 10 ELSE n
        IN  \E draws \in Draws(k) : CreateMap(k, draws, g)

----------------------------------------------------------------------------
(* OnClickPoint.                                                           *)

InMap(p) == p \in DOMAIN content

\* OpenPoint returns at once for the other points.
Opens(q) == InMap(q) /\ content[q] # Landmine /\ status[q] = "default"

\* The calls to make and the points opened, once the first call is made.
Called(s) ==
    LET q == Head(s[1]) IN
    IF Opens(q) /\ q \notin s[2]
    THEN <<(IF content[q] = 0 THEN SetToSeq(Around(q)) ELSE <<>>) \o Tail(s[1]),
           s[2] \cup {q}>>
    ELSE <<Tail(s[1]), s[2]>>

\* Mutant: the points around a zero are opened, and no further.
OpenPoint_Shallow(p) ==
    {q \in {p} \cup (IF content[p] = 0 THEN Around(p) ELSE {}) : Opens(q)}

\* OpenPoint, which calls itself for the points around a zero, depth first:
\* the points it opens when it is called for p.
OpenPoint(p) ==
    LET open[s \in Seq(Points) \X SUBSET Points] ==
            IF s[1] = <<>> THEN s[2] ELSE open[Called(s)]
    IN  open[<<<<p>>, {}>>]

Flag(p) ==
    /\ InMap(p) /\ status[p] = "default"
    /\ status' = [status EXCEPT ![p] = "flag"]
    /\ result' = ""
    /\ UNCHANGED <<content, mines, maxMine, openPoint, maps>>

\* The game is over, and goes on when there is another click.
HitMine(p) ==
    /\ InMap(p) /\ status[p] = "default" /\ content[p] = Landmine
    /\ result' = "over"
    /\ UNCHANGED <<content, status, mines, maxMine, openPoint, maps>>

\* Mutant: off by one.
Won_Early(n) == n >= Cells - maxMine - 1

Won(n) == n >= Cells - maxMine

Open(p) ==
    /\ InMap(p) /\ status[p] = "default" /\ content[p] # Landmine
    /\ status' = [q \in DOMAIN status |->
                     IF q \in OpenPoint(p) THEN "open" ELSE status[q]]
    /\ openPoint' = openPoint + Cardinality(OpenPoint(p))
    /\ result' = IF Won(openPoint') THEN "win" ELSE ""
    /\ UNCHANGED <<content, mines, maxMine, maps>>

Next ==
    \/ Create
    \/ \E p \in DOMAIN content : Flag(p) \/ HitMine(p) \/ Open(p)

Spec == Init /\ [][Next]_vars

----------------------------------------------------------------------------
(* Properties.                                                             *)

TypeOK ==
    /\ DOMAIN content = DOMAIN status
    /\ \A p \in DOMAIN status : status[p] \in {"default", "open", "flag"}
    /\ \A p \in DOMAIN content : content[p] \in Int
    /\ mines \subseteq DOMAIN content
    /\ {maxMine, openPoint, maps} \subseteq Nat
    /\ result \in {"", "win", "over"}

OpenPoints == {p \in DOMAIN status : status[p] = "open"}

\* Opening never stops half way: around an open point without number everything
\* is open, but for what was flagged; no mine is ever opened, and the number of
\* open points is kept.
FloodComplete ==
    /\ OpenPoints \cap mines = {} \/ maps > 1
    /\ openPoint = Cardinality(OpenPoints)
    /\ \A p \in OpenPoints :
           content[p] = 0 /\ maps = 1 =>
               \A q \in Around(p) : status[q] \in {"open", "flag"}

\* In the first game a click that opens something wins exactly if nothing but
\* mines is left, unless the point behind the array was drawn: then fewer mines
\* than asked for may be on the map, and a game is won with a point left.
WinIfAllOpen ==
    openPoint' # openPoint /\ maps = 1 /\ Cardinality(mines \cap Points) = maxMine =>
        (result' = "win" <=> OpenPoints' = Points \ mines)

WinsWithLastPoint == [][WinIfAllOpen]_vars
=============================================================================
