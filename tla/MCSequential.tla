---------------------------- MODULE MCSequential ----------------------------
(***************************************************************************)
(* The parts that no other component runs concurrently with, in one run:   *)
(* each behaviour is one of TimerIds, TimerHeap, Aoi, MineSweeper or       *)
(* Logger, while the variables of the others keep their initial values.    *)
(***************************************************************************)
EXTENDS TimerIds, Integers

CONSTANTS Timers, LoopTimers, Kept, Deleted, Suspendable, Timeout, IntMax, MaxTime
VARIABLES heap, timerMap, dead, nextTime, suspended, now, last, pc, fired, spent
Heap == INSTANCE TimerHeap

ASSUME HeapAssumption == Heap!HeapConstants

CONSTANTS ta, tb, tc, td

\* Two timers due at the same time, one before them, and one whose timeout is
\* above the largest int.
SpreadTimeouts ==
    [t \in Timers |-> CASE t = ta -> 1 [] t = td -> 9 [] OTHER -> 2]

CONSTANTS Entities, SizeX, SizeZ, Len0, Locations, None
VARIABLES loc, entities, knows, fresh, misused, ub
Scene == INSTANCE Aoi

ASSUME SceneAssumption == Scene!SceneConstants

\* The corners of the grids of the first row and column, the far corner of the
\* scene, a point in the last grids, and two points outside.
SceneLocations ==
    ({0, 1, 3} \X {0, 1}) \cup {<<6, 0>>, <<2, 3>>, <<-1, 0>>, <<7, 7>>}

CONSTANTS MaxX, MaxY, Mines, Beyond, MaxMaps
VARIABLES content, status, mines, maxMine, openPoint, result, maps
Sweeper == INSTANCE MineSweeper

ASSUME SweeperAssumption == Sweeper!SweeperConstants

\* A point of the map and one outside.
AnyPoints == {<<0, 0>>, <<-9, -9>>}

CONSTANTS Writers, Day, Offset, MaxSize, Lengths, LastTick, MaxFiles
VARIABLES isInit, clock, stamp, file, curSize, fillNum, lastSecond, fileSize,
          openedAt, line
Log == INSTANCE Logger

ASSUME LogAssumption == Log!LogConstants

CONSTANTS u1, u2, e1, e2, l1, l2

VARIABLE part \* whose behaviour this is

heapVars == <<heap, timerMap, dead, nextTime, suspended, now, last, pc, fired,
              spent>>
sceneVars == <<loc, entities, knows, fresh, misused, ub>>
mineVars == <<content, status, mines, maxMine, openPoint, result, maps>>
logVars == <<isInit, clock, stamp, file, curSize, fillNum, lastSecond, fileSize,
             openedAt, line>>
seqVars == <<part, vars, heapVars, sceneVars, mineVars, logVars>>

SeqInit ==
    /\ part \in {"heap", "ids", "scene", "sweeper", "log"}
    /\ Init /\ Heap!Init /\ Scene!Init /\ Sweeper!Init
    \* The time of day at the start matters to the logger only.
    /\ Log!Init /\ (part # "log" => clock = 1)

SeqNext ==
    /\ \/ /\ part = "heap" /\ Heap!Next
          /\ UNCHANGED <<vars, sceneVars, mineVars, logVars>>
       \/ /\ part = "ids" /\ Next
          /\ UNCHANGED <<heapVars, sceneVars, mineVars, logVars>>
       \/ /\ part = "scene" /\ Scene!Next
          /\ UNCHANGED <<vars, heapVars, mineVars, logVars>>
       \/ /\ part = "sweeper" /\ Sweeper!Next
          /\ UNCHANGED <<vars, heapVars, sceneVars, logVars>>
       \/ /\ part = "log" /\ Log!Next
          /\ UNCHANGED <<vars, heapVars, sceneVars, mineVars>>
    /\ UNCHANGED part

SeqSpec == SeqInit /\ [][SeqNext]_seqVars

----------------------------------------------------------------------------
(* The properties of the parts, stated in their modules.                   *)

\* A timer that is to run stands in the heap exactly once (MinHeap).
EntryKept == Heap!EntryKept

\* The loop neither sleeps past a live timer nor spins (Timer::GetNextTimeout).
TimeoutRight == Heap!TimeoutRight

\* Timers are taken in the order in which they are due (Timer::Launch).
LaunchInOrder == Heap!LaunchInOrder

\* An entity that stands still knows who came since into the grids that
\* FindAroundGrids gives, an entity stands in the grid of its location, and only
\* a location in the last grids leads out (AOIManager::Enter, Leave, Move).
KnowsWhoIsAround ==
    Scene!KnowsWhoIsAround /\ Scene!StandsWhereItIs /\ Scene!OutPastLastGrid

\* Opening a point never stops half way (MineSweeperMgr::OpenPoint).
FloodComplete == Sweeper!FloodComplete

\* A click wins exactly if nothing but mines is left
\* (MineSweeperMgr::OnClickPoint).
WinsWithLastPoint == Sweeper!WinsWithLastPoint

\* No line goes into a file of an earlier day, and no file grows by more than
\* a line beyond MAX_SIZE (Logger::WriteLog).
LogFilesRight == Log!NoLineInOlderFile /\ Log!FileBounded
=============================================================================
