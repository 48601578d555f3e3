-------------------------- MODULE EventCentrePool --------------------------
(***************************************************************************)
(* src/common/net/Event.cpp, EventCentrePool: Start runs a thread pool and *)
(* gives it one Work per thread; each Work builds a centre on its stack,   *)
(* announces it and stays in its EventLoop until Stop calls Exit.  Several *)
(* pools of one process share the static counter of Work.                  *)
(*                                                                         *)
(* The thread pool is reduced to what ThreadPool.tla shows of it (a queued *)
(* task is taken by a free thread, Stop waits for busy ones), a centre to  *)
(* its m_running and m_eventsNum.                                          *)
(***************************************************************************)
EXTENDS Integers, Sequences, FiniteSets

CONSTANTS
    Pools,
    N,           \* m_threadNum of each pool
    CbPools,     \* pools whose Start may be given a callback
    Stopping,    \* pools that are stopped and destroyed
    Registrars,  \* threads calling RegisterEvent
    MaxEvents,   \* bound: calls of RegisterEvent
    None

ASSUME PoolsAssumption ==
    /\ N \in Nat \ {0}
    /\ CbPools \subseteq Pools /\ Stopping \subseteq Pools
    /\ MaxEvents \in Nat /\ IsFiniteSet(Registrars)
    /\ None \notin Registrars \cup (Pools \X (1..N))

\* A worker is a thread of a pool, and the centre on its stack.
Workers(p) == {p} \X (1..N)
AllWorkers == Pools \X (1..N)

VARIABLES
    opc,       \* what the owner of each pool does
    withCb,    \* pools whose Start is given a callback
    toPush,    \* Work tasks Start has yet to push
    queued,    \* Work tasks in the queue of the thread pool
    poolRuns,  \* m_running of the thread pool
    started,   \* m_started
    cb,        \* m_startedCb is set
    centres,   \* m_centres
    lock,      \* the registrar that holds m_mutex, or None
    worked,    \* the static counter of Work
    wpc,       \* where each worker is
    loops,     \* m_running of the worker's centre
    late,      \* history: loops entered after the destructor's Stop
    load,      \* m_eventsNum of the worker's centre
    called,    \* how often the callback of each pool was called
    missed,    \* history: pools announced while Start was still pushing
    rpc,       \* what each registrar does
    best,      \* the centre a registrar has found so far
    next,      \* index of the centre it looks at next
    events     \* calls of RegisterEvent

ownVars  == <<opc, toPush, poolRuns>>
cbVars   == <<cb, withCb>>
toldVars == <<called, missed>>
workVars == <<worked, wpc, toldVars>>
loopVars == <<loops, late>>
regVars  == <<rpc, best, next, events>>
vars == <<ownVars, queued, started, cbVars, centres, lock, workVars, loopVars,
          load, regVars>>

Init ==
    /\ opc = [p \in Pools |-> "new"]
    /\ withCb \in SUBSET CbPools
    /\ toPush = [p \in Pools |-> 0]
    /\ queued = [p \in Pools |-> 0]
    /\ poolRuns = [p \in Pools |-> FALSE]
    /\ started = [p \in Pools |-> FALSE]
    /\ cb = [p \in Pools |-> FALSE]
    /\ centres = [p \in Pools |-> <<>>]
    /\ lock = [p \in Pools |-> None]
    /\ worked = 0
    /\ wpc = [w \in AllWorkers |-> "free"]
    /\ loops = [w \in AllWorkers |-> FALSE] /\ late = {}
    /\ load = [w \in AllWorkers |-> 0]
    /\ called = [p \in Pools |-> 0] /\ missed = {}
    /\ rpc = [r \in Registrars |-> "idle"]
    /\ best = [r \in Registrars |-> None]
    /\ next = [r \in Registrars |-> 1]
    /\ events = 0

----------------------------------------------------------------------------
(* Start and the destructor, by the owner of pool p.                       *)

WorkTasks == N

StartRun(p) ==
    /\ opc[p] = "new"
    /\ poolRuns' = [poolRuns EXCEPT ![p] = TRUE]
    /\ toPush' = [toPush EXCEPT ![p] = WorkTasks]
    /\ opc' = [opc EXCEPT ![p] = "push"]
    /\ UNCHANGED <<queued, started, cbVars, centres, lock, workVars, loopVars,
                   load, regVars>>

StartPush(p) ==
    /\ opc[p] = "push" /\ toPush[p] > 0
    /\ queued' = [queued EXCEPT ![p] = @ + 1]
    /\ toPush' = [toPush EXCEPT ![p] = @ - 1]
    /\ UNCHANGED <<opc, poolRuns, started, cbVars, centres, lock, workVars,
                   loopVars, load, regVars>>

\* The callback is stored when the tasks have been pushed.
StartSetCb(p) ==
    /\ opc[p] = "push" /\ toPush[p] = 0 /\ p \in withCb
    /\ cb' = [cb EXCEPT ![p] = TRUE]
    /\ opc' = [opc EXCEPT ![p] = "returned"]
    /\ UNCHANGED withCb
    /\ UNCHANGED <<toPush, queued, poolRuns, started, centres, lock, workVars,
                   loopVars, load, regVars>>

StartWait(p) ==
    /\ opc[p] = "push" /\ toPush[p] = 0 /\ p \notin withCb
    /\ lock[p] = None
    /\ opc' = [opc EXCEPT ![p] = "waiting"]
    /\ UNCHANGED <<toPush, queued, poolRuns, started, cbVars, centres, lock,
                   workVars, loopVars, load, regVars>>

\* CondWait is not in a loop: any return from it ends Start.
StartSpurious(p) ==
    /\ opc[p] = "waiting"
    /\ opc' = [opc EXCEPT ![p] = "returned"]
    /\ UNCHANGED <<toPush, queued, poolRuns, started, cbVars, centres, lock,
                   workVars, loopVars, load, regVars>>

\* A centre is gone when its Work has returned.
Gone(w) == wpc[w] = "free"

Listed(p) == {w \in AllWorkers : \E i \in DOMAIN centres[p] : centres[p][i] = w}

\* Mutant: Exit reaches the first centre only.
ExitReaches_First(p) == {w \in Listed(p) : centres[p][1] = w}

\* The centres Stop calls Exit of.
ExitReaches(p) == Listed(p)

\* Stop, of the application or the destructor; the owner goes on at after.
\* Exit of a centre that is gone is undefined behaviour: the run ends at "ub".
StopThen(p, after) ==
    /\ lock[p] = None
    /\ loops' = [w \in AllWorkers |-> loops[w] /\ w \notin ExitReaches(p)]
    /\ started' = [started EXCEPT ![p] = FALSE]
    /\ opc' = [opc EXCEPT ![p] = IF \E w \in Listed(p) : Gone(w) THEN "ub"
                                 ELSE after]
    /\ UNCHANGED late
    /\ UNCHANGED <<toPush, queued, poolRuns, cbVars, centres, lock, workVars,
                   load, regVars>>

Stop(p) ==
    /\ opc[p] \in {"returned", "halted"} /\ p \in Stopping
    /\ StopThen(p, "halted")

DestroyStop(p) ==
    /\ opc[p] \in {"returned", "halted"} /\ p \in Stopping
    /\ StopThen(p, "stopped")

DestroyPool(p) ==
    /\ opc[p] = "stopped"
    /\ poolRuns' = [poolRuns EXCEPT ![p] = FALSE]
    /\ opc' = [opc EXCEPT ![p] = "joining"]
    /\ UNCHANGED <<toPush, queued, started, cbVars, centres, lock, workVars,
                   loopVars, load, regVars>>

DestroyReturns(p) ==
    /\ opc[p] = "joining"
    /\ \A w \in Workers(p) : wpc[w] = "free"
    /\ opc' = [opc EXCEPT ![p] = "gone"]
    /\ UNCHANGED <<toPush, queued, poolRuns, started, cbVars, centres, lock,
                   workVars, loopVars, load, regVars>>

----------------------------------------------------------------------------
(* Work, on thread w of the pool.                                          *)

PoolOf(w) == w[1]

\* A free thread takes a task; the centre is built and registers its wake-up
\* event.
TakeWork(w) ==
    /\ wpc[w] = "free" /\ poolRuns[PoolOf(w)] /\ queued[PoolOf(w)] > 0
    /\ queued' = [queued EXCEPT ![PoolOf(w)] = @ - 1]
    /\ load' = [load EXCEPT ![w] = 1]
    /\ wpc' = [wpc EXCEPT ![w] = "built"]
    /\ UNCHANGED <<ownVars, started, cbVars, centres, lock, worked,
                   loopVars, toldVars, regVars>>

AddCentre(w) ==
    /\ wpc[w] = "built" /\ lock[PoolOf(w)] = None
    /\ centres' = [centres EXCEPT ![PoolOf(w)] = Append(@, w)]
    /\ wpc' = [wpc EXCEPT ![w] = "added"]
    /\ UNCHANGED <<ownVars, queued, started, cbVars, lock, worked, loopVars, load,
                   toldVars, regVars>>

\* Mutants: one centre too many, or too few, is waited for.
AllWork_More(count) == count > N
AllWork_Less(count) == count >= N - 1

AllWork(count) == count >= N

Count(w) ==
    /\ wpc[w] = "added"
    /\ worked' = worked + 1
    /\ wpc' = [wpc EXCEPT ![w] =
                   IF AllWork(worked + 1) THEN "last" ELSE "enter"]
    /\ UNCHANGED <<ownVars, queued, started, cbVars, centres, lock, loopVars, load,
                   toldVars, regVars>>

SetStarted(w) ==
    /\ wpc[w] = "last"
    /\ started' = [started EXCEPT ![PoolOf(w)] = TRUE]
    /\ wpc' = [wpc EXCEPT ![w] = "announce"]
    /\ UNCHANGED <<ownVars, queued, cbVars, centres, lock, worked, loopVars, load,
                   toldVars, regVars>>

\* The callback if it is set, else CondSignal, which wakes a waiting owner.
Announce(w) ==
    LET p == PoolOf(w) IN
    /\ wpc[w] = "announce"
    /\ IF cb[p]
       THEN called' = [called EXCEPT ![p] = @ + 1] /\ UNCHANGED opc
       ELSE /\ opc' = IF opc[p] = "waiting" THEN [opc EXCEPT ![p] = "returned"]
                      ELSE opc
            /\ UNCHANGED called
    /\ missed' = IF opc[p] = "push" THEN missed \cup {p} ELSE missed
    /\ wpc' = [wpc EXCEPT ![w] = "enter"]
    /\ UNCHANGED <<toPush, poolRuns, queued, started, cbVars, centres, lock,
                   worked, loopVars, load, regVars>>

\* EventLoop sets m_running, whatever Exit did before.
EnterLoop(w) ==
    /\ wpc[w] = "enter"
    /\ loops' = [loops EXCEPT ![w] = TRUE]
    /\ late' = IF opc[PoolOf(w)] \in {"stopped", "joining"}
               THEN late \cup {w} ELSE late
    /\ wpc' = [wpc EXCEPT ![w] = "loop"]
    /\ UNCHANGED <<ownVars, queued, started, cbVars, centres, lock, worked, load,
                   toldVars, regVars>>

\* EventLoop returns and the centre is destroyed; m_centres still points to it.
LeaveLoop(w) ==
    /\ wpc[w] = "loop" /\ ~loops[w]
    /\ wpc' = [wpc EXCEPT ![w] = "free"]
    /\ UNCHANGED <<ownVars, queued, started, cbVars, centres, lock, worked,
                   loopVars, load, toldVars, regVars>>

----------------------------------------------------------------------------
(* RegisterEvent of pool p by a registrar.                                 *)

MayRegister(p) == started[p]

RegisterCheck(r, p) ==
    /\ rpc[r] = "idle" /\ events < MaxEvents
    /\ opc[p] \in {"push", "waiting", "returned", "halted"} /\ MayRegister(p)
    /\ lock[p] = None
    /\ lock' = [lock EXCEPT ![p] = r]
    /\ rpc' = [rpc EXCEPT ![r] = "scan"]
    /\ next' = [next EXCEPT ![r] = 1]
    /\ best' = [best EXCEPT ![r] = None]
    /\ events' = events + 1
    /\ UNCHANGED <<ownVars, queued, started, cbVars, centres, workVars, loopVars,
                   load>>

\* Mutant: the fullest centre.
Better_More(w, b) == load[w] > load[b]

\* centre->GetEventsNum() < pCentre->GetEventsNum()
Better(w, b) == load[w] < load[b]

\* One turn of the scan; other registrars change loads meanwhile.
Scan(r, p) ==
    /\ rpc[r] = "scan" /\ lock[p] = r /\ next[r] <= Len(centres[p])
    /\ LET w == centres[p][next[r]] IN
       /\ best' = [best EXCEPT ![r] =
                      IF best[r] = None \/ Better(w, best[r]) THEN w ELSE @]
       /\ rpc' = [rpc EXCEPT ![r] = IF Gone(w) THEN "ub" ELSE "scan"]
    /\ next' = [next EXCEPT ![r] = @ + 1]
    /\ UNCHANGED <<ownVars, queued, started, cbVars, centres, lock, workVars,
                   loopVars, load, events>>

ScanDone(r, p) ==
    /\ rpc[r] = "scan" /\ lock[p] = r /\ next[r] > Len(centres[p])
    /\ lock' = [lock EXCEPT ![p] = None]
    /\ rpc' = [rpc EXCEPT ![r] = IF best[r] = None THEN "idle" ELSE "register"]
    /\ UNCHANGED <<ownVars, queued, started, cbVars, centres, workVars, loopVars,
                   load, best, next, events>>

\* RegisterEvent of the chosen centre, without m_mutex of the pool.
RegisterIn(r) ==
    /\ rpc[r] = "register"
    /\ load' = [load EXCEPT ![best[r]] = @ + 1]
    /\ rpc' = [rpc EXCEPT ![r] = IF Gone(best[r]) THEN "ub" ELSE "idle"]
    /\ UNCHANGED <<ownVars, queued, started, cbVars, centres, lock, workVars, loopVars,
                   best, next, events>>

----------------------------------------------------------------------------
OwnerStep(p) ==
    \/ StartPush(p) \/ StartSetCb(p) \/ StartWait(p)
    \/ DestroyPool(p) \/ DestroyReturns(p)

WorkStep(w) ==
    \/ TakeWork(w) \/ AddCentre(w) \/ Count(w) \/ SetStarted(w)
    \/ Announce(w) \/ EnterLoop(w) \/ LeaveLoop(w)

RegisterStep(r) ==
    \/ \E p \in Pools : Scan(r, p) \/ ScanDone(r, p)
    \/ RegisterIn(r)

Next ==
    \/ \E p \in Pools : OwnerStep(p) \/ StartRun(p) \/ StartSpurious(p)
                            \/ Stop(p) \/ DestroyStop(p)
    \/ \E w \in AllWorkers : WorkStep(w)
    \/ \E r \in Registrars :
          RegisterStep(r) \/ \E p \in Pools : RegisterCheck(r, p)

Spec == Init /\ [][Next]_vars

\* Threads are scheduled.  The owner need not destroy the pool, and a
\* condition wait need not return for no reason.
FairSpec ==
    /\ Spec
    /\ \A p \in Pools : WF_vars(OwnerStep(p))
    /\ \A w \in AllWorkers : WF_vars(WorkStep(w)) /\ SF_vars(AddCentre(w))
    /\ \A r \in Registrars : WF_vars(RegisterStep(r))

----------------------------------------------------------------------------
(* Properties.                                                             *)

TypeOK ==
    /\ opc \in [Pools -> {"new", "push", "waiting", "returned", "halted",
                          "stopped", "joining", "gone", "ub"}]
    /\ toPush \in [Pools -> 0..N] /\ queued \in [Pools -> 0..N]
    /\ poolRuns \in [Pools -> BOOLEAN]
    /\ started \in [Pools -> BOOLEAN] /\ cb \in [Pools -> BOOLEAN]
    /\ centres \in [Pools -> Seq(AllWorkers)]
    /\ lock \in [Pools -> Registrars \cup {None}]
    /\ worked \in Nat
    /\ wpc \in [AllWorkers -> {"free", "built", "added", "last", "announce",
                               "enter", "loop"}]
    /\ loops \in [AllWorkers -> BOOLEAN] /\ late \subseteq AllWorkers
    /\ load \in [AllWorkers -> Nat]
    /\ withCb \subseteq CbPools
    /\ called \in [Pools -> Nat] /\ missed \subseteq Pools
    /\ rpc \in [Registrars -> {"idle", "scan", "register", "ub"}]
    /\ best \in [Registrars -> AllWorkers \cup {None}]
    /\ next \in [Registrars -> Nat \ {0}]
    /\ events \in 0..MaxEvents

\* Start was called and Stop was not.
Up(p) == opc[p] \in {"push", "waiting", "returned"}

\* The pool is announced, by m_started, which is set by whoever counts last
\* and read without the mutex, and by the callback of Start, only when every
\* thread of the pool has its centre in m_centres; and the callback runs once.
AnnouncedMeansAll ==
    \A p \in Pools : Up(p) /\ (started[p] \/ called[p] > 0) =>
        called[p] <= 1 /\ Listed(p) = Workers(p)

\* RegisterEvent balances: with events only added, two centres differ by no
\* more than the registrations that can be under way at once.
Balanced ==
    \A p \in Pools : started[p] /\ Up(p) =>
        \A v, w \in Workers(p) : load[v] - load[w] <= Cardinality(Registrars)

\* The destructor returns unless a Work missed its Exit by entering EventLoop
\* after it.
DestroyHangsOnMissedExit ==
    \A p \in Pools : opc[p] = "joining" ~>
        (opc[p] = "gone" \/ \E w \in Workers(p) : w \in late)

\* Start keeps its promise, to return or to call back when the working threads
\* have started, unless the last Work announces it before Start has stored the
\* callback or waits.
StartAnswered ==
    \A p \in Pools : opc[p] = "push" ~>
        \/ p \in withCb /\ called[p] > 0
        \/ p \notin withCb /\ opc[p] = "returned"
        \/ p \in missed \/ ~Up(p)
=============================================================================
