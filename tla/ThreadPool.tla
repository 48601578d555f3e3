----------------------------- MODULE ThreadPool -----------------------------
(***************************************************************************)
(* src/common/thread/ThreadPool: worker threads take tasks from a queue    *)
(* guarded by m_mutex and sleep on m_cond; controllers call Run and Stop,  *)
(* pushers call PushTask, and the owner destroys the pool when nobody else *)
(* uses it.  A condition wait is membership in waiting; m_running is       *)
(* atomic and also read and written outside the mutex.                     *)
(***************************************************************************)
EXTENDS Integers, Sequences, FiniteSets

CONSTANTS
    Workers,     \* m_threads
    Controllers, \* threads calling Stop
    Owner,       \* the controller that also calls Run and the destructor
    Pushers,     \* threads calling PushTask; workers only from a task
    Tasks,       \* each is pushed at most once
    MaxRuns,     \* bound: number of calls of Run
    None

ASSUME PoolAssumption ==
    /\ IsFiniteSet(Workers) /\ Workers # {}
    /\ Owner \in Controllers
    /\ None \notin Workers \cup Controllers \cup Pushers \cup Tasks
    /\ Controllers \cap Workers = {} /\ Controllers \cap Pushers = {}
    /\ MaxRuns \in Nat

VARIABLES
    running,  \* m_running
    lock,     \* owner of m_mutex between two steps
    tq,       \* m_tq
    waiting,  \* workers blocked in CondWait
    wpc,      \* where each worker is in PoolWorkFunc
    task,     \* the task a worker executes
    done,     \* tasks that were executed
    pushed,   \* tasks for which PushTask was called
    pending,  \* the task of a PushTask that has passed the m_running check
    cpc,      \* what each controller does
    toStart,  \* threads Run has not started yet
    started,  \* Thread::m_started
    toJoin,   \* threads a Stop has not joined yet
    joining,  \* the thread a Stop is blocked on
    joined,   \* Thread::m_joined
    runs      \* calls of Run

workVars == <<wpc, task, done>>
pushVars == <<pushed, pending>>
ctlVars  == <<cpc, toStart, started, toJoin, joining, joined, runs>>
vars == <<running, lock, tq, waiting, workVars, pushVars, ctlVars>>

Init ==
    /\ running = FALSE /\ lock = None /\ tq = <<>> /\ waiting = {}
    /\ wpc = [w \in Workers |-> "off"]
    /\ task = [w \in Workers |-> None]
    /\ done = {} /\ pushed = {}
    /\ pending = [p \in Pushers |-> None]
    /\ cpc = [c \in Controllers |-> "idle"]
    /\ toStart = {} /\ started = {}
    /\ toJoin = [c \in Controllers |-> {}]
    /\ joining = [c \in Controllers |-> None]
    /\ joined = {} /\ runs = 0

----------------------------------------------------------------------------
(* PoolWorkFunc.                                                           *)

\* while (m_running)
LoopTop(w) ==
    /\ wpc[w] = "top"
    /\ wpc' = [wpc EXCEPT ![w] = IF running THEN "lock" ELSE "exit"]
    /\ UNCHANGED <<running, lock, tq, waiting, task, done, pushVars, ctlVars>>

\* Mutant: a woken worker does not test the queue again.
AfterLock_If(w) == IF wpc[w] = "wait" THEN "recheck" ELSE "check"

\* Where a worker goes once it has the lock: the head of the inner while.
AfterLock(w) == "check"

\* The MutexGuard, or the return from a condition wait that was woken.
Acquire(w) ==
    /\ wpc[w] = "lock" \/ (wpc[w] = "wait" /\ w \notin waiting)
    /\ lock = None
    /\ lock' = w
    /\ wpc' = [wpc EXCEPT ![w] = AfterLock(w)]
    /\ UNCHANGED <<running, tq, waiting, task, done, pushVars, ctlVars>>

\* while (m_tq.empty() && m_running) CondWait()
Wait(w) ==
    /\ wpc[w] = "check" /\ tq = <<>> /\ running
    /\ waiting' = waiting \cup {w}
    /\ wpc' = [wpc EXCEPT ![w] = "wait"]
    /\ lock' = None
    /\ UNCHANGED <<running, tq, task, done, pushVars, ctlVars>>

LeaveWait(w) ==
    /\ wpc[w] = "check" /\ ~(tq = <<>> /\ running)
    /\ wpc' = [wpc EXCEPT ![w] = "recheck"]
    /\ UNCHANGED <<running, lock, tq, waiting, task, done, pushVars, ctlVars>>

\* if (!m_running) continue
GiveUp(w) ==
    /\ wpc[w] = "recheck" /\ ~running
    /\ lock' = None
    /\ wpc' = [wpc EXCEPT ![w] = "top"]
    /\ UNCHANGED <<running, tq, waiting, task, done, pushVars, ctlVars>>

\* Mutant: the copied task stays in the queue.
PopFront_Keeps == tq' = tq

\* task = m_tq.front() and m_tq.pop()
Front == Head(tq)
PopFront == tq' = Tail(tq)

\* After the assertion that m_tq is not empty.
Take(w) ==
    /\ wpc[w] = "recheck" /\ running /\ tq # <<>>
    /\ task' = [task EXCEPT ![w] = Front]
    /\ PopFront
    /\ lock' = None
    /\ wpc' = [wpc EXCEPT ![w] = "run"]
    /\ UNCHANGED <<running, waiting, done, pushVars, ctlVars>>

Finish(w) ==
    /\ wpc[w] = "run"
    /\ w \in Pushers => pending[w] = None
    /\ done' = done \cup {task[w]}
    /\ task' = [task EXCEPT ![w] = None]
    /\ wpc' = [wpc EXCEPT ![w] = "top"]
    /\ UNCHANGED <<running, lock, tq, waiting, pushVars, ctlVars>>

\* A condition wait may return for no reason.
Spurious(w) ==
    /\ w \in waiting
    /\ waiting' = waiting \ {w}
    /\ UNCHANGED <<running, lock, tq, workVars, pushVars, ctlVars>>

----------------------------------------------------------------------------
(* PushTask: m_running is read before the lock is taken.                   *)

\* The destructor has not begun.
Usable == cpc[Owner] \notin {"destroying", "gone"}

PushCheck(p, t) ==
    /\ p \in Workers \/ Usable
    /\ running /\ t \in Tasks \ pushed /\ pending[p] = None
    /\ p \in Workers => wpc[p] = "run"
    /\ pending' = [pending EXCEPT ![p] = t]
    /\ pushed' = pushed \cup {t}
    /\ UNCHANGED <<running, lock, tq, waiting, workVars, ctlVars>>

\* Mutant: nobody is signalled.
CondSignal_None == UNCHANGED waiting

\* CondSignal wakes one waiter, if there is any.
CondSignal ==
    \/ waiting = {} /\ waiting' = waiting
    \/ \E w \in waiting : waiting' = waiting \ {w}

\* Mutant: Stop signals instead of broadcasting.
CondBroadCast_One == CondSignal

\* CondBroadCast wakes all of them.
CondBroadCast == waiting' = {}

PushTask(p) ==
    /\ pending[p] # None /\ lock = None
    /\ tq' = Append(tq, pending[p])
    /\ CondSignal
    /\ pending' = [pending EXCEPT ![p] = None]
    /\ UNCHANGED <<running, lock, workVars, pushed, ctlVars>>

----------------------------------------------------------------------------
(* Run, Stop and the destructor.                                           *)

RunCall ==
    /\ cpc[Owner] = "idle" /\ ~running /\ runs < MaxRuns
    /\ running' = TRUE
    /\ toStart' = Workers
    /\ cpc' = [cpc EXCEPT ![Owner] = "starting"]
    /\ runs' = runs + 1
    /\ UNCHANGED <<lock, tq, waiting, workVars, pushVars, started, toJoin,
                   joining, joined>>

\* Thread::Start does nothing for a thread that was started before.
StartThread(w) ==
    /\ cpc[Owner] = "starting" /\ w \in toStart
    /\ toStart' = toStart \ {w}
    /\ started' = started \cup {w}
    /\ wpc' = IF w \in started THEN wpc ELSE [wpc EXCEPT ![w] = "top"]
    /\ UNCHANGED <<running, lock, tq, waiting, task, done, pushVars, cpc,
                   toJoin, joining, joined, runs>>

RunReturns ==
    /\ cpc[Owner] = "starting" /\ toStart = {}
    /\ cpc' = [cpc EXCEPT ![Owner] = "idle"]
    /\ UNCHANGED <<running, lock, tq, waiting, workVars, pushVars, toStart,
                   started, toJoin, joining, joined, runs>>

\* The guarded block of Stop; when m_running is false Stop returns at once.
StopCall(c) ==
    /\ Usable /\ cpc[c] = "idle" /\ lock = None /\ running
    /\ running' = FALSE
    /\ CondBroadCast
    /\ toJoin' = [toJoin EXCEPT ![c] = Workers]
    /\ cpc' = [cpc EXCEPT ![c] = "stopping"]
    /\ UNCHANGED <<lock, tq, workVars, pushVars, toStart, started, joining,
                   joined, runs>>

\* Thread::Join returns at once for a thread that was joined.  For one that
\* was never started pthread_join gets no thread and fails.
NothingToJoin(w) == w \in joined \/ w \notin started

\* Thread::Join: m_joined is set before it waits.
JoinBegin(c, w) ==
    /\ cpc[c] \in {"stopping", "destroying"}
    /\ joining[c] = None /\ w \in toJoin[c]
    /\ IF NothingToJoin(w)
       THEN /\ toJoin' = [toJoin EXCEPT ![c] = @ \ {w}]
            /\ UNCHANGED <<joining, joined>>
       ELSE /\ joining' = [joining EXCEPT ![c] = w]
            /\ joined' = joined \cup {w}
            /\ UNCHANGED toJoin
    /\ UNCHANGED <<running, lock, tq, waiting, workVars, pushVars, cpc,
                   toStart, started, runs>>

JoinEnd(c) ==
    /\ joining[c] # None
    /\ wpc[joining[c]] = "exit"
    /\ toJoin' = [toJoin EXCEPT ![c] = @ \ {joining[c]}]
    /\ joining' = [joining EXCEPT ![c] = None]
    /\ UNCHANGED <<running, lock, tq, waiting, workVars, pushVars, cpc,
                   toStart, started, joined, runs>>

StopReturns(c) ==
    /\ cpc[c] = "stopping" /\ toJoin[c] = {}
    /\ cpc' = [cpc EXCEPT ![c] = "idle"]
    /\ UNCHANGED <<running, lock, tq, waiting, workVars, pushVars, toStart,
                   started, toJoin, joining, joined, runs>>

\* The destructor of a running pool joins threads that nobody told to end;
\* that of a stopped one finds them joined, by ~Thread at the latest.
DestroyCall ==
    /\ \A c \in Controllers : cpc[c] = "idle"
    /\ \A p \in Pushers \ Workers : pending[p] = None
    /\ toJoin' = [toJoin EXCEPT ![Owner] = Workers]
    /\ cpc' = [cpc EXCEPT ![Owner] = "destroying"]
    /\ UNCHANGED <<running, lock, tq, waiting, workVars, pushVars, toStart,
                   started, joining, joined, runs>>

DestroyReturns ==
    /\ cpc[Owner] = "destroying" /\ toJoin[Owner] = {}
    /\ cpc' = [cpc EXCEPT ![Owner] = "gone"]
    /\ UNCHANGED <<running, lock, tq, waiting, workVars, pushVars, toStart,
                   started, toJoin, joining, joined, runs>>

----------------------------------------------------------------------------
WorkerStep(w) ==
    \/ LoopTop(w) \/ Acquire(w) \/ Wait(w) \/ LeaveWait(w)
    \/ GiveUp(w) \/ Take(w) \/ Finish(w)

\* What a controller does once it is inside Run, Stop or the destructor.
ControllerStep(c) ==
    \/ c = Owner /\ \/ \E w \in Workers : StartThread(w)
                    \/ RunReturns \/ DestroyReturns
    \/ \E w \in Workers : JoinBegin(c, w)
    \/ JoinEnd(c) \/ StopReturns(c)

Next ==
    \/ \E w \in Workers : WorkerStep(w) \/ Spurious(w)
    \/ \E p \in Pushers : PushTask(p) \/ \E t \in Tasks : PushCheck(p, t)
    \/ RunCall \/ DestroyCall
    \/ \E c \in Controllers : StopCall(c) \/ ControllerStep(c)

Spec == Init /\ [][Next]_vars

\* Every thread is scheduled, every task ends, and the mutex starves nobody:
\* a thread that keeps finding it free at times gets it, however often other
\* workers wake up spuriously and take it.
FairSpec ==
    /\ Spec
    /\ \A w \in Workers : WF_vars(WorkerStep(w)) /\ SF_vars(Acquire(w))
    /\ \A p \in Pushers : SF_vars(PushTask(p))
    /\ \A c \in Controllers : WF_vars(ControllerStep(c))

----------------------------------------------------------------------------
(* Properties.                                                             *)

TypeOK ==
    /\ running \in BOOLEAN
    /\ lock \in Workers \cup {None}
    /\ tq \in Seq(Tasks)
    /\ waiting \subseteq Workers
    /\ wpc \in [Workers -> {"off", "top", "lock", "check", "wait", "recheck",
                            "run", "exit"}]
    /\ task \in [Workers -> Tasks \cup {None}]
    /\ \A w \in Workers : wpc[w] = "run" => task[w] \in Tasks
    /\ done \subseteq Tasks /\ pushed \subseteq Tasks
    /\ pending \in [Pushers -> Tasks \cup {None}]
    /\ cpc \in [Controllers -> {"idle", "starting", "stopping", "destroying",
                                "gone"}]
    /\ toStart \subseteq Workers /\ started \subseteq Workers
    /\ toJoin \in [Controllers -> SUBSET Workers]
    /\ joining \in [Controllers -> Workers \cup {None}]
    /\ joined \subseteq Workers
    /\ runs \in Nat

\* The assertion of PoolWorkFunc: a worker that got past the second m_running
\* check finds a task.
QueueNotEmptyAtTake ==
    \A w \in Workers : wpc[w] = "recheck" /\ running => tq # <<>>

\* ThreadPool.h fears that the broadcast of Stop falls between the m_running
\* check and the wait of a worker: no worker sleeps in a stopped pool.
NoSleeperAfterStop == ~running => waiting = {}

\* Workers on their way to the check of the queue.
Coming == {w \in Workers :
    \/ wpc[w] \in {"top", "lock", "check", "recheck"}
    \/ wpc[w] = "wait" /\ w \notin waiting}

\* No task lies in the queue while a worker sleeps and nobody is coming for
\* it: one signal per push is enough although woken workers can be overtaken.
NoTaskLeftToSleepers ==
    running /\ waiting # {} => Len(tq) <= Cardinality(Coming)

\* A worker sleeps only while the pool runs and nothing is left for it to do.
NoneSleepsWrongly == NoSleeperAfterStop /\ NoTaskLeftToSleepers

\* Every task is in one place: not pushed, pushed and not queued yet, queued
\* once, with one worker, or done.
Places(t) ==
    Cardinality({p \in Pushers : pending[p] = t})
    + Cardinality({i \in DOMAIN tq : tq[i] = t})
    + Cardinality({w \in Workers : task[w] = t})
    + (IF t \in done THEN 1 ELSE 0)
ExactlyOnePlace == \A t \in Tasks : Places(t) = IF t \in pushed THEN 1 ELSE 0

\* When the only Stop has returned no worker is inside PoolWorkFunc: the owner
\* may destroy what the tasks used.
StopMeansExited ==
    ~running /\ cpc[Owner] \in {"idle", "gone"} =>
        \A w \in Workers : wpc[w] \in {"off", "exit"}

\* Stop returns if the tasks do, and the destructor of a pool that was stopped
\* returns.
StopReturnsEventually ==
    /\ \A c \in Controllers : cpc[c] = "stopping" ~> cpc[c] = "idle"
    /\ cpc[Owner] = "destroying" ~> (cpc[Owner] = "gone" \/ running)

\* A queued task is executed unless the pool stops, also when a worker sleeps
\* or other workers compete for the mutex; but only in the first run, since a
\* second Run starts no thread again.
QueuedIsExecuted ==
    \A t \in Tasks : (\E i \in DOMAIN tq : tq[i] = t)
                        ~> (t \in done \/ ~running \/ runs > 1)
=============================================================================
