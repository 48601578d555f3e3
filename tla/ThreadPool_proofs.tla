-------------------------- MODULE ThreadPool_proofs --------------------------
(***************************************************************************)
(* Proofs about ThreadPool, for any number of workers, pushers, tasks and  *)
(* runs.                                                                   *)
(***************************************************************************)
EXTENDS ThreadPool, FiniteSetTheorems, TLAPS

----------------------------------------------------------------------------
(* Queues without repetition.                                              *)

Distinct(q) == \A i, j \in DOMAIN q : q[i] = q[j] => i = j
In(q, t) == \E i \in DOMAIN q : q[i] = t

\* A queue without repetition that takes something new at its back.
LEMMA AppendPlaces ==
    ASSUME NEW S, NEW q \in Seq(S), NEW u \in S, Distinct(q), ~In(q, u)
    PROVE  /\ Distinct(Append(q, u))
           /\ \A t : In(Append(q, u), t) <=> t = u \/ In(q, t)
<1>1. /\ Len(q) \in Nat /\ DOMAIN q = 1 .. Len(q)
      /\ DOMAIN Append(q, u) = 1 .. (Len(q) + 1)
      /\ Append(q, u)[Len(q) + 1] = u
      /\ \A i \in 1 .. Len(q) : Append(q, u)[i] = q[i]
  OBVIOUS
<1>. QED BY <1>1 DEF Distinct, In

\* A queue without repetition that loses its front.
LEMMA TailPlaces ==
    ASSUME NEW S, NEW q \in Seq(S), q # <<>>, Distinct(q)
    PROVE  /\ Head(q) \in S /\ In(q, Head(q))
           /\ Distinct(Tail(q))
           /\ \A t : In(Tail(q), t) <=> t # Head(q) /\ In(q, t)
<1>1. /\ Len(q) \in Nat \ {0} /\ DOMAIN q = 1 .. Len(q)
      /\ Head(q) = q[1] /\ q[1] \in S
      /\ DOMAIN Tail(q) = 1 .. (Len(q) - 1)
      /\ \A i \in 1 .. (Len(q) - 1) : Tail(q)[i] = q[i + 1]
  OBVIOUS
<1>2. Distinct(Tail(q))
  <2>. SUFFICES ASSUME NEW i \in DOMAIN Tail(q), NEW j \in DOMAIN Tail(q),
                       Tail(q)[i] = Tail(q)[j]
                PROVE  i = j
    BY DEF Distinct
  <2>1. i + 1 = j + 1 BY <1>1 DEF Distinct
  <2>2. i \in Nat /\ j \in Nat BY <1>1
  <2>. QED BY <2>1, <2>2
<1>3. ASSUME NEW t, In(Tail(q), t) PROVE t # Head(q) /\ In(q, t)
  <2>1. PICK i \in 1 .. (Len(q) - 1) : q[i + 1] = t BY <1>1, <1>3 DEF In
  <2>2. i + 1 \in DOMAIN q /\ i + 1 # 1 /\ 1 \in DOMAIN q BY <1>1, <2>1
  <2>. QED BY <1>1, <2>1, <2>2 DEF In, Distinct
<1>4. ASSUME NEW t, t # Head(q), In(q, t) PROVE In(Tail(q), t)
  <2>1. PICK i \in 1 .. Len(q) : q[i] = t BY <1>1, <1>4 DEF In
  <2>2. i - 1 \in 1 .. (Len(q) - 1) /\ (i - 1) + 1 = i BY <1>1, <1>4, <2>1
  <2>. QED BY <1>1, <2>1, <2>2 DEF In
<1>5. In(q, Head(q)) BY <1>1 DEF In
<1>. QED BY <1>1, <1>2, <1>3, <1>4, <1>5

----------------------------------------------------------------------------

\* Type correctness of the pool: m_tq only ever holds tasks and every thread
\* is at a place of its function.
THEOREM TypeCorrect == Spec => []TypeOK
<1>. USE PoolAssumption
<1>1. Init => TypeOK
  <2>. SUFFICES ASSUME Init PROVE TypeOK
    OBVIOUS
  <2>1. tq \in Seq(Tasks) BY DEF Init
  <2>2. toJoin \in [Controllers -> SUBSET Workers] BY DEF Init
  <2>. QED BY <2>1, <2>2 DEF Init, TypeOK
<1>2. TypeOK /\ [Next]_vars => TypeOK'
  <2>. SUFFICES ASSUME TypeOK, [Next]_vars PROVE TypeOK'
    OBVIOUS
  <2>. USE DEF TypeOK, workVars, pushVars, ctlVars,
         AfterLock, Front, PopFront, CondBroadCast, NothingToJoin
  <2>1. ASSUME NEW w \in Workers, WorkerStep(w) PROVE TypeOK'
    <3>1. CASE LoopTop(w) BY <3>1 DEF LoopTop
    <3>2. CASE Acquire(w) BY <3>2 DEF Acquire
    <3>3. CASE Wait(w) BY <3>3 DEF Wait
    <3>4. CASE LeaveWait(w) BY <3>4 DEF LeaveWait
    <3>5. CASE GiveUp(w) BY <3>5 DEF GiveUp
    <3>6. CASE Take(w) BY <3>6 DEF Take
    <3>7. CASE Finish(w) BY <3>7 DEF Finish
    <3>. QED BY <2>1, <3>1, <3>2, <3>3, <3>4, <3>5, <3>6, <3>7 DEF WorkerStep
  <2>2. ASSUME NEW w \in Workers, Spurious(w) PROVE TypeOK'
    BY <2>2 DEF Spurious
  <2>3. ASSUME NEW p \in Pushers, PushTask(p) PROVE TypeOK'
    <3>1. waiting' \subseteq Workers BY <2>3 DEF PushTask, CondSignal
    <3>2. pending[p] \in Tasks BY <2>3 DEF PushTask
    <3>3. tq' \in Seq(Tasks) BY <2>3, <3>2 DEF PushTask
    <3>. QED BY <2>3, <3>1, <3>3 DEF PushTask
  <2>4. ASSUME NEW p \in Pushers, NEW t \in Tasks, PushCheck(p, t) PROVE TypeOK'
    BY <2>4 DEF PushCheck
  <2>5. ASSUME RunCall PROVE TypeOK'
    BY <2>5 DEF RunCall
  <2>6. ASSUME NEW c \in Controllers, StopCall(c) PROVE TypeOK'
    BY <2>6 DEF StopCall
  <2>7. ASSUME NEW c \in Controllers, ControllerStep(c) PROVE TypeOK'
    <3>1. ASSUME NEW w \in Workers, StartThread(w) PROVE TypeOK'
      BY <3>1 DEF StartThread
    <3>2. CASE RunReturns BY <3>2 DEF RunReturns
    <3>3. ASSUME NEW w \in Workers, JoinBegin(c, w) PROVE TypeOK'
      BY <3>3 DEF JoinBegin
    <3>4. CASE JoinEnd(c) BY <3>4 DEF JoinEnd
    <3>5. CASE StopReturns(c) BY <3>5 DEF StopReturns
    <3>6. CASE DestroyReturns BY <3>6 DEF DestroyReturns
    <3>. QED BY <2>7, <3>1, <3>2, <3>3, <3>4, <3>5, <3>6 DEF ControllerStep
  <2>8. CASE UNCHANGED vars BY <2>8 DEF vars
  <2>9. CASE DestroyCall BY <2>9 DEF DestroyCall
  <2>. QED BY <2>1, <2>2, <2>3, <2>4, <2>5, <2>6, <2>7, <2>8, <2>9 DEF Next
<1>. QED BY <1>1, <1>2, PTL DEF Spec

----------------------------------------------------------------------------
(* The condition variable.                                                 *)

SleepInv ==
    /\ \A w \in Workers : w \in waiting => wpc[w] = "wait"
    /\ \A w \in Workers : w \notin started => wpc[w] = "off"
    /\ NoSleeperAfterStop
    /\ NoTaskLeftToSleepers

\* The workers that are coming form a finite set, and one of them more or less
\* counts for one.
LEMMA ComingFinite ==
    /\ IsFiniteSet(Coming) /\ Cardinality(Coming) \in Nat
    /\ IsFiniteSet(Coming') /\ Cardinality(Coming') \in Nat
BY PoolAssumption, FS_Subset, FS_CardinalityType DEF Coming

LEMMA ComingGrows ==
    ASSUME Coming \subseteq Coming'
    PROVE  Cardinality(Coming) <= Cardinality(Coming')
BY ComingFinite, FS_Subset

LEMMA ComingPlus ==
    ASSUME NEW w, w \notin Coming, Coming' = Coming \cup {w}
    PROVE  Cardinality(Coming') = Cardinality(Coming) + 1
BY ComingFinite, FS_AddElement

LEMMA ComingMinus ==
    ASSUME NEW w, w \in Coming, Coming' = Coming \ {w}
    PROVE  Cardinality(Coming') = Cardinality(Coming) - 1
BY ComingFinite, FS_RemoveElement

\* No step, of any number of threads, loses a wake-up.
LEMMA SleepStep ==
    ASSUME TypeOK, SleepInv, [Next]_vars
    PROVE  SleepInv'
<1>. USE PoolAssumption
     DEF workVars, pushVars, ctlVars, AfterLock, Front, PopFront, CondBroadCast
<1>1. ASSUME NEW w \in Workers, WorkerStep(w) PROVE SleepInv'
  <2>1. CASE LoopTop(w)
    <3>1. running => Coming \subseteq Coming'
      BY <2>1 DEF LoopTop, Coming, TypeOK
    <3>. QED BY <2>1, <3>1, ComingGrows, ComingFinite DEF
           LoopTop, SleepInv, TypeOK, NoSleeperAfterStop, NoTaskLeftToSleepers
  <2>2. CASE Acquire(w)
    <3>1. Coming \subseteq Coming'
      BY <2>2 DEF Acquire, Coming, TypeOK
    <3>. QED BY <2>2, <3>1, ComingGrows, ComingFinite DEF
           Acquire, SleepInv, TypeOK, NoSleeperAfterStop, NoTaskLeftToSleepers
  <2>3. CASE Wait(w)
    BY <2>3, ComingFinite DEF
       Wait, SleepInv, TypeOK, NoSleeperAfterStop, NoTaskLeftToSleepers
  <2>4. CASE LeaveWait(w)
    <3>1. Coming \subseteq Coming'
      BY <2>4 DEF LeaveWait, Coming, TypeOK
    <3>. QED BY <2>4, <3>1, ComingGrows, ComingFinite DEF
           LeaveWait, SleepInv, TypeOK, NoSleeperAfterStop, NoTaskLeftToSleepers
  <2>5. CASE GiveUp(w)
    BY <2>5 DEF GiveUp, SleepInv, TypeOK, NoSleeperAfterStop, NoTaskLeftToSleepers
  <2>6. CASE Take(w)
    <3>1. w \in Coming /\ Coming' = Coming \ {w}
      BY <2>6 DEF Take, Coming, TypeOK
    <3>2. Len(tq') = Len(tq) - 1 /\ Len(tq) \in Nat
      BY <2>6 DEF Take, TypeOK
    <3>3. Cardinality(Coming') = Cardinality(Coming) - 1
      BY <3>1, ComingMinus
    <3>4. running /\ waiting # {} => Len(tq) <= Cardinality(Coming)
      BY DEF SleepInv, NoTaskLeftToSleepers
    <3>5. running' = running /\ waiting' = waiting
      BY <2>6 DEF Take
    <3>6. NoTaskLeftToSleepers'
      BY <3>2, <3>3, <3>4, <3>5, ComingFinite DEF NoTaskLeftToSleepers
    <3>. QED BY <2>6, <3>6 DEF Take, SleepInv, TypeOK, NoSleeperAfterStop
  <2>7. CASE Finish(w)
    <3>1. Coming \subseteq Coming'
      BY <2>7 DEF Finish, Coming, TypeOK
    <3>. QED BY <2>7, <3>1, ComingGrows, ComingFinite DEF
           Finish, SleepInv, TypeOK, NoSleeperAfterStop, NoTaskLeftToSleepers
  <2>. QED BY <1>1, <2>1, <2>2, <2>3, <2>4, <2>5, <2>6, <2>7 DEF WorkerStep
<1>2. ASSUME NEW w \in Workers, Spurious(w) PROVE SleepInv'
  <2>1. Coming \subseteq Coming'
    BY <1>2 DEF Spurious, Coming, TypeOK
  <2>. QED BY <1>2, <2>1, ComingGrows, ComingFinite DEF
         Spurious, SleepInv, TypeOK, NoSleeperAfterStop, NoTaskLeftToSleepers
<1>3. ASSUME NEW p \in Pushers, PushTask(p) PROVE SleepInv'
  <2>1. CASE waiting = {} /\ waiting' = waiting
    BY <1>3, <2>1 DEF
       PushTask, SleepInv, TypeOK, NoSleeperAfterStop, NoTaskLeftToSleepers
  <2>2. ASSUME NEW w \in waiting, waiting' = waiting \ {w} PROVE SleepInv'
    <3>1. w \in Workers /\ wpc[w] = "wait" /\ wpc' = wpc
      BY <1>3, <2>2 DEF PushTask, SleepInv, TypeOK
    <3>2. w \notin Coming /\ Coming' = Coming \cup {w}
      BY <2>2, <3>1 DEF Coming
    <3>3. pending[p] \in Tasks
      BY <1>3 DEF PushTask, TypeOK
    <3>4. Len(tq') = Len(tq) + 1 /\ Len(tq) \in Nat
      BY <1>3, <3>3 DEF PushTask, TypeOK
    <3>5. Cardinality(Coming') = Cardinality(Coming) + 1
      BY <3>2, ComingPlus
    <3>6. running' => Len(tq) <= Cardinality(Coming)
      BY <1>3, <2>2 DEF PushTask, SleepInv, NoTaskLeftToSleepers
    <3>7. NoTaskLeftToSleepers'
      BY <3>4, <3>5, <3>6, ComingFinite DEF NoTaskLeftToSleepers
    <3>. QED BY <1>3, <2>2, <3>7 DEF PushTask, SleepInv, TypeOK, NoSleeperAfterStop
  <2>. QED BY <1>3, <2>1, <2>2 DEF PushTask, CondSignal
<1>4. ASSUME NEW p \in Pushers, NEW t \in Tasks, PushCheck(p, t) PROVE SleepInv'
  <2>1. Coming' = Coming BY <1>4 DEF PushCheck, Coming
  <2>. QED BY <1>4, <2>1 DEF
         PushCheck, SleepInv, NoSleeperAfterStop, NoTaskLeftToSleepers
<1>5. ASSUME RunCall PROVE SleepInv'
  BY <1>5 DEF RunCall, SleepInv, NoSleeperAfterStop, NoTaskLeftToSleepers
<1>6. ASSUME NEW c \in Controllers, StopCall(c) PROVE SleepInv'
  BY <1>6 DEF StopCall, SleepInv, NoSleeperAfterStop, NoTaskLeftToSleepers
<1>7. ASSUME NEW c \in Controllers, ControllerStep(c) PROVE SleepInv'
  <2>1. ASSUME NEW w \in Workers, StartThread(w) PROVE SleepInv'
    <3>1. Coming \subseteq Coming'
      BY <2>1 DEF StartThread, Coming, TypeOK
    <3>. QED BY <2>1, <3>1, ComingGrows, ComingFinite DEF
           StartThread, SleepInv, TypeOK, NoSleeperAfterStop, NoTaskLeftToSleepers
  <2>2. ASSUME UNCHANGED <<running, tq, waiting, wpc, started>> PROVE SleepInv'
    <3>1. Coming' = Coming BY <2>2 DEF Coming
    <3>. QED BY <2>2, <3>1 DEF SleepInv, NoSleeperAfterStop, NoTaskLeftToSleepers
  <2>. QED BY <1>7, <2>1, <2>2 DEF
         ControllerStep, RunReturns, JoinBegin, JoinEnd, StopReturns, DestroyReturns
<1>8. CASE UNCHANGED vars
  <2>1. Coming' = Coming BY <1>8 DEF vars, Coming
  <2>. QED BY <1>8, <2>1 DEF vars, SleepInv, NoSleeperAfterStop, NoTaskLeftToSleepers
<1>9. CASE DestroyCall
  <2>1. Coming' = Coming BY <1>9 DEF DestroyCall, Coming
  <2>. QED BY <1>9, <2>1 DEF
         DestroyCall, SleepInv, NoSleeperAfterStop, NoTaskLeftToSleepers
<1>. QED BY <1>1, <1>2, <1>3, <1>4, <1>5, <1>6, <1>7, <1>8, <1>9 DEF Next

LEMMA SleepInvariant == Spec => []SleepInv
<1>1. Init => SleepInv
  BY PoolAssumption DEF Init, SleepInv, NoSleeperAfterStop, NoTaskLeftToSleepers
<1>2. TypeOK /\ SleepInv /\ [Next]_vars => SleepInv'
  BY SleepStep
<1>. QED BY <1>1, <1>2, TypeCorrect, PTL DEF Spec

\* The fear of ThreadPool.h is unfounded: the broadcast of Stop reaches every
\* worker, for it holds the mutex under which workers test m_running and wait.
THEOREM StopWakesEveryone == Spec => []NoSleeperAfterStop
<1>1. SleepInv => NoSleeperAfterStop BY DEF SleepInv
<1>. QED BY <1>1, SleepInvariant, PTL

\* One CondSignal per task suffices: while workers sleep, each queued task has
\* a worker of its own on the way to the queue.
THEOREM SignalPerTaskSuffices == Spec => []NoTaskLeftToSleepers
<1>1. SleepInv => NoTaskLeftToSleepers BY DEF SleepInv
<1>. QED BY <1>1, SleepInvariant, PTL

\* Both together, for any number of threads, tasks, runs and spurious wake-ups.
THEOREM SleepersAreRight == Spec => []NoneSleepsWrongly
<1>1. SleepInv => NoneSleepsWrongly BY DEF SleepInv, NoneSleepsWrongly
<1>. QED BY <1>1, SleepInvariant, PTL

----------------------------------------------------------------------------
(* A pool with one controller: Run and Stop alternate.                     *)

OneController == Controllers = {Owner}

OwnerInv ==
    /\ \A w \in Workers : wpc[w] \in {"check", "recheck"} => lock = w
    /\ \A w \in Workers : w \notin started => wpc[w] = "off"
    /\ cpc[Owner] = "starting" => running
    /\ cpc[Owner] = "stopping" => ~running
    /\ joining[Owner] # None =>
          cpc[Owner] \in {"stopping", "destroying"} /\ joining[Owner] \in toJoin[Owner]
    /\ \A w \in joined : wpc[w] = "exit" \/ joining[Owner] = w
    /\ cpc[Owner] = "stopping" =>
          \A w \in Workers : w \in toJoin[Owner] \/ wpc[w] \in {"off", "exit"}
    /\ cpc[Owner] = "destroying" /\ ~running =>
          \A w \in Workers : wpc[w] \in {"off", "exit"}
    /\ StopMeansExited
    /\ QueueNotEmptyAtTake

\* A worker's step disturbs the mutex and the queue; those of the owner decide
\* when m_running may change.
LEMMA OwnerStep ==
    ASSUME OneController, TypeOK, OwnerInv, [Next]_vars
    PROVE  OwnerInv'
<1>. USE PoolAssumption
     DEF workVars, pushVars, ctlVars, AfterLock, Front, PopFront,
         CondBroadCast, NothingToJoin, OneController, TypeOK, OwnerInv,
         StopMeansExited, QueueNotEmptyAtTake
<1>1. ASSUME NEW w \in Workers, WorkerStep(w) PROVE OwnerInv'
  <2>1. CASE LoopTop(w) BY <2>1 DEF LoopTop
  <2>2. CASE Acquire(w) BY <2>2 DEF Acquire
  <2>3. CASE Wait(w) BY <2>3 DEF Wait
  <2>4. CASE LeaveWait(w) BY <2>4 DEF LeaveWait
  <2>5. CASE GiveUp(w) BY <2>5 DEF GiveUp
  <2>6. CASE Take(w) BY <2>6 DEF Take
  <2>7. CASE Finish(w) BY <2>7 DEF Finish
  <2>. QED BY <1>1, <2>1, <2>2, <2>3, <2>4, <2>5, <2>6, <2>7 DEF WorkerStep
<1>2. ASSUME NEW w \in Workers, Spurious(w) PROVE OwnerInv'
  BY <1>2 DEF Spurious
<1>3. ASSUME NEW p \in Pushers, PushTask(p) PROVE OwnerInv'
  <2>1. tq' # <<>> BY <1>3 DEF PushTask
  <2>. QED BY <1>3, <2>1 DEF PushTask
<1>4. ASSUME NEW p \in Pushers, NEW t \in Tasks, PushCheck(p, t) PROVE OwnerInv'
  BY <1>4 DEF PushCheck
<1>5. ASSUME RunCall PROVE OwnerInv'
  BY <1>5 DEF RunCall
<1>6. ASSUME NEW c \in Controllers, StopCall(c) PROVE OwnerInv'
  BY <1>6 DEF StopCall
<1>7. ASSUME NEW c \in Controllers, ControllerStep(c) PROVE OwnerInv'
  <2>1. ASSUME NEW w \in Workers, StartThread(w) PROVE OwnerInv'
    BY <2>1 DEF StartThread
  <2>2. CASE RunReturns BY <2>2 DEF RunReturns
  <2>3. ASSUME NEW w \in Workers, JoinBegin(c, w) PROVE OwnerInv'
    BY <2>3 DEF JoinBegin
  <2>4. CASE JoinEnd(c) BY <2>4 DEF JoinEnd
  <2>5. CASE StopReturns(c) BY <2>5 DEF StopReturns
  <2>6. CASE DestroyReturns BY <2>6 DEF DestroyReturns
  <2>. QED BY <1>7, <2>1, <2>2, <2>3, <2>4, <2>5, <2>6 DEF ControllerStep
<1>8. CASE UNCHANGED vars BY <1>8 DEF vars
<1>9. CASE DestroyCall BY <1>9 DEF DestroyCall
<1>. QED BY <1>1, <1>2, <1>3, <1>4, <1>5, <1>6, <1>7, <1>8, <1>9 DEF Next

LEMMA OwnerInvariant ==
    ASSUME OneController
    PROVE  Spec => []OwnerInv
<1>1. Init => OwnerInv
  BY PoolAssumption DEF Init, OwnerInv, StopMeansExited, QueueNotEmptyAtTake
<1>2. TypeOK /\ OwnerInv /\ [Next]_vars => OwnerInv'
  BY OwnerStep
<1>. QED BY <1>1, <1>2, TypeCorrect, PTL DEF Spec

\* The assertion of PoolWorkFunc holds when one thread calls Run and Stop, for
\* any number of runs, although m_running is set outside the mutex.
THEOREM AssertionHolds ==
    ASSUME OneController
    PROVE  Spec => []QueueNotEmptyAtTake
<1>1. OwnerInv => QueueNotEmptyAtTake BY DEF OwnerInv
<1>. QED BY <1>1, OwnerInvariant, PTL

\* When Stop of the only controller, or the destructor of a stopped pool,
\* returns every worker has left.
THEOREM StopWaitsForAll ==
    ASSUME OneController
    PROVE  Spec => []StopMeansExited
<1>1. OwnerInv => StopMeansExited BY DEF OwnerInv
<1>. QED BY <1>1, OwnerInvariant, PTL

----------------------------------------------------------------------------
(* Where a task is.                                                        *)

\* A worker has a task exactly while it runs it.
TaskWhileRun ==
    \A w \in Workers : /\ w \notin started => wpc[w] = "off"
                       /\ wpc[w] # "run" => task[w] = None

Queued(t)  == In(tq, t)
Pending(t) == \E p \in Pushers : pending[p] = t
RunBy(t)   == \E w \in Workers : task[w] = t

\* No two places of the same kind hold a task,
NeverTwice ==
    /\ Distinct(tq)
    /\ \A t \in Tasks :
         /\ \A p, q \in Pushers : pending[p] = t /\ pending[q] = t => p = q
         /\ \A v, w \in Workers : task[v] = t /\ task[w] = t => v = w

\* nor do two of different kinds, and one does if the task was pushed.
OneKind ==
    \A t \in Tasks :
        /\ t \in pushed <=> Pending(t) \/ Queued(t) \/ RunBy(t) \/ t \in done
        /\ Pending(t) => ~Queued(t) /\ ~RunBy(t) /\ t \notin done
        /\ Queued(t) => ~RunBy(t) /\ t \notin done
        /\ RunBy(t) => t \notin done

PlaceInv == TaskWhileRun /\ NeverTwice /\ OneKind

\* PushTask moves a task from its caller to the back of the queue.
LEMMA PushStep ==
    ASSUME TypeOK, PlaceInv, NEW p \in Pushers, PushTask(p)
    PROVE  PlaceInv'
<1>. USE PoolAssumption DEF PlaceInv, TypeOK
<1>. DEFINE u == pending[p]
<1>1. /\ u \in Tasks /\ tq' = Append(tq, u)
      /\ pending' = [pending EXCEPT ![p] = None]
      /\ UNCHANGED <<wpc, task, done, pushed, started>>
  BY DEF PushTask, workVars, ctlVars
<1>2. ~In(tq, u) /\ ~RunBy(u) /\ u \notin done /\ u \in pushed
  BY <1>1 DEF OneKind, Pending, Queued
<1>3. Distinct(tq') /\ \A t : In(tq', t) <=> t = u \/ In(tq, t)
  <2>1. Distinct(tq) BY DEF NeverTwice
  <2>. QED BY <1>1, <1>2, <2>1, AppendPlaces
<1>4. \A t \in Tasks : Pending(t)' <=> Pending(t) /\ t # u
  BY <1>1 DEF Pending, NeverTwice
<1>5. \A t \in Tasks : RunBy(t)' <=> RunBy(t) BY <1>1 DEF RunBy
<1>6. TaskWhileRun' BY <1>1 DEF TaskWhileRun
<1>7. NeverTwice' BY <1>1, <1>3 DEF NeverTwice
<1>8. OneKind'
  <2>1. \A t \in Tasks : Queued(t)' <=> t = u \/ Queued(t) BY <1>3 DEF Queued
  <2>2. Pending(u) BY <1>1 DEF Pending
  <2>. QED BY <1>1, <1>2, <1>4, <1>5, <2>1, <2>2 DEF OneKind, Queued
<1>. QED BY <1>6, <1>7, <1>8

\* Take moves the front of the queue to a worker.
LEMMA TakeStep ==
    ASSUME TypeOK, PlaceInv, NEW w \in Workers, Take(w)
    PROVE  PlaceInv'
<1>. USE PoolAssumption DEF PlaceInv, TypeOK
<1>. DEFINE u == Head(tq)
<1>1. /\ tq # <<>> /\ tq' = Tail(tq) /\ task' = [task EXCEPT ![w] = u]
      /\ wpc' = [wpc EXCEPT ![w] = "run"] /\ wpc[w] = "recheck"
      /\ UNCHANGED <<pending, done, pushed, started>>
  BY DEF Take, Front, PopFront, pushVars, ctlVars
<1>2. /\ u \in Tasks /\ In(tq, u) /\ Distinct(tq')
      /\ \A t : In(tq', t) <=> t # u /\ In(tq, t)
  <2>1. Distinct(tq) BY DEF NeverTwice
  <2>. QED BY <1>1, <2>1, TailPlaces
<1>3. ~Pending(u) /\ ~RunBy(u) /\ u \notin done /\ u \in pushed
  BY <1>2 DEF OneKind, Queued
<1>4. task[w] = None BY <1>1 DEF TaskWhileRun
<1>5. \A t \in Tasks : RunBy(t)' <=> t = u \/ RunBy(t)
  BY <1>1, <1>2, <1>4 DEF RunBy
<1>6. /\ \A t \in Tasks : Pending(t)' <=> Pending(t)
      /\ \A t \in Tasks : Queued(t)' <=> t # u /\ Queued(t)
  <2>1. \A t \in Tasks : Pending(t)' <=> Pending(t) BY <1>1 DEF Pending
  <2>2. \A t \in Tasks : Queued(t)' <=> t # u /\ Queued(t) BY <1>2 DEF Queued
  <2>. QED BY <2>1, <2>2
<1>7. TaskWhileRun' BY <1>1 DEF TaskWhileRun
<1>8. NeverTwice' BY <1>1, <1>2, <1>3 DEF NeverTwice, RunBy
<1>9. OneKind'
  <2>1. Queued(u) BY <1>2 DEF Queued
  <2>. QED BY <1>1, <1>2, <1>3, <1>5, <1>6, <2>1 DEF OneKind, Queued
<1>. QED BY <1>7, <1>8, <1>9

\* Finish moves a task from its worker to the done ones.
LEMMA FinishStep ==
    ASSUME TypeOK, PlaceInv, NEW w \in Workers, Finish(w)
    PROVE  PlaceInv'
<1>. USE PoolAssumption DEF PlaceInv, TypeOK
<1>. DEFINE u == task[w]
<1>1. /\ u \in Tasks /\ task' = [task EXCEPT ![w] = None]
      /\ done' = done \cup {u} /\ wpc' = [wpc EXCEPT ![w] = "top"]
      /\ wpc[w] = "run" /\ UNCHANGED <<tq, pending, pushed, started>>
  BY DEF Finish, pushVars, ctlVars
<1>2. RunBy(u) BY <1>1 DEF RunBy
<1>3. ~Pending(u) /\ ~Queued(u) /\ u \in pushed BY <1>1, <1>2 DEF OneKind
<1>4. /\ \A t \in Tasks : RunBy(t)' <=> RunBy(t) /\ t # u
      /\ \A t \in Tasks : Pending(t)' <=> Pending(t)
      /\ \A t \in Tasks : Queued(t)' <=> Queued(t)
  <2>1. \A t \in Tasks : RunBy(t)' <=> RunBy(t) /\ t # u
    BY <1>1 DEF RunBy, NeverTwice
  <2>2. \A t \in Tasks : Pending(t)' <=> Pending(t) BY <1>1 DEF Pending
  <2>3. \A t \in Tasks : Queued(t)' <=> Queued(t) BY <1>1 DEF Queued, In
  <2>. QED BY <2>1, <2>2, <2>3
<1>5. TaskWhileRun' BY <1>1 DEF TaskWhileRun
<1>6. NeverTwice' BY <1>1 DEF NeverTwice
<1>7. OneKind' BY <1>1, <1>2, <1>3, <1>4 DEF OneKind, Queued
<1>. QED BY <1>5, <1>6, <1>7

\* PushCheck is the beginning of a task.
LEMMA CheckStep ==
    ASSUME TypeOK, PlaceInv, NEW p \in Pushers, NEW u \in Tasks, PushCheck(p, u)
    PROVE  PlaceInv'
<1>. USE PoolAssumption DEF PlaceInv, TypeOK
<1>1. /\ u \notin pushed /\ pending[p] = None /\ pushed' = pushed \cup {u}
      /\ pending' = [pending EXCEPT ![p] = u]
      /\ UNCHANGED <<tq, task, done, wpc, started>>
  BY DEF PushCheck, workVars, ctlVars
<1>2. ~Pending(u) /\ ~Queued(u) /\ ~RunBy(u) /\ u \notin done
  BY <1>1 DEF OneKind
<1>3. /\ \A t \in Tasks : Pending(t)' <=> t = u \/ Pending(t)
      /\ \A t \in Tasks : RunBy(t)' <=> RunBy(t)
      /\ \A t \in Tasks : Queued(t)' <=> Queued(t)
  <2>1. \A t \in Tasks : Pending(t)' <=> t = u \/ Pending(t) BY <1>1 DEF Pending
  <2>2. \A t \in Tasks : RunBy(t)' <=> RunBy(t) BY <1>1 DEF RunBy
  <2>3. \A t \in Tasks : Queued(t)' <=> Queued(t) BY <1>1 DEF Queued, In
  <2>. QED BY <2>1, <2>2, <2>3
<1>4. TaskWhileRun' BY <1>1 DEF TaskWhileRun
<1>5. NeverTwice' BY <1>1, <1>2 DEF NeverTwice, Pending
<1>6. OneKind' BY <1>1, <1>2, <1>3 DEF OneKind, Queued
<1>. QED BY <1>4, <1>5, <1>6

\* Every other step leaves the tasks where they are.
LEMMA OtherStep ==
    ASSUME TypeOK, PlaceInv, TaskWhileRun',
           UNCHANGED <<tq, pending, task, done, pushed>>
    PROVE  PlaceInv'
BY DEF PlaceInv, NeverTwice, OneKind, Pending, Queued, RunBy

LEMMA PlaceStep ==
    ASSUME TypeOK, PlaceInv, [Next]_vars
    PROVE  PlaceInv'
<1>. USE DEF workVars, pushVars, ctlVars, TaskWhileRun, TypeOK
<1>0. TaskWhileRun BY DEF PlaceInv
<1>1. ASSUME NEW w \in Workers, WorkerStep(w), ~Take(w), ~Finish(w) PROVE PlaceInv'
  <2>1. CASE LoopTop(w) BY <1>0, <2>1, OtherStep DEF LoopTop
  <2>2. CASE Acquire(w) BY <1>0, <2>2, OtherStep DEF Acquire, AfterLock
  <2>3. CASE Wait(w) BY <1>0, <2>3, OtherStep DEF Wait
  <2>4. CASE LeaveWait(w) BY <1>0, <2>4, OtherStep DEF LeaveWait
  <2>5. CASE GiveUp(w) BY <1>0, <2>5, OtherStep DEF GiveUp
  <2>. QED BY <1>1, <2>1, <2>2, <2>3, <2>4, <2>5 DEF WorkerStep
<1>2. ASSUME NEW w \in Workers, Spurious(w) PROVE PlaceInv'
  BY <1>0, <1>2, OtherStep DEF Spurious
<1>3. ASSUME RunCall \/ DestroyCall PROVE PlaceInv'
  BY <1>0, <1>3, OtherStep DEF RunCall, DestroyCall
<1>4. ASSUME NEW c \in Controllers, StopCall(c) PROVE PlaceInv'
  BY <1>0, <1>4, OtherStep DEF StopCall
<1>5. ASSUME NEW c \in Controllers, ControllerStep(c) PROVE PlaceInv'
  <2>1. ASSUME NEW w \in Workers, StartThread(w) PROVE PlaceInv'
    BY <1>0, <2>1, OtherStep DEF StartThread
  <2>2. ASSUME UNCHANGED <<tq, workVars, pushVars, started>> PROVE PlaceInv'
    BY <1>0, <2>2, OtherStep
  <2>. QED BY <1>5, <2>1, <2>2 DEF
         ControllerStep, RunReturns, JoinBegin, JoinEnd, StopReturns, DestroyReturns
<1>6. CASE UNCHANGED vars BY <1>0, <1>6, OtherStep DEF vars
<1>. QED BY <1>1, <1>2, <1>3, <1>4, <1>5, <1>6, TakeStep, FinishStep, PushStep,
            CheckStep DEF Next

\* A set of at most one element, as Places counts them.
LEMMA CountOfOne ==
    ASSUME NEW S, \A x, y \in S : x = y
    PROVE  Cardinality(S) = IF S = {} THEN 0 ELSE 1
<1>1. CASE S = {} BY <1>1, FS_EmptySet
<1>2. CASE S # {}
  <2>1. PICK x \in S : TRUE BY <1>2
  <2>2. S = {x} BY <2>1
  <2>. QED BY <1>2, <2>2, FS_Singleton
<1>. QED BY <1>1, <1>2

\* Tasks are neither lost in transit nor run twice, by any number of threads.
THEOREM TasksHaveOnePlace == Spec => []ExactlyOnePlace
<1>1. Init => PlaceInv
  <2>. SUFFICES ASSUME Init PROVE PlaceInv
    OBVIOUS
  <2>1. DOMAIN tq = {} BY DEF Init
  <2>2. TaskWhileRun BY DEF Init, TaskWhileRun
  <2>3. \A t \in Tasks : ~Pending(t) /\ ~Queued(t) /\ ~RunBy(t)
    BY <2>1, PoolAssumption DEF Init, Pending, Queued, In, RunBy
  <2>4. NeverTwice
    BY <2>1, <2>3 DEF NeverTwice, Distinct, Pending, RunBy
  <2>5. OneKind BY <2>3 DEF Init, OneKind
  <2>. QED BY <2>2, <2>4, <2>5 DEF PlaceInv
<1>2. TypeOK /\ PlaceInv /\ [Next]_vars => PlaceInv' BY PlaceStep
<1>3. PlaceInv => ExactlyOnePlace
  <2>. SUFFICES ASSUME PlaceInv, NEW t \in Tasks
                PROVE  Places(t) = IF t \in pushed THEN 1 ELSE 0
    BY DEF ExactlyOnePlace
  <2>. DEFINE P == {p \in Pushers : pending[p] = t}
              Q == {i \in DOMAIN tq : tq[i] = t}
              W == {w \in Workers : task[w] = t}
  <2>1. /\ Cardinality(P) = IF Pending(t) THEN 1 ELSE 0
        /\ Cardinality(Q) = IF Queued(t) THEN 1 ELSE 0
        /\ Cardinality(W) = IF RunBy(t) THEN 1 ELSE 0
    <3>1. /\ \A x, y \in P : x = y
          /\ \A x, y \in Q : x = y
          /\ \A x, y \in W : x = y
      BY DEF PlaceInv, NeverTwice, Distinct
    <3>2. (P # {} <=> Pending(t)) /\ (Q # {} <=> Queued(t)) /\ (W # {} <=> RunBy(t))
      BY DEF Pending, Queued, In, RunBy
    <3>. HIDE DEF P, Q, W
    <3>. QED BY <3>1, <3>2, CountOfOne
  <2>2. Places(t) = Cardinality(P) + Cardinality(Q) + Cardinality(W)
                      + (IF t \in done THEN 1 ELSE 0)
    BY DEF Places
  <2>. HIDE DEF P, Q, W
  <2>. QED BY <2>1, <2>2 DEF PlaceInv, OneKind
<1>. QED BY <1>1, <1>2, <1>3, TypeCorrect, PTL DEF Spec
=============================================================================
