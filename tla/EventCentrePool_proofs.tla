----------------------- MODULE EventCentrePool_proofs -----------------------
(***************************************************************************)
(* Proofs about EventCentrePool for every number of threads, registrars    *)
(* and events: typing for any number of pools; that an announced pool has  *)
(* all its centres, and that it balances them, for the one pool a program  *)
(* has (two pools of a process share the counter of Work).                 *)
(***************************************************************************)
EXTENDS EventCentrePool, FiniteSetTheorems, TLAPS

\* There are never more Work tasks than threads, and who registers has chosen.
TypeInv ==
    /\ TypeOK
    /\ \A p \in Pools : toPush[p] + queued[p] <= N
    /\ \A p \in Pools : opc[p] = "new" => queued[p] = 0
    /\ \A r \in Registrars : rpc[r] = "register" => best[r] \in AllWorkers

LEMMA WorkersPools ==
    /\ AllWorkers \subseteq Pools \X (1 .. N)
    /\ \A w \in AllWorkers : PoolOf(w) \in Pools
BY DEF AllWorkers, PoolOf

LEMMA InitTypeInv == Init => TypeInv
BY PoolsAssumption DEF Init, TypeInv, TypeOK

LEMMA OwnerType ==
    ASSUME TypeInv, NEW p \in Pools,
           OwnerStep(p) \/ StartRun(p) \/ StartSpurious(p) \/ Stop(p)
               \/ DestroyStop(p)
    PROVE  TypeInv'
<1>. USE PoolsAssumption DEF TypeInv, TypeOK, ownVars, cbVars, toldVars, workVars,
       loopVars, regVars
<1>1. CASE StartPush(p) BY <1>1 DEF StartPush
<1>2. CASE StartSetCb(p) BY <1>2 DEF StartSetCb
<1>3. CASE StartWait(p) BY <1>3 DEF StartWait
<1>4. CASE DestroyPool(p) BY <1>4 DEF DestroyPool
<1>5. CASE DestroyReturns(p) BY <1>5 DEF DestroyReturns
<1>6. CASE StartRun(p) BY <1>6 DEF StartRun, WorkTasks
<1>7. CASE StartSpurious(p) BY <1>7 DEF StartSpurious
<1>8. CASE Stop(p) BY <1>8 DEF Stop, StopThen
<1>9. CASE DestroyStop(p) BY <1>9 DEF DestroyStop, StopThen
<1>. QED BY <1>1, <1>2, <1>3, <1>4, <1>5, <1>6, <1>7, <1>8, <1>9 DEF OwnerStep

LEMMA WorkType ==
    ASSUME TypeInv, NEW w \in AllWorkers, WorkStep(w)
    PROVE  TypeInv'
<1>. USE PoolsAssumption DEF TypeInv, TypeOK, ownVars, cbVars, toldVars, workVars,
       loopVars, regVars
<1>0. PICK p \in Pools : p = PoolOf(w) BY WorkersPools
<1>1. CASE TakeWork(w)
  <2>. USE <1>0, <1>1 DEF TakeWork
  <2>1. queued[p] \in 1..N OBVIOUS
  <2>2. queued' = [queued EXCEPT ![p] = queued[p] - 1] OBVIOUS
  <2>3. queued' \in [Pools -> 0..N] BY <2>1, <2>2
  <2>4. wpc' = [wpc EXCEPT ![w] = "built"] /\ load' = [load EXCEPT ![w] = 1]
    OBVIOUS
  <2>5. UNCHANGED <<ownVars, started, cbVars, centres, lock, worked, loopVars,
                    toldVars, regVars>>
    OBVIOUS
  <2>6. TypeOK'
    <3>1. wpc' \in [AllWorkers -> {"free", "built", "added", "last", "announce",
                                   "enter", "loop"}]
      BY <2>4
    <3>2. load' \in [AllWorkers -> Nat] BY <2>4
    <3>. HIDE <1>1 DEF TakeWork
    <3>. QED BY <2>3, <2>5, <3>1, <3>2
  <2>7. \A q \in Pools : toPush'[q] + queued'[q] <= N BY <2>1, <2>2, <2>5
  <2>8. \A q \in Pools : opc'[q] = "new" => queued'[q] = 0
    BY <2>1, <2>2, <2>5
  <2>. QED BY <2>5, <2>6, <2>7, <2>8
<1>2. CASE AddCentre(w)
  <2>1. centres' \in [Pools -> Seq(AllWorkers)] BY <1>0, <1>2 DEF AddCentre
  <2>. QED BY <1>0, <1>2, <2>1 DEF AddCentre
<1>3. CASE Count(w) BY <1>0, <1>3 DEF Count
<1>4. CASE SetStarted(w) BY <1>0, <1>4 DEF SetStarted
<1>5. CASE Announce(w)
  <2>. USE <1>0, <1>5 DEF Announce
  <2>1. called' \in [Pools -> Nat] /\ missed' \subseteq Pools
    <3>1. missed' \subseteq missed \cup {p} OBVIOUS
    <3>2. called' = called \/ called' = [called EXCEPT ![p] = called[p] + 1]
      OBVIOUS
    <3>. HIDE <1>5 DEF Announce
    <3>. QED BY <3>1, <3>2
  <2>2. /\ opc' \in [Pools -> {"new", "push", "waiting", "returned", "halted",
                               "stopped", "joining", "gone", "ub"}]
        /\ \A q \in Pools : opc'[q] = "new" => opc[q] = "new"
    OBVIOUS
  <2>3. wpc' \in [AllWorkers -> {"free", "built", "added", "last", "announce",
                                 "enter", "loop"}]
    OBVIOUS
  <2>4. UNCHANGED <<toPush, poolRuns, queued, started, cbVars, centres, lock,
                    worked, loopVars, load, regVars>>
    OBVIOUS
  <2>. HIDE <1>5 DEF Announce
  <2>. QED BY <2>1, <2>2, <2>3, <2>4
<1>6. CASE EnterLoop(w) BY <1>0, <1>6 DEF EnterLoop
<1>7. CASE LeaveLoop(w) BY <1>0, <1>7 DEF LeaveLoop
<1>. QED BY <1>1, <1>2, <1>3, <1>4, <1>5, <1>6, <1>7 DEF WorkStep

LEMMA RegisterType ==
    ASSUME TypeInv, NEW r \in Registrars,
           RegisterStep(r) \/ \E p \in Pools : RegisterCheck(r, p)
    PROVE  TypeInv'
<1>. USE PoolsAssumption DEF TypeInv, TypeOK, ownVars, cbVars, toldVars, workVars,
       loopVars, regVars
<1>1. ASSUME NEW p \in Pools, RegisterCheck(r, p) PROVE TypeInv'
  BY <1>1, SMTT(60) DEF RegisterCheck
<1>2. ASSUME NEW p \in Pools, Scan(r, p) PROVE TypeInv'
  <2>1. centres[p][next[r]] \in AllWorkers BY <1>2 DEF Scan
  <2>2. best' \in [Registrars -> AllWorkers \cup {None}] BY <1>2, <2>1 DEF Scan
  <2>3. rpc' \in [Registrars -> {"idle", "scan", "register", "ub"}]
    BY <1>2 DEF Scan
  <2>4. next' \in [Registrars -> Nat \ {0}] BY <1>2 DEF Scan
  <2>5. \A q \in Registrars : rpc'[q] = "register" => best'[q] \in AllWorkers
    BY <1>2 DEF Scan
  <2>6. UNCHANGED <<ownVars, queued, started, cbVars, centres, lock, workVars,
                    loopVars, load, events>>
    BY <1>2 DEF Scan
  <2>. QED BY <2>2, <2>3, <2>4, <2>5, <2>6
<1>3. ASSUME NEW p \in Pools, ScanDone(r, p) PROVE TypeInv'
  BY <1>3 DEF ScanDone
<1>4. CASE RegisterIn(r) BY <1>4 DEF RegisterIn
<1>. QED BY <1>1, <1>2, <1>3, <1>4 DEF RegisterStep

LEMMA TypeStep == TypeInv /\ [Next]_vars => TypeInv'
<1>. SUFFICES ASSUME TypeInv, [Next]_vars PROVE TypeInv'
  OBVIOUS
<1>1. CASE Next BY <1>1, OwnerType, WorkType, RegisterType DEF Next
<1>2. CASE UNCHANGED vars
  BY <1>2 DEF TypeInv, TypeOK, vars, ownVars, cbVars, toldVars, workVars,
       loopVars, regVars
<1>. QED BY <1>1, <1>2

LEMMA TypeInvariant == Spec => []TypeInv
BY InitTypeInv, TypeStep, PTL DEF Spec

\* Type correctness of any number of pools: no pool ever has more Work tasks,
\* queued or yet to push, than threads.
THEOREM TypeCorrect == Spec => []TypeOK
<1>1. TypeInv => TypeOK BY DEF TypeInv
<1>. QED BY <1>1, TypeInvariant, PTL
----------------------------------------------------------------------------
(* The one pool of a program: announced, it has all its centres.           *)

\* Nothing has stopped the pool yet.
Unstopped(p) == opc[p] \in {"new", "push", "waiting", "returned"}

Counted == {w \in AllWorkers : wpc[w] \in {"last", "announce", "enter", "loop"}}
Announcing == {w \in AllWorkers : wpc[w] \in {"last", "announce"}}

\* Until the pool is stopped the counter of Work counts the workers past it,
\* m_centres has those past AddCentre, and only the last of them announces.
PoolInv(p) ==
    /\ \A w \in AllWorkers : wpc[w] = "loop" => loops[w]
    /\ worked = Cardinality(Counted)
    /\ Listed(p) = {w \in AllWorkers : wpc[w] \notin {"free", "built"}}
    /\ worked < N => Announcing = {} /\ ~started[p] /\ called[p] = 0
    /\ \A v, w \in Announcing : v = w
    /\ called[p] > 0 => Announcing = {} /\ called[p] = 1

LEMMA OnePoolWorkers ==
    ASSUME NEW p, Pools = {p}
    PROVE  /\ AllWorkers = Workers(p)
           /\ \A w \in AllWorkers : PoolOf(w) = p
           /\ IsFiniteSet(AllWorkers) /\ Cardinality(AllWorkers) = N
<1>1. AllWorkers = Workers(p) /\ \A w \in AllWorkers : PoolOf(w) = p
  BY DEF AllWorkers, Workers, PoolOf
<1>2. PICK f : f = [i \in 1 .. N |-> <<p, i>>] OBVIOUS
<1>3. f \in Bijection(1 .. N, AllWorkers)
  <2>1. f \in [1 .. N -> AllWorkers] BY <1>2 DEF AllWorkers
  <2>2. f \in Injection(1 .. N, AllWorkers) BY <1>2, <2>1 DEF Injection, IsInjective
  <2>3. f \in Surjection(1 .. N, AllWorkers)
    BY <1>2, <2>1 DEF Surjection, AllWorkers
  <2>. QED BY <2>2, <2>3 DEF Bijection
<1>4. ExistsBijection(1 .. N, AllWorkers) BY <1>3 DEF ExistsBijection
<1>5. IsFiniteSet(1 .. N) /\ Cardinality(1 .. N) = N
  BY FS_Interval, PoolsAssumption
<1>. QED BY <1>1, <1>4, <1>5, FS_Bijection

\* When as many are counted as there are threads, every one is past Count.
LEMMA AllCounted ==
    ASSUME NEW p, Pools = {p}, TypeInv, PoolInv(p), started[p] \/ worked >= N
    PROVE  /\ \A w \in AllWorkers : wpc[w] \in {"last", "announce", "enter", "loop"}
           /\ Listed(p) = AllWorkers
<1>1. worked >= N
  BY PoolsAssumption DEF PoolInv, TypeInv, TypeOK
<1>2. Counted \in SUBSET AllWorkers BY DEF Counted
<1>3. Cardinality(Counted) <= N /\ (Cardinality(Counted) = N => Counted = AllWorkers)
  BY <1>2, OnePoolWorkers, FS_Subset
<1>4. Cardinality(Counted) = worked BY DEF PoolInv
<1>5. worked = N BY <1>1, <1>3, <1>4, PoolsAssumption DEF TypeInv, TypeOK
<1>6. Counted = AllWorkers BY <1>3, <1>4, <1>5
<1>. QED BY <1>6 DEF Counted, PoolInv

\* A worker yet to be counted: the counter is not full.
LEMMA NotAllCounted ==
    ASSUME NEW p, Pools = {p}, TypeInv, PoolInv(p), NEW w \in AllWorkers,
           wpc[w] \in {"free", "built", "added"}
    PROVE  worked < N /\ ~started[p]
<1>1. ~(started[p] \/ worked >= N)
  <2>. SUFFICES ASSUME started[p] \/ worked >= N PROVE FALSE
    OBVIOUS
  <2>1. wpc[w] \in {"last", "announce", "enter", "loop"} BY AllCounted
  <2>. QED BY <2>1
<1>2. worked \in Nat /\ N \in Nat BY PoolsAssumption DEF TypeInv, TypeOK
<1>. QED BY <1>1, <1>2

LEMMA InitPoolInv ==
    ASSUME NEW p, Pools = {p}, Init
    PROVE  PoolInv(p)
<1>1. Counted = {} /\ Announcing = {} BY DEF Init, Counted, Announcing
<1>2. Cardinality(Counted) = 0 BY <1>1, FS_EmptySet
<1>3. Listed(p) = {} BY DEF Init, Listed
<1>. QED BY <1>1, <1>2, <1>3 DEF Init, PoolInv

\* What the owner changes while the pool is not stopped concerns Start alone.
LEMMA OwnerFrame ==
    ASSUME NEW p, Pools = {p}, TypeInv, Unstopped(p)',
           OwnerStep(p) \/ StartRun(p) \/ StartSpurious(p) \/ Stop(p)
               \/ DestroyStop(p)
    PROVE  /\ Unstopped(p)
           /\ UNCHANGED <<started, centres, lock, workVars, loops, load, regVars>>
<1>. USE DEF TypeInv, TypeOK, Unstopped, loopVars
<1>1. CASE StartPush(p) BY <1>1 DEF StartPush
<1>2. CASE StartSetCb(p) BY <1>2 DEF StartSetCb
<1>3. CASE StartWait(p) BY <1>3 DEF StartWait
<1>4. CASE DestroyPool(p) BY <1>4 DEF DestroyPool
<1>5. CASE DestroyReturns(p) BY <1>5 DEF DestroyReturns
<1>6. CASE StartRun(p) BY <1>6 DEF StartRun
<1>7. CASE StartSpurious(p) BY <1>7 DEF StartSpurious
<1>8. CASE Stop(p) BY <1>8 DEF Stop, StopThen
<1>9. CASE DestroyStop(p) BY <1>9 DEF DestroyStop, StopThen
<1>. QED BY <1>1, <1>2, <1>3, <1>4, <1>5, <1>6, <1>7, <1>8, <1>9 DEF OwnerStep

LEMMA SamePool ==
    ASSUME NEW p, PoolInv(p), UNCHANGED <<started, centres, workVars, loops>>
    PROVE  PoolInv(p)'
BY DEF PoolInv, Counted, Announcing, Listed, workVars, toldVars

LEMMA WorkPool ==
    ASSUME NEW p, Pools = {p}, TypeInv, PoolInv(p), Unstopped(p),
           NEW w \in AllWorkers, WorkStep(w)
    PROVE  PoolInv(p)'
<1>. USE DEF toldVars, loopVars
<1>0. /\ PoolOf(w) = p /\ p \in Pools
      /\ wpc \in [AllWorkers -> {"free", "built", "added", "last", "announce",
                                 "enter", "loop"}]
      /\ loops \in [AllWorkers -> BOOLEAN] /\ started \in [Pools -> BOOLEAN]
      /\ called \in [Pools -> Nat] /\ worked \in Nat /\ N \in Nat
      /\ centres[p] \in Seq(AllWorkers) /\ centres \in [Pools -> Seq(AllWorkers)]
  BY OnePoolWorkers, PoolsAssumption DEF TypeInv, TypeOK
<1>1. CASE TakeWork(w)
  <2>1. wpc[w] = "free" /\ wpc' = [wpc EXCEPT ![w] = "built"]
        /\ UNCHANGED <<started, centres, worked, loops, called>>
    BY <1>1 DEF TakeWork
  <2>2. Counted' = Counted /\ Announcing' = Announcing
    BY <1>0, <2>1 DEF Counted, Announcing
  <2>3. Listed(p)' = Listed(p) BY <2>1 DEF Listed
  <2>. QED BY <1>0, <2>1, <2>2, <2>3 DEF PoolInv
<1>2. CASE AddCentre(w)
  <2>1. wpc[w] = "built" /\ wpc' = [wpc EXCEPT ![w] = "added"]
        /\ centres'[p] = Append(centres[p], w)
        /\ UNCHANGED <<started, worked, loops, called>>
    BY <1>0, <1>2 DEF AddCentre
  <2>2. Counted' = Counted /\ Announcing' = Announcing
    BY <1>0, <2>1 DEF Counted, Announcing
  <2>3. Listed(p)' = Listed(p) \cup {w}
    <3>1. /\ Len(centres[p]) \in Nat /\ DOMAIN centres[p] = 1 .. Len(centres[p])
          /\ DOMAIN centres'[p] = 1 .. (Len(centres[p]) + 1)
          /\ centres'[p][Len(centres[p]) + 1] = w
          /\ \A i \in 1 .. Len(centres[p]) : centres'[p][i] = centres[p][i]
      BY <1>0, <2>1
    <3>2. ASSUME NEW v, v \in Listed(p)' PROVE v \in Listed(p) \cup {w}
      BY <3>1, <3>2 DEF Listed
    <3>3. ASSUME NEW v, v \in Listed(p) \cup {w} PROVE v \in Listed(p)'
      BY <3>1, <3>3 DEF Listed
    <3>. QED BY <3>2, <3>3
  <2>4. Listed(p)' = {v \in AllWorkers : wpc'[v] \notin {"free", "built"}}
    BY <1>0, <2>1, <2>3 DEF PoolInv
  <2>. QED BY <1>0, <2>1, <2>2, <2>4 DEF PoolInv
<1>3. CASE Count(w)
  <2>1. wpc[w] = "added" /\ worked' = worked + 1
        /\ wpc' = [wpc EXCEPT ![w] = IF worked + 1 >= N THEN "last" ELSE "enter"]
        /\ UNCHANGED <<started, centres, loops, called>>
    BY <1>3 DEF Count, AllWork
  <2>2. worked < N /\ Announcing = {} /\ ~started[p] /\ called[p] = 0
    BY <2>1, NotAllCounted DEF PoolInv
  <2>3. Counted' = Counted \cup {w} /\ w \notin Counted
    BY <1>0, <2>1 DEF Counted
  <2>4. Announcing' \subseteq {w} /\ (worked' < N => Announcing' = {})
    BY <1>0, <2>1, <2>2 DEF Announcing
  <2>5. Cardinality(Counted') = Cardinality(Counted) + 1
    <3>1. IsFiniteSet(Counted)
      BY OnePoolWorkers, FS_Subset DEF Counted
    <3>. QED BY <2>3, <3>1, FS_AddElement
  <2>6. Listed(p)' = Listed(p) BY <2>1 DEF Listed
  <2>7. Listed(p)' = {v \in AllWorkers : wpc'[v] \notin {"free", "built"}}
    BY <1>0, <2>1, <2>6 DEF PoolInv
  <2>8. \A v \in AllWorkers : wpc'[v] = "loop" => loops'[v]
    BY <1>0, <2>1 DEF PoolInv
  <2>9. worked' = Cardinality(Counted') BY <2>1, <2>5 DEF PoolInv
  <2>. QED BY <2>1, <2>2, <2>4, <2>7, <2>8, <2>9 DEF PoolInv, Counted, Announcing
<1>4. CASE SetStarted(w)
  <2>1. wpc[w] = "last" /\ wpc' = [wpc EXCEPT ![w] = "announce"]
        /\ UNCHANGED <<centres, worked, loops, called>>
    BY <1>4 DEF SetStarted
  <2>2. Counted' = Counted /\ Announcing' = Announcing /\ w \in Announcing
    BY <1>0, <2>1 DEF Counted, Announcing
  <2>3. Listed(p)' = Listed(p) BY <2>1 DEF Listed
  <2>. QED BY <1>0, <2>1, <2>2, <2>3 DEF PoolInv
<1>5. CASE Announce(w)
  <2>1. wpc[w] = "announce" /\ wpc' = [wpc EXCEPT ![w] = "enter"]
        /\ UNCHANGED <<started, centres, worked, loops>>
        /\ called'[p] \in {called[p], called[p] + 1}
    BY <1>0, <1>5 DEF Announce
  <2>2. Counted' = Counted /\ w \in Announcing /\ Announcing' = Announcing \ {w}
    BY <1>0, <2>1 DEF Counted, Announcing
  <2>3. Announcing' = {} /\ worked >= N /\ called[p] = 0
    BY <1>0, <2>2 DEF PoolInv
  <2>4. Listed(p)' = Listed(p) BY <2>1 DEF Listed
  <2>. QED BY <1>0, <2>1, <2>2, <2>3, <2>4 DEF PoolInv
<1>6. CASE EnterLoop(w)
  <2>1. wpc[w] = "enter" /\ wpc' = [wpc EXCEPT ![w] = "loop"]
        /\ loops' = [loops EXCEPT ![w] = TRUE]
        /\ UNCHANGED <<started, centres, worked, called>>
    BY <1>6 DEF EnterLoop
  <2>2. Counted' = Counted /\ Announcing' = Announcing
    BY <1>0, <2>1 DEF Counted, Announcing
  <2>3. Listed(p)' = Listed(p) BY <2>1 DEF Listed
  <2>. QED BY <1>0, <2>1, <2>2, <2>3 DEF PoolInv
<1>7. CASE LeaveLoop(w) BY <1>7 DEF LeaveLoop, PoolInv
<1>. QED BY <1>1, <1>2, <1>3, <1>4, <1>5, <1>6, <1>7 DEF WorkStep
LEMMA RegisterFrame ==
    ASSUME NEW r \in Registrars, NEW p,
           RegisterStep(r) \/ \E q \in Pools : RegisterCheck(r, q)
    PROVE  UNCHANGED <<ownVars, started, centres, workVars, loops>>
<1>1. ASSUME NEW q \in Pools, RegisterCheck(r, q)
      PROVE  UNCHANGED <<ownVars, started, centres, workVars, loops>>
  BY <1>1 DEF RegisterCheck, loopVars
<1>2. ASSUME NEW q \in Pools, Scan(r, q)
      PROVE  UNCHANGED <<ownVars, started, centres, workVars, loops>>
  BY <1>2 DEF Scan, loopVars
<1>3. ASSUME NEW q \in Pools, ScanDone(r, q)
      PROVE  UNCHANGED <<ownVars, started, centres, workVars, loops>>
  BY <1>3 DEF ScanDone, loopVars
<1>4. ASSUME RegisterIn(r)
      PROVE  UNCHANGED <<ownVars, started, centres, workVars, loops>>
  BY <1>4 DEF RegisterIn, loopVars
<1>. QED BY <1>1, <1>2, <1>3, <1>4 DEF RegisterStep

\* A worker's step stops no pool.
LEMMA WorkerStopsNothing ==
    ASSUME NEW p, Pools = {p}, TypeInv, Unstopped(p)',
           NEW w \in AllWorkers, WorkStep(w)
    PROVE  Unstopped(p)
<1>. USE DEF Unstopped, ownVars
<1>0. PoolOf(w) = p /\ p \in Pools BY OnePoolWorkers
<1>1. CASE Announce(w) BY <1>0, <1>1 DEF Announce, TypeInv, TypeOK
<1>2. CASE ~Announce(w)
  <2>1. UNCHANGED ownVars
    BY <1>2 DEF WorkStep, TakeWork, AddCentre, Count, SetStarted, EnterLoop,
         LeaveLoop
  <2>. QED BY <2>1
<1>. QED BY <1>1, <1>2

\* A step that leaves the pool unstopped is an owner's that changes nothing of
\* the workers, a worker's, or a registrar's.
LEMMA UnstoppedStep ==
    ASSUME NEW p, Pools = {p}, TypeInv, Unstopped(p)', [Next]_vars
    PROVE  /\ Unstopped(p)
           /\ \/ UNCHANGED <<started, centres, lock, workVars, loops, load, regVars>>
              \/ \E w \in AllWorkers : WorkStep(w)
              \/ \E r \in Registrars : RegisterStep(r) \/ RegisterCheck(r, p)
<1>1. CASE \E q \in Pools : OwnerStep(q) \/ StartRun(q) \/ StartSpurious(q)
                               \/ Stop(q) \/ DestroyStop(q)
  <2>1. OwnerStep(p) \/ StartRun(p) \/ StartSpurious(p) \/ Stop(p) \/ DestroyStop(p)
    BY <1>1
  <2>. QED BY <2>1, OwnerFrame
<1>2. CASE \E w \in AllWorkers : WorkStep(w) BY <1>2, WorkerStopsNothing
<1>3. ASSUME NEW r \in Registrars,
             RegisterStep(r) \/ \E q \in Pools : RegisterCheck(r, q)
      PROVE  /\ Unstopped(p)
             /\ RegisterStep(r) \/ RegisterCheck(r, p)
  <2>1. UNCHANGED ownVars BY <1>3, RegisterFrame
  <2>. QED BY <1>3, <2>1 DEF Unstopped, ownVars
<1>4. CASE UNCHANGED vars
  BY <1>4 DEF vars, Unstopped, ownVars, loopVars
<1>. QED BY <1>1, <1>2, <1>3, <1>4 DEF Next

LEMMA PoolStep ==
    ASSUME NEW p, Pools = {p}, TypeInv, Unstopped(p) => PoolInv(p), [Next]_vars
    PROVE  Unstopped(p)' => PoolInv(p)'
<1>. SUFFICES ASSUME Unstopped(p)' PROVE PoolInv(p)'
  OBVIOUS
<1>1. PoolInv(p) /\ Unstopped(p) BY UnstoppedStep
<1>2. CASE UNCHANGED <<started, centres, lock, workVars, loops, load, regVars>>
  BY <1>1, <1>2, SamePool
<1>3. CASE \E w \in AllWorkers : WorkStep(w) BY <1>1, <1>3, WorkPool
<1>4. ASSUME NEW r \in Registrars, RegisterStep(r) \/ RegisterCheck(r, p)
      PROVE  PoolInv(p)'
  <2>1. UNCHANGED <<ownVars, started, centres, workVars, loops>>
    BY <1>4, RegisterFrame
  <2>. QED BY <1>1, <2>1, SamePool
<1>. QED BY <1>2, <1>3, <1>4, UnstoppedStep

\* In a program with one pool, m_started and the callback of Start tell of a
\* pool of which every thread has put its centre into m_centres, and the
\* callback runs once, for every number of threads and in every order of their
\* AddCentre, Count and SetStarted.
THEOREM AnnouncedComplete ==
    ASSUME NEW p, Pools = {p}
    PROVE  Spec => []AnnouncedMeansAll
<1>1. Init => (Unstopped(p) => PoolInv(p)) BY InitPoolInv
<1>2. TypeInv /\ (Unstopped(p) => PoolInv(p)) /\ [Next]_vars
          => (Unstopped(p) => PoolInv(p))'
  BY PoolStep
<1>3. TypeInv /\ (Unstopped(p) => PoolInv(p)) => AnnouncedMeansAll
  <2>. SUFFICES ASSUME TypeInv, Unstopped(p) => PoolInv(p), Up(p),
                       started[p] \/ called[p] > 0
                PROVE  called[p] <= 1 /\ Listed(p) = Workers(p)
    BY DEF AnnouncedMeansAll
  <2>1. PoolInv(p) BY DEF Up, Unstopped
  <2>2. called[p] \in Nat /\ worked \in Nat /\ N \in Nat
    BY PoolsAssumption DEF TypeInv, TypeOK
  <2>3. started[p] \/ worked >= N BY <2>1, <2>2 DEF PoolInv
  <2>4. Listed(p) = AllWorkers BY <2>1, <2>3, AllCounted
  <2>5. called[p] <= 1 BY <2>1, <2>2 DEF PoolInv
  <2>. QED BY <2>4, <2>5, OnePoolWorkers
<1>. QED BY <1>1, <1>2, <1>3, TypeInvariant, PTL DEF Spec
----------------------------------------------------------------------------
(* RegisterEvent balances the centres of the one pool.                     *)

Registering == {r \in Registrars : rpc[r] = "register"}
Pending(v) == {r \in Registering : best[r] = v}
Most == Cardinality(Registrars)

\* Only the registrar that holds m_mutex scans.  Counting what is pending, no
\* centre has Most more events than another, and the best of a scan is ahead
\* of those it has seen by less than Most, what others have pending included.
LoadInv(p) ==
    /\ \A r \in Registrars : rpc[r] = "scan" <=> lock[p] = r
    /\ ~started[p] =>
          /\ \A r \in Registrars : rpc[r] = "idle"
          /\ \A w \in AllWorkers : load[w] = IF wpc[w] = "free" THEN 0 ELSE 1
    /\ started[p] =>
          \A v, w \in AllWorkers : load[v] + Cardinality(Pending(v)) <= load[w] + Most
    /\ \A r \in Registrars : rpc[r] = "scan" =>
          /\ best[r] = None => next[r] = 1
          /\ \A i \in DOMAIN centres[p] : i < next[r] =>
                load[best[r]] + Cardinality(Registering)
                    <= load[centres[p][i]] + (Most - 1)

LEMMA FewRegister ==
    /\ IsFiniteSet(Registering) /\ Cardinality(Registering) \in 0 .. Most
    /\ Most \in Nat
    /\ \A v : IsFiniteSet(Pending(v))
              /\ Cardinality(Pending(v)) \in 0 .. Cardinality(Registering)
    /\ \A r \in Registrars : rpc[r] # "register" => Cardinality(Registering) < Most
<1>1. IsFiniteSet(Registrars) /\ Most \in Nat
  BY PoolsAssumption, FS_CardinalityType DEF Most
<1>2. IsFiniteSet(Registering) /\ Cardinality(Registering) <= Most
      /\ (Cardinality(Registering) = Most => Registering = Registrars)
  <2>1. Registering \in SUBSET Registrars BY DEF Registering
  <2>. QED BY <1>1, <2>1, FS_Subset DEF Most
<1>3. Cardinality(Registering) \in Nat BY <1>2, FS_CardinalityType
<1>4. ASSUME NEW v
      PROVE  IsFiniteSet(Pending(v))
             /\ Cardinality(Pending(v)) \in 0 .. Cardinality(Registering)
  <2>1. Pending(v) \in SUBSET Registering BY DEF Pending
  <2>2. IsFiniteSet(Pending(v)) /\ Cardinality(Pending(v)) <= Cardinality(Registering)
    BY <1>2, <2>1, FS_Subset
  <2>3. Cardinality(Pending(v)) \in Nat BY <2>2, FS_CardinalityType
  <2>. QED BY <1>3, <2>2, <2>3
<1>5. ASSUME NEW r \in Registrars, rpc[r] # "register"
      PROVE  Cardinality(Registering) < Most
  <2>1. Registering # Registrars BY <1>5 DEF Registering
  <2>. QED BY <1>1, <1>2, <1>3, <2>1
<1>. QED BY <1>1, <1>2, <1>3, <1>4, <1>5

LEMMA InitLoadInv ==
    ASSUME NEW p, Pools = {p}, Init
    PROVE  LoadInv(p)
BY PoolsAssumption DEF Init, LoadInv

LEMMA SameLoad ==
    ASSUME NEW p, LoadInv(p),
           UNCHANGED <<started, centres, lock, workVars, load, regVars>>
    PROVE  LoadInv(p)'
BY DEF LoadInv, Pending, Registering, workVars, regVars

LEMMA WorkLoad ==
    ASSUME NEW p, Pools = {p}, TypeInv, PoolInv(p), LoadInv(p), Unstopped(p),
           NEW w \in AllWorkers, WorkStep(w)
    PROVE  LoadInv(p)'
<1>. USE DEF toldVars, loopVars
<1>0. /\ PoolOf(w) = p /\ p \in Pools
      /\ wpc \in [AllWorkers -> {"free", "built", "added", "last", "announce",
                                 "enter", "loop"}]
      /\ started \in [Pools -> BOOLEAN]
      /\ load \in [AllWorkers -> Nat]
  BY OnePoolWorkers, PoolsAssumption DEF TypeInv, TypeOK
<1>1. UNCHANGED <<lock, regVars>>
  BY DEF WorkStep, TakeWork, AddCentre, Count, SetStarted, Announce, EnterLoop,
       LeaveLoop
<1>2. Registering' = Registering /\ \A v : Pending(v)' = Pending(v)
  BY <1>1 DEF Registering, Pending, regVars
<1>3. CASE TakeWork(w) \/ AddCentre(w) \/ Count(w)
  <2>1. ~started[p] /\ UNCHANGED started
    BY <1>3, NotAllCounted DEF TakeWork, AddCentre, Count
  <2>2. \A v \in AllWorkers : load'[v] = IF wpc'[v] = "free" THEN 0 ELSE 1
    <3>1. \A v \in AllWorkers : load[v] = IF wpc[v] = "free" THEN 0 ELSE 1
      BY <2>1 DEF LoadInv
    <3>2. CASE TakeWork(w) BY <1>0, <3>1, <3>2 DEF TakeWork
    <3>3. CASE AddCentre(w) BY <1>0, <3>1, <3>3 DEF AddCentre
    <3>4. CASE Count(w) BY <1>0, <3>1, <3>4 DEF Count
    <3>. QED BY <1>3, <3>2, <3>3, <3>4
  <2>. QED BY <1>1, <2>1, <2>2 DEF LoadInv, regVars
<1>4. CASE SetStarted(w)
  <2>1. wpc[w] = "last" /\ started'[p] = TRUE /\ UNCHANGED <<centres, load>>
    BY <1>0, <1>4 DEF SetStarted
  <2>2. CASE started[p]
    BY <1>1, <1>2, <2>1, <2>2 DEF LoadInv, regVars
  <2>3. CASE ~started[p]
    <3>1. \A r \in Registrars : rpc[r] = "idle" BY <2>3 DEF LoadInv
    <3>2. worked >= N
      <4>1. w \in Announcing BY <2>1 DEF Announcing
      <4>. QED BY <4>1, PoolsAssumption DEF PoolInv, TypeInv, TypeOK
    <3>3. \A v \in AllWorkers : load[v] = 1
      BY <2>3, <3>2, AllCounted DEF LoadInv
    <3>4. \A v : Cardinality(Pending(v)) = 0
      BY <3>1, FS_EmptySet DEF Pending, Registering
    <3>5. \A v, u \in AllWorkers : load[v] + Cardinality(Pending(v)) <= load[u] + Most
      BY <3>3, <3>4, FewRegister
    <3>. QED BY <1>1, <1>2, <2>1, <3>1, <3>5 DEF LoadInv, regVars
  <2>. QED BY <2>2, <2>3
<1>5. CASE Announce(w) \/ EnterLoop(w)
  <2>1. UNCHANGED <<started, centres, load>> BY <1>5 DEF Announce, EnterLoop
  <2>2. wpc[w] # "free" /\ wpc' \in {[wpc EXCEPT ![w] = "enter"], [wpc EXCEPT ![w] = "loop"]}
    BY <1>5 DEF Announce, EnterLoop
  <2>3. \A v \in AllWorkers : wpc'[v] = "free" <=> wpc[v] = "free" BY <1>0, <2>2
  <2>. QED BY <1>1, <1>2, <2>1, <2>3 DEF LoadInv, regVars
<1>6. CASE LeaveLoop(w) BY <1>6 DEF LeaveLoop, PoolInv
<1>. QED BY <1>3, <1>4, <1>5, <1>6 DEF WorkStep
\* m_started: every worker is listed and none is gone.
LEMMA StartedListed ==
    ASSUME NEW p, Pools = {p}, TypeInv, PoolInv(p), started[p]
    PROVE  /\ \A w \in AllWorkers : ~Gone(w)
           /\ \A w \in AllWorkers : \E i \in DOMAIN centres[p] : centres[p][i] = w
BY AllCounted DEF Gone, Listed

LEMMA ScanStep ==
    ASSUME NEW p, Pools = {p}, TypeInv, PoolInv(p), LoadInv(p), Unstopped(p),
           NEW r \in Registrars, Scan(r, p)
    PROVE  LoadInv(p)'
<1>0. /\ p \in Pools /\ load \in [AllWorkers -> Nat]
      /\ rpc \in [Registrars -> {"idle", "scan", "register", "ub"}]
      /\ best \in [Registrars -> AllWorkers \cup {None}]
      /\ next \in [Registrars -> Nat \ {0}]
      /\ centres[p] \in Seq(AllWorkers)
  BY DEF TypeInv, TypeOK
<1>1. /\ rpc[r] = "scan" /\ started[p] BY DEF Scan, LoadInv
<1>2. PICK w \in AllWorkers : w = centres[p][next[r]]
  BY <1>0 DEF Scan
<1>3. /\ UNCHANGED <<started, centres, lock, load>>
      /\ rpc' = rpc
      /\ next' = [next EXCEPT ![r] = next[r] + 1]
      /\ best' = [best EXCEPT ![r] =
                     IF best[r] = None \/ load[w] < load[best[r]] THEN w ELSE best[r]]
  <2>1. ~Gone(w) BY <1>1, StartedListed
  <2>2. rpc' = [rpc EXCEPT ![r] = "scan"] BY <1>2, <2>1 DEF Scan
  <2>. QED BY <1>0, <1>1, <1>2, <2>2 DEF Scan, Better
<1>4. Registering' = Registering BY <1>3 DEF Registering
<1>5. \A v : Pending(v)' = Pending(v)
  BY <1>0, <1>1, <1>3 DEF Pending, Registering
<1>6. best'[r] \in AllWorkers /\ None \notin AllWorkers
  BY <1>0, <1>3, PoolsAssumption DEF AllWorkers
<1>7. \A i \in DOMAIN centres[p] : i < next[r] + 1 =>
          load[best'[r]] + Cardinality(Registering) <= load[centres[p][i]] + (Most - 1)
  <2>. SUFFICES ASSUME NEW i \in DOMAIN centres[p], i < next[r] + 1
                PROVE  load[best'[r]] + Cardinality(Registering)
                           <= load[centres[p][i]] + (Most - 1)
    OBVIOUS
  <2>1. PICK c \in Nat : c = Cardinality(Registering) BY FewRegister
  <2>2. c < Most /\ Most \in Nat BY <1>0, <1>1, <2>1, FewRegister
  <2>3. i \in Nat /\ next[r] \in Nat /\ centres[p][i] \in AllWorkers BY <1>0
  <2>4. load[best'[r]] \in Nat /\ load[w] \in Nat /\ load[centres[p][i]] \in Nat
    BY <1>0, <1>6, <2>3
  <2>5. CASE i = next[r]
    <3>1. load[best'[r]] <= load[w]
      <4>1. CASE best[r] = None \/ load[w] < load[best[r]]
        <5>1. best'[r] = w BY <1>0, <1>3, <4>1
        <5>. QED BY <2>4, <5>1
      <4>2. CASE ~(best[r] = None \/ load[w] < load[best[r]])
        <5>1. best'[r] = best[r] BY <1>0, <1>3, <4>2
        <5>. QED BY <2>4, <4>2, <5>1
      <4>. QED BY <4>1, <4>2
    <3>. QED BY <1>2, <2>1, <2>2, <2>4, <2>5, <3>1
  <2>6. CASE i < next[r]
    <3>1. best[r] \in AllWorkers BY <1>0, <1>1, <2>3, <2>6 DEF LoadInv
    <3>2. load[best[r]] + c <= load[centres[p][i]] + (Most - 1)
      BY <1>1, <2>1, <2>6 DEF LoadInv
    <3>3. load[best[r]] \in Nat BY <1>0, <3>1
    <3>4. load[best'[r]] <= load[best[r]]
      <4>1. CASE load[w] < load[best[r]]
        <5>1. best'[r] = w BY <1>0, <1>3, <4>1
        <5>. QED BY <2>4, <3>3, <4>1, <5>1
      <4>2. CASE ~(load[w] < load[best[r]])
        <5>1. best'[r] = best[r] BY <1>0, <1>3, <1>6, <3>1, <4>2
        <5>. QED BY <3>3, <5>1
      <4>. QED BY <4>1, <4>2
    <3>. QED BY <2>1, <2>2, <2>4, <3>2, <3>3, <3>4
  <2>. QED BY <2>3, <2>5, <2>6
<1>8. ASSUME NEW q \in Registrars, rpc[q] = "scan" PROVE q = r
  BY <1>8 DEF LoadInv, Scan
<1>9. ASSUME NEW q \in Registrars, rpc'[q] = "scan"
      PROVE  /\ best'[q] = None => next'[q] = 1
             /\ \A i \in DOMAIN centres'[p] : i < next'[q] =>
                   load'[best'[q]] + Cardinality(Registering')
                       <= load'[centres'[p][i]] + (Most - 1)
  <2>1. q = r BY <1>3, <1>8, <1>9
  <2>2. next'[r] = next[r] + 1 BY <1>0, <1>3
  <2>. QED BY <1>3, <1>4, <1>6, <1>7, <2>1, <2>2
<1>. QED BY <1>1, <1>3, <1>4, <1>5, <1>9 DEF LoadInv, Most

LEMMA ScanDoneStep ==
    ASSUME NEW p, Pools = {p}, TypeInv, PoolInv(p), LoadInv(p), Unstopped(p),
           NEW r \in Registrars, ScanDone(r, p)
    PROVE  LoadInv(p)'
<1>0. /\ p \in Pools /\ load \in [AllWorkers -> Nat]
      /\ rpc \in [Registrars -> {"idle", "scan", "register", "ub"}]
      /\ best \in [Registrars -> AllWorkers \cup {None}]
      /\ next \in [Registrars -> Nat \ {0}]
      /\ centres[p] \in Seq(AllWorkers)
      /\ lock \in [Pools -> Registrars \cup {None}]
      /\ None \notin Registrars /\ None \notin AllWorkers
  BY PoolsAssumption DEF TypeInv, TypeOK, AllWorkers
<1>1. /\ rpc[r] = "scan" /\ started[p] /\ next[r] > Len(centres[p])
      /\ UNCHANGED <<started, centres, load, best, next>>
      /\ lock'[p] = None
      /\ rpc' = [rpc EXCEPT ![r] = IF best[r] = None THEN "idle" ELSE "register"]
  BY <1>0 DEF ScanDone, LoadInv
<1>2. \A q \in Registrars : rpc'[q] # "scan"
  <2>1. ASSUME NEW q \in Registrars, q # r PROVE rpc[q] # "scan"
    BY <2>1 DEF LoadInv, ScanDone
  <2>. QED BY <1>0, <1>1, <2>1
<1>3. ASSUME NEW v \in AllWorkers, NEW w \in AllWorkers
      PROVE  load[v] + Cardinality(Pending(v)') <= load[w] + Most
  <2>1. load[v] + Cardinality(Pending(v)) <= load[w] + Most
    BY <1>1 DEF LoadInv
  <2>2. CASE v = best[r]
    <3>1. Pending(v)' = Pending(v) \cup {r} /\ r \notin Pending(v)
      BY <1>0, <1>1, <2>2 DEF Pending, Registering
    <3>2. Cardinality(Pending(v)') = Cardinality(Pending(v)) + 1
      BY <3>1, FewRegister, FS_AddElement
    <3>3. PICK i \in DOMAIN centres[p] : centres[p][i] = w
      BY <1>1, StartedListed
    <3>4. i < next[r] BY <1>0, <1>1, <3>3
    <3>5. load[v] + Cardinality(Registering) <= load[w] + (Most - 1)
      BY <1>1, <2>2, <3>3, <3>4 DEF LoadInv
    <3>6. PICK c, d \in Nat : /\ c = Cardinality(Registering)
                              /\ d = Cardinality(Pending(v)) /\ d <= c
      BY FewRegister
    <3>7. load[v] \in Nat /\ load[w] \in Nat /\ Most \in Nat BY <1>0, FewRegister
    <3>. QED BY <3>2, <3>5, <3>6, <3>7
  <2>3. CASE v # best[r]
    <3>1. Pending(v)' = Pending(v)
      BY <1>0, <1>1, <2>3 DEF Pending, Registering
    <3>. QED BY <2>1, <3>1
  <2>. QED BY <2>2, <2>3
<1>4. \A q \in Registrars : lock'[p] # q BY <1>0, <1>1
<1>. QED BY <1>1, <1>2, <1>3, <1>4 DEF LoadInv, Most
LEMMA RegisterInStep ==
    ASSUME NEW p, Pools = {p}, TypeInv, PoolInv(p), LoadInv(p), Unstopped(p),
           NEW r \in Registrars, RegisterIn(r)
    PROVE  LoadInv(p)'
<1>0. /\ p \in Pools /\ load \in [AllWorkers -> Nat]
      /\ rpc \in [Registrars -> {"idle", "scan", "register", "ub"}]
      /\ best \in [Registrars -> AllWorkers \cup {None}]
      /\ next \in [Registrars -> Nat \ {0}]
      /\ centres[p] \in Seq(AllWorkers)
  BY DEF TypeInv, TypeOK
<1>1. PICK b \in AllWorkers : b = best[r] BY DEF RegisterIn, TypeInv
<1>2. /\ rpc[r] = "register" /\ started[p]
      /\ UNCHANGED <<started, centres, lock, best, next>>
      /\ load' = [load EXCEPT ![b] = load[b] + 1]
  BY <1>0, <1>1 DEF RegisterIn, LoadInv
<1>3. rpc' = [rpc EXCEPT ![r] = "idle"]
  <2>1. ~Gone(best[r]) BY <1>1, <1>2, StartedListed
  <2>. QED BY <2>1 DEF RegisterIn
<1>4. \A q \in Registrars : rpc'[q] = "scan" <=> rpc[q] = "scan"
  BY <1>0, <1>2, <1>3
<1>5. Registering' = Registering \ {r} /\ r \in Registering
  BY <1>0, <1>2, <1>3 DEF Registering
<1>6. Cardinality(Registering') = Cardinality(Registering) - 1
  BY <1>5, FewRegister, FS_RemoveElement
<1>7. \A w \in AllWorkers : load'[w] \in Nat /\ load[w] \in Nat
         /\ load'[w] = IF w = b THEN load[w] + 1 ELSE load[w]
  BY <1>0, <1>2
<1>8. ASSUME NEW v \in AllWorkers, NEW w \in AllWorkers
      PROVE  load'[v] + Cardinality(Pending(v)') <= load'[w] + Most
  <2>1. load[v] + Cardinality(Pending(v)) <= load[w] + Most
    BY <1>2 DEF LoadInv
  <2>2. PICK d \in Nat : d = Cardinality(Pending(v)) BY FewRegister
  <2>3. Most \in Nat BY FewRegister
  <2>4. load'[v] + Cardinality(Pending(v)') = load[v] + d
    <3>1. CASE v = b
      <4>1. Pending(v)' = Pending(v) \ {r} /\ r \in Pending(v)
        BY <1>0, <1>1, <1>2, <1>3, <3>1 DEF Pending, Registering
      <4>2. Cardinality(Pending(v)') = d - 1
        BY <2>2, <4>1, FewRegister, FS_RemoveElement
      <4>. QED BY <1>7, <2>2, <3>1, <4>2
    <3>2. CASE v # b
      <4>1. Pending(v)' = Pending(v)
        BY <1>0, <1>1, <1>2, <1>3, <3>2 DEF Pending, Registering
      <4>. QED BY <1>7, <2>2, <3>2, <4>1
    <3>. QED BY <3>1, <3>2
  <2>5. load[w] <= load'[w] BY <1>7
  <2>. QED BY <1>7, <2>1, <2>2, <2>3, <2>4, <2>5
<1>9. ASSUME NEW q \in Registrars, rpc[q] = "scan", NEW i \in DOMAIN centres[p],
             i < next[q]
      PROVE  load'[best[q]] + Cardinality(Registering')
                 <= load'[centres[p][i]] + (Most - 1)
  <2>1. load[best[q]] + Cardinality(Registering) <= load[centres[p][i]] + (Most - 1)
    BY <1>2, <1>9 DEF LoadInv
  <2>2. i \in Nat \ {0} /\ centres[p][i] \in AllWorkers BY <1>0
  <2>3. best[q] \in AllWorkers BY <1>0, <1>2, <1>9, <2>2 DEF LoadInv
  <2>4. PICK c \in Nat : c = Cardinality(Registering) BY FewRegister
  <2>5. load'[best[q]] <= load[best[q]] + 1 BY <1>7, <2>3
  <2>6. load[centres[p][i]] <= load'[centres[p][i]] BY <1>7, <2>2
  <2>7. /\ load[best[q]] \in Nat /\ load'[best[q]] \in Nat
        /\ load[centres[p][i]] \in Nat /\ load'[centres[p][i]] \in Nat
        /\ Most \in Nat
    BY <1>7, <2>2, <2>3, FewRegister
  <2>. QED BY <1>6, <2>1, <2>4, <2>5, <2>6, <2>7
<1>10. \A q \in Registrars : rpc'[q] = "scan" <=> lock'[p] = q
  BY <1>2, <1>4 DEF LoadInv
<1>11. ASSUME NEW q \in Registrars, rpc'[q] = "scan"
       PROVE  /\ best'[q] = None => next'[q] = 1
              /\ \A i \in DOMAIN centres'[p] : i < next'[q] =>
                    load'[best'[q]] + Cardinality(Registering')
                        <= load'[centres'[p][i]] + (Most - 1)
  <2>1. rpc[q] = "scan" BY <1>4, <1>11
  <2>. QED BY <1>2, <1>9, <2>1 DEF LoadInv
<1>. QED BY <1>2, <1>8, <1>10, <1>11 DEF LoadInv, Most

LEMMA RegisterCheckStep ==
    ASSUME NEW p, Pools = {p}, TypeInv, LoadInv(p),
           NEW r \in Registrars, RegisterCheck(r, p)
    PROVE  LoadInv(p)'
<1>0. /\ p \in Pools
      /\ rpc \in [Registrars -> {"idle", "scan", "register", "ub"}]
      /\ best \in [Registrars -> AllWorkers \cup {None}]
      /\ next \in [Registrars -> Nat \ {0}]
      /\ centres[p] \in Seq(AllWorkers)
      /\ lock \in [Pools -> Registrars \cup {None}] /\ None \notin Registrars
  BY PoolsAssumption DEF TypeInv, TypeOK
<1>1. /\ rpc[r] = "idle" /\ started[p] /\ lock[p] = None
      /\ UNCHANGED <<started, centres, load>>
      /\ lock'[p] = r /\ rpc' = [rpc EXCEPT ![r] = "scan"]
      /\ next' = [next EXCEPT ![r] = 1] /\ best' = [best EXCEPT ![r] = None]
  BY <1>0 DEF RegisterCheck, MayRegister
<1>2. Registering' = Registering BY <1>0, <1>1 DEF Registering
<1>3. \A v : Pending(v)' = Pending(v)
  BY <1>0, <1>1 DEF Pending, Registering
<1>4. \A q \in Registrars : rpc[q] # "scan" BY <1>0, <1>1 DEF LoadInv
<1>5. \A q \in Registrars : rpc'[q] = "scan" <=> lock'[p] = q
  BY <1>0, <1>1, <1>4
<1>6. ASSUME NEW q \in Registrars, rpc'[q] = "scan" PROVE next'[q] = 1
  BY <1>0, <1>1, <1>4, <1>6
<1>7. \A i \in DOMAIN centres[p] : ~(i < 1) BY <1>0
<1>. QED BY <1>1, <1>2, <1>3, <1>5, <1>6, <1>7 DEF LoadInv, Most

LEMMA LoadStep ==
    ASSUME NEW p, Pools = {p}, TypeInv,
           Unstopped(p) => PoolInv(p) /\ LoadInv(p), [Next]_vars
    PROVE  Unstopped(p)' => LoadInv(p)'
<1>. SUFFICES ASSUME Unstopped(p)' PROVE LoadInv(p)'
  OBVIOUS
<1>1. PoolInv(p) /\ LoadInv(p) /\ Unstopped(p) BY UnstoppedStep
<1>2. CASE UNCHANGED <<started, centres, lock, workVars, loops, load, regVars>>
  BY <1>1, <1>2, SameLoad
<1>3. CASE \E w \in AllWorkers : WorkStep(w) BY <1>1, <1>3, WorkLoad
<1>4. ASSUME NEW r \in Registrars, RegisterStep(r) \/ RegisterCheck(r, p)
      PROVE  LoadInv(p)'
  <2>1. Scan(r, p) \/ ScanDone(r, p) \/ RegisterIn(r) \/ RegisterCheck(r, p)
    BY <1>4 DEF RegisterStep
  <2>. QED BY <1>1, <2>1, ScanStep, ScanDoneStep, RegisterInStep, RegisterCheckStep
<1>. QED BY <1>2, <1>3, <1>4, UnstoppedStep

\* With one pool and any number of registrars, each of which reads the loads
\* one by one while others add theirs without m_mutex, two centres never
\* differ by more events than there are registrars.
THEOREM RegisterBalances ==
    ASSUME NEW p, Pools = {p}
    PROVE  Spec => []Balanced
<1>1. Init => (Unstopped(p) => PoolInv(p) /\ LoadInv(p))
  BY InitPoolInv, InitLoadInv
<1>2. TypeInv /\ (Unstopped(p) => PoolInv(p) /\ LoadInv(p)) /\ [Next]_vars
          => (Unstopped(p) => PoolInv(p) /\ LoadInv(p))'
  <2>. SUFFICES ASSUME TypeInv, Unstopped(p) => PoolInv(p) /\ LoadInv(p), [Next]_vars
                PROVE  Unstopped(p)' => PoolInv(p)' /\ LoadInv(p)'
    OBVIOUS
  <2>. QED BY PoolStep, LoadStep
<1>3. TypeInv /\ (Unstopped(p) => PoolInv(p) /\ LoadInv(p)) => Balanced
  <2>. SUFFICES ASSUME TypeInv, Unstopped(p) => PoolInv(p) /\ LoadInv(p),
                       started[p], Up(p), NEW v \in AllWorkers, NEW w \in AllWorkers
                PROVE  load[v] - load[w] <= Cardinality(Registrars)
    BY OnePoolWorkers DEF Balanced
  <2>1. load[v] + Cardinality(Pending(v)) <= load[w] + Most
    BY DEF LoadInv, Up, Unstopped
  <2>2. PICK d \in Nat : d = Cardinality(Pending(v)) BY FewRegister
  <2>3. load[v] \in Nat /\ load[w] \in Nat /\ Most \in Nat
    BY FewRegister DEF TypeInv, TypeOK
  <2>. QED BY <2>1, <2>2, <2>3 DEF Most
<1>. QED BY <1>1, <1>2, <1>3, TypeInvariant, PTL DEF Spec
=============================================================================
