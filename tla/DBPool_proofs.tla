---------------------------- MODULE DBPool_proofs ----------------------------
(***************************************************************************)
(* DBPool implements DBService, for any number of connections and requests *)
(* and for either driver: the steps of Query, of a Work that takes a       *)
(* request and of one that has its answer are Ask, TakeUp and Answer, and  *)
(* every other step leaves the service as it is.  And m_LiveConnNum counts  *)
(* the connections, so that Recover asks for as many as are missing.       *)
(***************************************************************************)
EXTENDS DBPool, FiniteSetTheorems, TLAPS

\* The types the refinement needs.
MsgTypeOK ==
    /\ rq \in Seq(Requests)
    /\ req \in [Conns -> Requests \cup {None}]
    /\ wpc \in [Conns -> {"none", "free", "connect", "up", "test", "lock", "ping",
                          "query", "leave", "exited", "ub"}]
    /\ answered \subseteq Requests

\* Run of the thread pool starts threads only where there are none.
NoThreadsYet ==
    /\ opc = "push" => poolRuns
    /\ opc = "idle" /\ ~poolRuns => \A w \in Conns : wpc[w] = "none"

\* A Work has a request exactly while it queries.
ReqWhileQuery == \A w \in Conns : req[w] # None <=> wpc[w] = "query"

\* No request is in two places.
OnePlace ==
    /\ \A i, j \in DOMAIN rq : rq[i] = rq[j] => i = j
    /\ \A i \in DOMAIN rq, w \in Conns : rq[i] # req[w]
    /\ \A i \in DOMAIN rq : rq[i] \notin answered
    /\ \A v, w \in Conns : req[v] = req[w] /\ req[v] # None => v = w
    /\ \A w \in Conns : req[w] \notin answered

IInv == MsgTypeOK /\ NoThreadsYet /\ ReqWhileQuery /\ OnePlace

LEMMA InitIInv == Init => IInv
<1>. SUFFICES ASSUME Init PROVE IInv
  OBVIOUS
<1>1. rq \in Seq(Requests) /\ DOMAIN rq = {} BY DEF Init
<1>2. MsgTypeOK BY <1>1 DEF Init, MsgTypeOK
<1>3. NoThreadsYet /\ ReqWhileQuery BY DEF Init, NoThreadsYet, ReqWhileQuery
<1>4. OnePlace BY <1>1 DEF Init, OnePlace
<1>. QED BY <1>2, <1>3, <1>4 DEF IInv

\* The request of Query is in no place yet.
LEMMA QueryStep ==
    ASSUME IInv, NEW r \in Requests, Query(r)
    PROVE  IInv' /\ Service!Ask(r)
<1>. USE DBAssumption DEF IInv, MsgTypeOK, Query, Usable
<1>1. /\ \A i \in DOMAIN rq : rq[i] # r
      /\ \A w \in Conns : req[w] # r
      /\ r \notin answered
  BY DEF Asked
<1>2. /\ rq' \in Seq(Requests)
      /\ DOMAIN rq' = DOMAIN rq \cup {Len(rq) + 1}
      /\ DOMAIN rq = 1 .. Len(rq)
      /\ Len(rq) \in Nat
      /\ \A i \in DOMAIN rq : rq'[i] = rq[i]
      /\ rq'[Len(rq) + 1] = r
  OBVIOUS
<1>3. MsgTypeOK' /\ NoThreadsYet' /\ ReqWhileQuery'
  BY <1>2 DEF recVars, ownVars, NoThreadsYet, ReqWhileQuery
<1>4. OnePlace'
  <2>1. req' = req /\ answered' = answered BY DEF recVars
  <2>2. \A i, j \in DOMAIN rq' : rq'[i] = rq'[j] => i = j
    BY <1>1, <1>2 DEF OnePlace
  <2>3. \A i \in DOMAIN rq', w \in Conns : rq'[i] # req[w]
    BY <1>1, <1>2 DEF OnePlace
  <2>4. \A i \in DOMAIN rq' : rq'[i] \notin answered
    BY <1>1, <1>2 DEF OnePlace
  <2>. QED BY <2>1, <2>2, <2>3, <2>4 DEF OnePlace
<1>5. Service!Ask(r)
  BY <1>1 DEF Service!Ask, Service!Waits, Service!Served, recVars
<1>. QED BY <1>3, <1>4, <1>5

\* A Work takes the front of the queue only when it has no request.
LEMMA TakeStep ==
    ASSUME IInv, NEW w \in Conns, LockToQuery(w)
    PROVE  IInv' /\ Service!TakeUp(w)
<1>. USE DBAssumption DEF IInv, MsgTypeOK, LockToQuery, Pop, Goto
<1>1. req[w] = None BY DEF ReqWhileQuery
<1>2. /\ rq # <<>> /\ Len(rq) \in Nat \ {0} /\ DOMAIN rq = 1 .. Len(rq)
      /\ Head(rq) = rq[1] /\ 1 \in DOMAIN rq /\ rq[1] \in Requests
      /\ rq' \in Seq(Requests)
      /\ DOMAIN rq' = 1 .. (Len(rq) - 1)
      /\ \A i \in DOMAIN rq' : i + 1 \in DOMAIN rq /\ i + 1 # 1 /\ rq'[i] = rq[i + 1]
  OBVIOUS
<1>3. /\ req'[w] = rq[1] /\ answered' = answered
      /\ \A v \in Conns \ {w} : req'[v] = req[v]
  BY <1>2
<1>4. MsgTypeOK' /\ NoThreadsYet' /\ ReqWhileQuery'
  BY <1>2, <1>3 DEF ownVars, NoThreadsYet, ReqWhileQuery
<1>5. OnePlace'
  <2>1. \A i, j \in DOMAIN rq' : rq'[i] = rq'[j] => i = j
    <3>. SUFFICES ASSUME NEW i \in DOMAIN rq', NEW j \in DOMAIN rq', rq'[i] = rq'[j]
                  PROVE  i = j
      OBVIOUS
    <3>1. i + 1 = j + 1 BY <1>2 DEF OnePlace
    <3>2. i \in Nat /\ j \in Nat BY <1>2
    <3>. QED BY <3>1, <3>2
  <2>2. \A i \in DOMAIN rq', v \in Conns : rq'[i] # req'[v]
    BY <1>2, <1>3 DEF OnePlace
  <2>3. \A i \in DOMAIN rq' : rq'[i] \notin answered'
    BY <1>2, <1>3 DEF OnePlace
  <2>4. \A u, v \in Conns : req'[u] = req'[v] /\ req'[u] # None => u = v
    BY <1>2, <1>3 DEF OnePlace
  <2>5. \A v \in Conns : req'[v] \notin answered'
    BY <1>2, <1>3 DEF OnePlace
  <2>. QED BY <2>1, <2>2, <2>3, <2>4, <2>5 DEF OnePlace
<1>6. Service!TakeUp(w)
  BY <1>1 DEF Service!TakeUp
<1>. QED BY <1>4, <1>5, <1>6

\* The callback of a request runs while no other place holds the request.
LEMMA DoneStep ==
    ASSUME IInv, NEW w \in Conns, QueryDone(w)
    PROVE  IInv' /\ Service!Answer(w)
<1>. USE DBAssumption DEF IInv, MsgTypeOK, QueryDone, Goto
<1>1. req[w] \in Requests /\ req[w] # None BY DEF ReqWhileQuery
<1>2. /\ rq' = rq /\ req'[w] = None /\ answered' = answered \cup {req[w]}
      /\ \A v \in Conns \ {w} : req'[v] = req[v]
  OBVIOUS
<1>3. MsgTypeOK' /\ NoThreadsYet' /\ ReqWhileQuery'
  BY <1>2 DEF ownVars, NoThreadsYet, ReqWhileQuery
<1>4. OnePlace'
  <2>0. \A i \in DOMAIN rq : rq[i] \in Requests OBVIOUS
  <2>1. \A i \in DOMAIN rq, v \in Conns : rq[i] # req'[v]
    BY <1>2, <2>0 DEF OnePlace
  <2>2. \A i \in DOMAIN rq : rq[i] \notin answered'
    BY <1>2 DEF OnePlace
  <2>3. \A u, v \in Conns : req'[u] = req'[v] /\ req'[u] # None => u = v
    BY <1>2 DEF OnePlace
  <2>4. \A v \in Conns : req'[v] \notin answered'
    BY <1>1, <1>2 DEF OnePlace
  <2>. QED BY <1>2, <2>1, <2>2, <2>3, <2>4 DEF OnePlace
<1>5. Service!Answer(w)
  BY <1>1, <1>2 DEF Service!Answer, OnePlace
<1>. QED BY <1>3, <1>4, <1>5

\* A step that leaves the requests alone keeps OnePlace; what it does to the
\* threads is the rest of the invariant.
LEMMA SilentStep ==
    ASSUME IInv, UNCHANGED msgVars, MsgTypeOK', NoThreadsYet', ReqWhileQuery'
    PROVE  IInv' /\ UNCHANGED Service!vars
BY DEF IInv, OnePlace, msgVars, Service!vars

\* What the callers of the pool do, and the database.
CallStep ==
    \/ OwnerStep \/ StartRun \/ Stop \/ DestroyStarted \/ DestroyStopped
    \/ RecoverStep \/ RecoverCheck \/ DbChanges

LEMMA CallerStep ==
    ASSUME IInv, CallStep
    PROVE  IInv' /\ UNCHANGED Service!vars
<1>. USE DEF IInv, MsgTypeOK, NoThreadsYet, ReqWhileQuery, msgVars, ownVars,
             recVars, dbVars, Usable
<1>1. UNCHANGED msgVars /\ MsgTypeOK' /\ NoThreadsYet' /\ ReqWhileQuery'
  <2>1. CASE StartPush BY <2>1 DEF StartPush
  <2>2. CASE StartSet BY <2>2 DEF StartSet
  <2>3. CASE DestroyReturns BY <2>3 DEF DestroyReturns
  <2>4. CASE StartRun BY <2>4 DEF StartRun
  <2>5. CASE Stop BY <2>5 DEF Stop
  <2>6. CASE DestroyStarted BY <2>6 DEF DestroyStarted
  <2>7. CASE DestroyStopped BY <2>7 DEF DestroyStopped
  <2>8. CASE RecoverCheck BY <2>8 DEF RecoverCheck
  <2>9. CASE RecoverCount BY <2>9 DEF RecoverCount
  <2>10. CASE RecoverPush BY <2>10 DEF RecoverPush
  <2>11. CASE RecoverReturns BY <2>11 DEF RecoverReturns
  <2>12. CASE DbChanges BY <2>12 DEF DbChanges
  <2>. QED BY <2>1, <2>2, <2>3, <2>4, <2>5, <2>6, <2>7, <2>8, <2>9, <2>10, <2>11,
              <2>12 DEF CallStep, OwnerStep, RecoverStep
<1>. QED BY <1>1, SilentStep

\* What a Work does between two requests.
LEMMA ThreadStep ==
    ASSUME IInv, NEW w \in Conns, WorkStep(w) \/ LockToPing(w), ~QueryDone(w)
    PROVE  IInv' /\ UNCHANGED Service!vars
<1>. USE DEF IInv, MsgTypeOK, NoThreadsYet, ReqWhileQuery, msgVars, ownVars,
             recVars, dbVars, Goto
<1>1. UNCHANGED msgVars /\ MsgTypeOK' /\ NoThreadsYet' /\ ReqWhileQuery'
  <2>1. CASE TakeWork(w) BY <2>1 DEF TakeWork
  <2>2. CASE ExitThread(w) BY <2>2 DEF ExitThread
  <2>3. CASE Connect(w) BY <2>3 DEF Connect
  <2>4. CASE CountUp(w) BY <2>4 DEF CountUp
  <2>5. CASE TestStarted(w) BY <2>5 DEF TestStarted
  <2>6. CASE CountDown(w) BY <2>6 DEF CountDown
  <2>7. CASE PingDone(w) BY <2>7 DEF PingDone
  <2>8. CASE LockToPing(w) BY <2>8 DEF LockToPing
  <2>. QED BY <2>1, <2>2, <2>3, <2>4, <2>5, <2>6, <2>7, <2>8 DEF WorkStep
<1>. QED BY <1>1, SilentStep

\* Every step keeps the invariant and is a step of the service or none.
LEMMA RefinementStep ==
    ASSUME IInv, [Next]_vars
    PROVE  IInv' /\ [Service!Next]_(Service!vars)
<1>1. CASE CallStep BY <1>1, CallerStep
<1>2. ASSUME NEW r \in Requests, Query(r)
      PROVE  IInv' /\ [Service!Next]_(Service!vars)
  BY <1>2, QueryStep DEF Service!Next
<1>3. ASSUME NEW w \in Conns, QueryDone(w)
      PROVE  IInv' /\ [Service!Next]_(Service!vars)
  BY <1>3, DoneStep DEF Service!Next
<1>4. ASSUME NEW w \in Conns, LockToQuery(w)
      PROVE  IInv' /\ [Service!Next]_(Service!vars)
  BY <1>4, TakeStep DEF Service!Next
<1>5. ASSUME NEW w \in Conns, WorkStep(w) \/ LockToPing(w), ~QueryDone(w)
      PROVE  IInv' /\ [Service!Next]_(Service!vars)
  BY <1>5, ThreadStep
<1>6. CASE UNCHANGED vars
  <2>1. UNCHANGED msgVars /\ MsgTypeOK' /\ NoThreadsYet' /\ ReqWhileQuery'
    BY <1>6 DEF vars, msgVars, ownVars, IInv, MsgTypeOK, NoThreadsYet, ReqWhileQuery
  <2>. QED BY <2>1, SilentStep
<1>. QED BY <1>1, <1>2, <1>3, <1>4, <1>5, <1>6 DEF Next, CallStep, Locks

\* No request is lost, answered twice or served by two connections, at any
\* point of any Start, Stop, Recover and destruction.
THEOREM RequestsHaveOnePlace == Spec => []OnePlace
<1>1. IInv => OnePlace BY DEF IInv
<1>. QED BY <1>1, InitIInv, RefinementStep, PTL DEF Spec

\* The pool implements the service it promises.
THEOREM Implements == Spec => ImplementsService
<1>1. Init => Service!Init BY DEF Init, Service!Init
<1>. QED BY <1>1, InitIInv, RefinementStep, PTL DEF Spec, ImplementsService, Service!Spec

----------------------------------------------------------------------------
(* m_LiveConnNum.                                                          *)

\* The Works that have counted themselves up and not down.
Counted ==
    {w \in Conns : wpc[w] \in {"test", "lock", "ping", "query", "leave", "ub"}}

LiveInv == TypeOK /\ live = Cardinality(Counted)

LEMMA CountedFinite ==
    /\ IsFiniteSet(Counted) /\ Cardinality(Counted) \in Nat
    /\ N \in Nat /\ Cardinality(Counted) <= N
<1>1. Counted \in SUBSET Conns /\ IsFiniteSet(Conns) BY DBAssumption DEF Counted
<1>. HIDE DEF Counted
<1>. QED BY <1>1, FS_Subset, FS_CardinalityType DEF N

LEMMA InitLive == Init => LiveInv
<1>. SUFFICES ASSUME Init PROVE LiveInv
  OBVIOUS
<1>1. rq \in Seq(Requests) BY DEF Init
<1>2. TypeOK
  <2>1. {dbUp, started, poolRuns} \subseteq BOOLEAN BY DEF Init
  <2>. QED BY <1>1, <2>1 DEF Init, TypeOK
<1>3. Counted = {} BY DEF Init, Counted
<1>4. live = Cardinality(Counted) BY <1>3, FS_EmptySet DEF Init
<1>. QED BY <1>2, <1>4 DEF LiveInv

\* The callers of the pool count nobody; Run starts threads only where there
\* are none, and what Recover is missing is no negative number.
LEMMA CallerLive ==
    ASSUME IInv, LiveInv, CallStep
    PROVE  LiveInv'
<1>. USE DEF msgVars, ownVars, recVars, dbVars
<1>1. live' = live /\ UNCHANGED <<lock, rq, req, answered, driver>>
  BY DEF CallStep, OwnerStep, StartPush, StartSet, DestroyReturns, StartRun, Stop,
         DestroyStarted, DestroyStopped, RecoverStep, RecoverCount, RecoverPush,
         RecoverReturns, RecoverCheck, DbChanges
<1>2. Counted' = Counted /\ wpc' \in [Conns -> {"none", "free", "connect", "up", "test",
                     "lock", "ping", "query", "leave", "exited", "ub"}]
  <2>1. CASE StartRun
    BY <2>1 DEF StartRun, Counted, IInv, NoThreadsYet, LiveInv, TypeOK
  <2>2. CASE ~StartRun
    <3>1. wpc' = wpc
      BY <2>2 DEF CallStep, OwnerStep, StartPush, StartSet, DestroyReturns, Stop,
         DestroyStarted, DestroyStopped, RecoverStep, RecoverCount, RecoverPush,
         RecoverReturns, RecoverCheck, DbChanges
    <3>. QED BY <3>1 DEF Counted, LiveInv, TypeOK
  <2>. QED BY <2>1, <2>2
<1>3. Missing \in Nat
  <2>1. live = Cardinality(Counted) BY DEF LiveInv
  <2>. QED BY <2>1, CountedFinite DEF Missing
<1>4. {dbUp', started', poolRuns'} \subseteq BOOLEAN
  BY DEF CallStep, OwnerStep, StartPush, StartSet, DestroyReturns, StartRun, Stop,
         DestroyStarted, DestroyStopped, RecoverStep, RecoverCount, RecoverPush,
         RecoverReturns, RecoverCheck, DbChanges, LiveInv, TypeOK
<1>5. /\ {queued', toPush', toRecover', starts', recovers'} \subseteq Nat
      /\ opc' \in {"idle", "push", "joining", "stuck", "gone"}
      /\ rpc' \in {"idle", "count", "push"}
  <2>. USE <1>3, CountedFinite DEF LiveInv, TypeOK
  <2>1. CASE StartPush BY <2>1 DEF StartPush
  <2>2. CASE StartSet BY <2>2 DEF StartSet
  <2>3. CASE DestroyReturns BY <2>3 DEF DestroyReturns
  <2>4. CASE StartRun BY <2>4 DEF StartRun
  <2>5. CASE Stop BY <2>5 DEF Stop
  <2>6. CASE DestroyStarted BY <2>6 DEF DestroyStarted
  <2>7. CASE DestroyStopped BY <2>7 DEF DestroyStopped
  <2>8. CASE RecoverCheck BY <2>8 DEF RecoverCheck
  <2>9. CASE RecoverCount BY <2>9 DEF RecoverCount
  <2>10. CASE RecoverPush BY <2>10 DEF RecoverPush
  <2>11. CASE RecoverReturns BY <2>11 DEF RecoverReturns
  <2>12. CASE DbChanges BY <2>12 DEF DbChanges
  <2>. QED BY <2>1, <2>2, <2>3, <2>4, <2>5, <2>6, <2>7, <2>8, <2>9, <2>10, <2>11,
              <2>12 DEF CallStep, OwnerStep, RecoverStep
<1>6. TypeOK' BY <1>1, <1>2, <1>4, <1>5 DEF LiveInv, TypeOK
<1>. QED BY <1>1, <1>2, <1>6 DEF LiveInv

\* CountUp and CountDown move one Work into and out of the counted ones.
LEMMA WorkLive ==
    ASSUME IInv', LiveInv, NEW w \in Conns, WorkStep(w) \/ Locks(w)
    PROVE  LiveInv'
<1>. USE DEF msgVars, ownVars, recVars, dbVars, Goto
<1>. DEFINE At == {"none", "free", "connect", "up", "test", "lock", "ping", "query",
                   "leave", "exited", "ub"}
<1>1. PICK l \in At : wpc' = [wpc EXCEPT ![w] = l]
  BY DEF WorkStep, TakeWork, ExitThread, Connect, CountUp, TestStarted, CountDown,
         PingDone, QueryDone, Locks, LockToPing, LockToQuery
<1>2. /\ wpc \in [Conns -> At] /\ wpc' \in [Conns -> At] /\ wpc'[w] = l
      /\ \A v \in Conns \ {w} : wpc'[v] = wpc[v]
  BY <1>1 DEF LiveInv, TypeOK
<1>3. UNCHANGED <<driver, dbUp, started, poolRuns, toPush, toRecover, starts, recovers,
                  opc, rpc>>
  BY DEF WorkStep, TakeWork, ExitThread, Connect, CountUp, TestStarted, CountDown,
         PingDone, QueryDone, Locks, LockToPing, LockToQuery
<1>4. lock' \in {lock, None, w} /\ queued' \in Nat
  BY DEF WorkStep, TakeWork, ExitThread, Connect, CountUp, TestStarted, CountDown,
         PingDone, QueryDone, Locks, LockToPing, LockToQuery, LiveInv, TypeOK
<1>5. live' = Cardinality(Counted') /\ live' \in Nat
  <2>. DEFINE C == Counted
              D == Counted'
  <2>0. IsFiniteSet(C) /\ Cardinality(C) \in Nat /\ live = Cardinality(C)
    BY CountedFinite DEF LiveInv
  <2>1. CASE CountUp(w)
    <3>1. l = "test" /\ live' = live + 1 /\ wpc[w] = "up"
      BY <1>1, <1>2, <2>1 DEF CountUp
    <3>2. D = C \cup {w} /\ w \notin C BY <1>2, <3>1 DEF Counted
    <3>. HIDE DEF C, D
    <3>3. Cardinality(D) = Cardinality(C) + 1 BY <2>0, <3>2, FS_AddElement
    <3>. QED BY <2>0, <3>1, <3>3 DEF D
  <2>2. CASE CountDown(w)
    <3>1. l = "free" /\ live' = live - 1 /\ wpc[w] = "leave"
      BY <1>1, <1>2, <2>2 DEF CountDown
    <3>2. D = C \ {w} /\ w \in C BY <1>2, <3>1 DEF Counted
    <3>. HIDE DEF C, D
    <3>3. Cardinality(D) = Cardinality(C) - 1 /\ IsFiniteSet(D)
      BY <2>0, <3>2, FS_RemoveElement
    <3>4. Cardinality(D) \in Nat BY <3>3, FS_CardinalityType
    <3>. QED BY <2>0, <3>1, <3>3, <3>4 DEF D
  <2>3. CASE ~CountUp(w) /\ ~CountDown(w)
    <3>1. live' = live
      BY <2>3 DEF WorkStep, TakeWork, ExitThread, Connect, TestStarted, PingDone,
                  QueryDone, Locks, LockToPing, LockToQuery
    <3>2. w \in D <=> w \in C
      BY <1>2, <2>3 DEF WorkStep, TakeWork, ExitThread, Connect, TestStarted, PingDone,
                        QueryDone, Locks, LockToPing, LockToQuery, Counted
    <3>3. D = C BY <1>2, <3>2 DEF Counted
    <3>. QED BY <2>0, <3>1, <3>3
  <2>. QED BY <2>1, <2>2, <2>3
<1>6. TypeOK'
  BY <1>3, <1>4, <1>5 DEF IInv, MsgTypeOK, LiveInv, TypeOK
<1>. QED BY <1>5, <1>6 DEF LiveInv

LEMMA LiveStep ==
    ASSUME IInv, IInv', LiveInv, [Next]_vars
    PROVE  LiveInv'
<1>1. CASE CallStep BY <1>1, CallerLive
<1>2. ASSUME NEW r \in Requests, Query(r) PROVE LiveInv'
  BY <1>2 DEF Query, IInv, MsgTypeOK, LiveInv, TypeOK, Counted, dbVars, ownVars, recVars
<1>3. ASSUME NEW w \in Conns, WorkStep(w) \/ Locks(w) PROVE LiveInv'
  BY <1>3, WorkLive
<1>4. CASE UNCHANGED vars
  BY <1>4 DEF vars, msgVars, dbVars, ownVars, recVars, LiveInv, TypeOK, Counted
<1>. QED BY <1>1, <1>2, <1>3, <1>4 DEF Next, CallStep

\* Types, of which the hard one is that Recover never counts a negative number
\* of missing connections.
THEOREM TypeCorrect == Spec => []TypeOK
<1>1. LiveInv => TypeOK BY DEF LiveInv
<1>. QED BY <1>1, InitIInv, RefinementStep, InitLive, LiveStep, PTL DEF Spec

\* m_LiveConnNum is the number of Works between their count up and their count
\* down, whatever Start, Stop, Recover and the database do.
THEOREM LiveIsCounted == Spec => [](live = Cardinality(Counted))
<1>1. LiveInv => live = Cardinality(Counted) BY DEF LiveInv
<1>. QED BY <1>1, InitIInv, RefinementStep, InitLive, LiveStep, PTL DEF Spec
=============================================================================
