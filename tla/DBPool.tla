------------------------------- MODULE DBPool -------------------------------
(***************************************************************************)
(* src/common/db/DBPool: a ThreadPool whose tasks, the Works, hold one     *)
(* database connection each and take requests from the queue m_rq.  One    *)
(* thread starts, stops and destroys the pool, another calls Recover, any  *)
(* thread calls Query.  The thread pool is a number of queued tasks that   *)
(* free threads take, as ThreadPool shows.                                 *)
(*                                                                         *)
(* On this build CondWait(DB_PING_TIMEMS) returns at once: its relative    *)
(* time is an absolute one long past.  A connection therefore never sleeps *)
(* in the queue, the broadcasts of Query and Stop reach nobody, and the    *)
(* unlock inside the wait adds nothing to the lock before it.              *)
(***************************************************************************)
EXTENDS Naturals, Sequences, FiniteSets

CONSTANTS
    Conns,        \* threads of the thread pool; m_maxConn is their number
    Requests,     \* each asked once
    Drivers,      \* which of "redis", "mysql" the pool may be made for
    MaxStarts,    \* bound: calls of Start
    MaxRecovers,  \* bound: calls of Recover
    None          \* nobody, nothing

N == Cardinality(Conns)

ASSUME DBAssumption ==
    /\ IsFiniteSet(Conns) /\ None \notin Conns /\ None \notin Requests
    /\ Drivers \subseteq {"redis", "mysql"}
    /\ MaxStarts \in Nat /\ MaxRecovers \in Nat

VARIABLES
    driver,     \* m_dbType
    dbUp,       \* the database accepts connections
    started,    \* m_started
    live,       \* m_LiveConnNum
    poolRuns,   \* m_running of m_threadPool
    queued,     \* Works in m_tq of m_threadPool
    opc,        \* where the owner of the pool is
    toPush,     \* Works its Start has still to push
    starts,     \* calls of Start so far
    rpc,        \* where the caller of Recover is
    toRecover,  \* Works it has still to push
    recovers,   \* calls of Recover so far
    wpc,        \* where each thread of the thread pool is
    lock,       \* owner of m_mutex
    rq,         \* m_rq
    req,        \* the local req of each Work
    answered    \* history: requests whose callback has run

ownVars == <<opc, toPush, starts>>
recVars == <<rpc, toRecover, recovers>>
dbVars  == <<driver, dbUp>>
msgVars == <<rq, req, answered>>
vars == <<dbVars, started, live, poolRuns, queued, ownVars, recVars, wpc, lock,
          msgVars>>

Init ==
    /\ driver \in Drivers /\ dbUp = TRUE
    /\ started = FALSE /\ live = 0 /\ poolRuns = FALSE /\ queued = 0
    /\ opc = "idle" /\ toPush = 0 /\ starts = 0
    /\ rpc = "idle" /\ toRecover = 0 /\ recovers = 0
    /\ wpc = [w \in Conns |-> "none"]
    /\ lock = None /\ rq = <<>>
    /\ req = [w \in Conns |-> None]
    /\ answered = {}

Usable == opc \in {"idle", "push"}
InLoop(w) == wpc[w] \in {"test", "lock", "ping", "query"}

----------------------------------------------------------------------------
(* Start, Stop and the destructor.                                         *)

StartRun ==
    /\ opc = "idle" /\ ~started /\ starts < MaxStarts
    /\ starts' = starts + 1
    /\ poolRuns' = TRUE
    /\ wpc' = IF poolRuns THEN wpc ELSE [w \in Conns |-> "free"]
    /\ opc' = "push" /\ toPush' = N
    /\ UNCHANGED <<dbVars, started, live, queued, recVars, lock, msgVars>>

StartPush ==
    /\ opc = "push" /\ toPush > 0
    /\ toPush' = toPush - 1 /\ queued' = queued + 1
    /\ UNCHANGED <<dbVars, started, live, poolRuns, opc, starts, recVars, wpc,
                   lock, msgVars>>

\* A Work that was quick saw m_started false and has left its loop.
StartSet ==
    /\ opc = "push" /\ toPush = 0
    /\ started' = TRUE /\ opc' = "idle"
    /\ UNCHANGED <<dbVars, live, poolRuns, queued, toPush, starts, recVars, wpc,
                   lock, msgVars>>

Stop ==
    /\ opc = "idle" /\ started
    /\ started' = FALSE
    /\ UNCHANGED <<dbVars, live, poolRuns, queued, ownVars, recVars, wpc, lock,
                   msgVars>>

\* The destructor of a started pool stops the thread pool and joins its
\* threads; m_started stays set.
DestroyStarted ==
    /\ opc = "idle" /\ rpc = "idle" /\ started
    /\ poolRuns' = FALSE /\ opc' = "joining"
    /\ UNCHANGED <<dbVars, started, live, queued, toPush, starts, recVars, wpc,
                   lock, msgVars>>

DestroyReturns ==
    /\ opc = "joining" /\ \A w \in Conns : wpc[w] = "exited"
    /\ opc' = "gone"
    /\ UNCHANGED <<dbVars, started, live, poolRuns, queued, toPush, starts,
                   recVars, wpc, lock, msgVars>>

\* Of a pool that was stopped m_cond, m_mutex and m_rq are destroyed first;
\* then ~ThreadPool joins threads that nobody told to end.
DestroyStopped ==
    /\ opc = "idle" /\ rpc = "idle" /\ ~started
    /\ opc' = IF poolRuns THEN "stuck" ELSE "gone"
    /\ UNCHANGED <<dbVars, started, live, poolRuns, queued, toPush, starts,
                   recVars, wpc, lock, msgVars>>

----------------------------------------------------------------------------
(* Recover and Query.                                                      *)

\* Its two reads of m_LiveConnNum.
RecoverCheck ==
    /\ rpc = "idle" /\ Usable /\ started /\ live < N /\ recovers < MaxRecovers
    /\ rpc' = "count" /\ recovers' = recovers + 1
    /\ UNCHANGED <<dbVars, started, live, poolRuns, queued, ownVars, toRecover,
                   wpc, lock, msgVars>>

\* Mutant: one Work however many connections are missing.
Missing_One == IF live < N THEN 1 ELSE 0

Missing == N - live

RecoverCount ==
    /\ rpc = "count"
    /\ toRecover' = Missing
    /\ rpc' = "push"
    /\ UNCHANGED <<dbVars, started, live, poolRuns, queued, ownVars, recovers,
                   wpc, lock, msgVars>>

RecoverPush ==
    /\ rpc = "push" /\ toRecover > 0
    /\ toRecover' = toRecover - 1 /\ queued' = queued + 1
    /\ UNCHANGED <<dbVars, started, live, poolRuns, ownVars, rpc, recovers,
                   wpc, lock, msgVars>>

RecoverReturns ==
    /\ rpc = "push" /\ toRecover = 0
    /\ rpc' = "idle"
    /\ UNCHANGED <<dbVars, started, live, poolRuns, queued, ownVars, toRecover,
                   recovers, wpc, lock, msgVars>>

Asked == {rq[i] : i \in DOMAIN rq} \cup {req[w] : w \in Conns} \cup answered

\* Also before Start and after Stop.
Query(r) ==
    /\ Usable /\ lock = None /\ r \notin Asked
    /\ rq' = Append(rq, r)
    /\ UNCHANGED <<dbVars, started, live, poolRuns, queued, ownVars, recVars, wpc,
                   lock, req, answered>>

----------------------------------------------------------------------------
(* The threads of the pool.                                                *)

Goto(w, l) == wpc' = [wpc EXCEPT ![w] = l]

TakeWork(w) ==
    /\ wpc[w] = "free" /\ poolRuns /\ queued > 0
    /\ queued' = queued - 1 /\ Goto(w, "connect")
    /\ UNCHANGED <<dbVars, started, live, poolRuns, ownVars, recVars, lock, msgVars>>

\* Mutant: a thread ends only when no Work is left.
ExitThread_Drains(w) ==
    /\ wpc[w] = "free" /\ ~poolRuns /\ queued = 0
    /\ Goto(w, "exited")
    /\ UNCHANGED <<dbVars, started, live, poolRuns, queued, ownVars, recVars, lock,
                   msgVars>>

ExitThread(w) ==
    /\ wpc[w] = "free" /\ ~poolRuns
    /\ Goto(w, "exited")
    /\ UNCHANGED <<dbVars, started, live, poolRuns, queued, ownVars, recVars, lock,
                   msgVars>>

\* DBRedis::Connect is true when redisConnect succeeds; DBMysql::Connect ends
\* in "return 0", which is false, also when mysql_real_connect succeeds.
Connects == driver = "redis" /\ dbUp

Connect(w) ==
    /\ wpc[w] = "connect"
    /\ Goto(w, IF Connects THEN "up" ELSE "free")
    /\ UNCHANGED <<dbVars, started, live, poolRuns, queued, ownVars, recVars, lock,
                   msgVars>>

CountUp(w) ==
    /\ wpc[w] = "up"
    /\ live' = live + 1 /\ Goto(w, "test")
    /\ UNCHANGED <<dbVars, started, poolRuns, queued, ownVars, recVars, lock,
                   msgVars>>

\* The test of the loop.
TestStarted(w) ==
    /\ wpc[w] = "test"
    /\ Goto(w, IF started THEN "lock" ELSE "leave")
    /\ UNCHANGED <<dbVars, started, live, poolRuns, queued, ownVars, recVars, lock,
                   msgVars>>

CountDown(w) ==
    /\ wpc[w] = "leave"
    /\ live' = live - 1 /\ Goto(w, "free")
    /\ UNCHANGED <<dbVars, started, poolRuns, queued, ownVars, recVars, lock,
                   msgVars>>

\* The Work has m_mutex, finds the queue empty and keeps it for its Ping; a
\* mutex that was destroyed is undefined behaviour.
LockToPing(w) ==
    /\ wpc[w] = "lock" /\ lock = None /\ (rq = <<>> \/ opc = "stuck")
    /\ IF opc = "stuck" THEN Goto(w, "ub") /\ UNCHANGED lock
                        ELSE Goto(w, "ping") /\ lock' = w
    /\ UNCHANGED <<dbVars, started, live, poolRuns, queued, ownVars, recVars,
                   msgVars>>

\* The database answers the Ping, or fails it: pingNum is never counted up to
\* DB_PING_MAX, as it starts from 0 in every round.
PingDone(w) ==
    /\ wpc[w] = "ping"
    /\ Goto(w, "test") /\ lock' = None
    /\ UNCHANGED <<dbVars, started, live, poolRuns, queued, ownVars, recVars,
                   msgVars>>

\* Mutant: the request stays in the queue.
Pop_None(q) == q

Pop(q) == Tail(q)

LockToQuery(w) ==
    /\ wpc[w] = "lock" /\ lock = None /\ rq # <<>> /\ opc # "stuck"
    /\ req' = [req EXCEPT ![w] = Head(rq)]
    /\ rq' = Pop(rq)
    /\ Goto(w, "query")
    /\ UNCHANGED <<dbVars, started, live, poolRuns, queued, ownVars, recVars, lock,
                   answered>>

\* The query returns, with a result or an error, and the callback runs.
QueryDone(w) ==
    /\ wpc[w] = "query"
    /\ answered' = answered \cup {req[w]}
    /\ req' = [req EXCEPT ![w] = None]
    /\ Goto(w, "test")
    /\ UNCHANGED <<dbVars, started, live, poolRuns, queued, ownVars, recVars, lock,
                   rq>>

\* External: the database goes down and comes up.
DbChanges ==
    /\ dbUp' = ~dbUp
    /\ UNCHANGED <<driver, started, live, poolRuns, queued, ownVars, recVars, wpc,
                   lock, msgVars>>

----------------------------------------------------------------------------
OwnerStep == StartPush \/ StartSet \/ DestroyReturns
RecoverStep == RecoverCount \/ RecoverPush \/ RecoverReturns
Locks(w) == LockToPing(w) \/ LockToQuery(w)
WorkStep(w) ==
    \/ TakeWork(w) \/ ExitThread(w) \/ Connect(w) \/ CountUp(w) \/ TestStarted(w)
    \/ CountDown(w) \/ PingDone(w) \/ QueryDone(w)

Next ==
    \/ OwnerStep \/ StartRun \/ Stop \/ DestroyStarted \/ DestroyStopped
    \/ RecoverStep \/ RecoverCheck
    \/ \E r \in Requests : Query(r)
    \/ \E w \in Conns : WorkStep(w) \/ Locks(w)
    \/ DbChanges

Spec == Init /\ [][Next]_vars

\* Threads are scheduled, a mutex is had in the end, and the database replies
\* to what it was sent.  Nothing is asked of the application.
FairSpec ==
    /\ Spec
    /\ WF_vars(OwnerStep) /\ WF_vars(RecoverStep)
    /\ \A w \in Conns : WF_vars(WorkStep(w)) /\ SF_vars(Locks(w))

----------------------------------------------------------------------------
(* Properties.                                                             *)

TypeOK ==
    /\ driver \in Drivers /\ {dbUp, started, poolRuns} \subseteq BOOLEAN
    /\ {live, queued, toPush, toRecover, starts, recovers} \subseteq Nat
    /\ opc \in {"idle", "push", "joining", "stuck", "gone"}
    /\ rpc \in {"idle", "count", "push"}
    /\ wpc \in [Conns -> {"none", "free", "connect", "up", "test", "lock", "ping",
                          "query", "leave", "exited", "ub"}]
    /\ lock \in Conns \cup {None}
    /\ rq \in Seq(Requests) /\ req \in [Conns -> Requests \cup {None}]
    /\ answered \subseteq Requests

Service == INSTANCE DBService WITH line <- rq, serving <- req

\* Query keeps the promise of DBService, whatever Start, Stop, Recover and the
\* connections do: a request is taken up in turn and answered at most once.
ImplementsService == Service!Spec

\* A request is answered as long as some connection stays in its loop, though
\* the one broadcast of Query may come while all of them are busy.
QueryAnswered ==
    \A r \in Requests :
        (\E i \in DOMAIN rq : rq[i] = r) ~>
            (r \in answered \/ \A w \in Conns : ~InLoop(w))

\* "Recover the number of connections to maxConn" (DBPool.h): it does, if the
\* database stays up and no connection is just leaving when it counts them.
RecoverRestores ==
    rpc = "count" ~> (live = N \/ ~started \/ ~dbUp \/ driver = "mysql" \/ ~Usable
                      \/ \E w \in Conns : wpc[w] = "leave")

\* The destructor of a started pool returns if no connection came up; it hangs
\* on any Work in its loop, which only m_started ends.
DestroyHangsOnConnection ==
    opc = "joining" ~> (opc = "gone" \/ \E w \in Conns : InLoop(w))
=============================================================================
