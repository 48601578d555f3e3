------------------------- MODULE EventCentre_proofs -------------------------
(***************************************************************************)
(* Proofs about EventCentre for every set of events, timers and threads:   *)
(* typing, mutual exclusion and wake-ups for every use the application may *)
(* make of them, the life of events for the uses HandlersCancel allows.    *)
(***************************************************************************)
EXTENDS EventCentre, FiniteSetTheorems, TLAPS

\* A handler belongs to an entry of the list, and the event of a call exists.
TypeInv ==
    /\ TypeOK
    /\ pc = "handle" => active # <<>>
    /\ \A t \in Threads : op[t].step \in {"register", "added", "cancel"} =>
            op[t].ev \in Io \cup Timers

\* A thread enters or leaves a call.
LEMMA OpUpdate ==
    ASSUME NEW f \in [Threads -> Calls], NEW t \in Threads,
           NEW e \in Events, e \in Io \cup Timers,
           NEW s \in {"register", "added", "cancel"},
           \A u \in Threads : f[u].step \in {"register", "added", "cancel"} =>
               f[u].ev \in Io \cup Timers,
           NEW g, g = [f EXCEPT ![t] = Idle] \/ g = [f EXCEPT ![t] = Call(s, e)]
    PROVE  /\ g \in [Threads -> Calls]
           /\ \A u \in Threads : g[u].step \in {"register", "added", "cancel"} =>
               g[u].ev \in Io \cup Timers
BY DEF Calls, Idle, Call

LEMMA InitTypeInv == Init => TypeInv
<1>. SUFFICES ASSUME Init PROVE TypeInv
  OBVIOUS
<1>1. active \in Seq(Events) /\ waiting \in Seq(Events) BY DEF Init
<1>2. curEv \in [Events -> Seq(Kinds)] BY DEF Init
<1>3. centre \in [Events -> BOOLEAN] BY DEF Init
<1>4. \A t \in Threads : op[t] = [step |-> "idle", ev |-> None]
  BY DEF Init, Idle
<1>5. op \in [Threads -> Calls]
  BY <1>4 DEF Init, Idle, Calls
<1>6. heap \in [Timers -> Int] /\ regs \in [Events -> Nat] BY DEF Init
<1>7. lock \in Threads \cup {None} /\ batch \subseteq Events /\ timerMap \subseteq Timers
      /\ netEvents \subseteq Net /\ due \subseteq Timers /\ suspended \subseteq Timers
      /\ ready \subseteq Net /\ held \subseteq Io \cup Timers
  BY DEF Init, Net
<1>8. /\ pc = "start" /\ running = FALSE /\ timeout = "zero"
      /\ eventsNum = 1 /\ curTimers = 0
  BY DEF Init
<1>9. running \in BOOLEAN BY <1>8, Zenon
<1>10. eventsNum \in Int /\ curTimers \in Int BY <1>8
<1>11. TypeOK
  BY <1>1, <1>2, <1>3, <1>5, <1>6, <1>7, <1>8, <1>9, <1>10 DEF TypeOK
<1>. QED BY <1>4, <1>8, <1>11 DEF TypeInv

LEMMA LoopStepType == ASSUME TypeInv, LoopStep PROVE TypeInv'
<1>. USE ConstantsAssumption DEF TypeInv, TypeOK, loopVars, regVars, envVars,
        appVars, Events, Net
<1>1. CASE StartLoop BY <1>1 DEF StartLoop
<1>2. CASE CheckRunning BY <1>2 DEF CheckRunning
<1>3. CASE MakeWaittingToActive
  <2>1. active' \in Seq(Events) /\ waiting' \in Seq(Events)
    BY <1>3 DEF MakeWaittingToActive
  <2>. QED BY <1>3, <2>1 DEF MakeWaittingToActive
<1>4. CASE CalculateTimeoutMs
  <2>1. timeout' \in {"zero", "finite", "infinite"}
    BY <1>4 DEF CalculateTimeoutMs, PollTimeout, NextTimeout
  <2>. QED BY <1>4, <2>1 DEF CalculateTimeoutMs
<1>5. CASE PollReturns BY <1>5 DEF PollReturns, EpollReady
<1>6. ASSUME NEW e \in Net, PushActiveEvent(e) PROVE TypeInv'
  <2>1. e \in Events /\ "R" \in Kinds BY DEF Kinds
  <2>2. Append(active, e) \in Seq(Events) BY <2>1
  <2>3. active' \in Seq(Events) BY <1>6, <2>2 DEF PushActiveEvent
  <2>4. curEv' = curEv \/ curEv' = [curEv EXCEPT ![e] = Append(curEv[e], "R")]
    BY <1>6 DEF PushActiveEvent
  <2>5. [curEv EXCEPT ![e] = Append(curEv[e], "R")] \in [Events -> Seq(Kinds)]
    BY <2>1
  <2>6. curEv' \in [Events -> Seq(Kinds)] BY <2>4, <2>5
  <2>. QED BY <1>6, <2>3, <2>6 DEF PushActiveEvent
<1>7. CASE TimerLaunch BY <1>7 DEF TimerLaunch, InHeap
<1>8. ASSUME NEW t \in Timers, FireTimer(t) PROVE TypeInv'
  <2>1. active' \in Seq(Events) BY <1>8 DEF FireTimer
  <2>2. heap' \in [Timers -> Int] BY <1>8 DEF FireTimer
  <2>3. timerMap' \subseteq Timers /\ curTimers' \in Int BY <1>8 DEF FireTimer
  <2>4. due' \subseteq Timers /\ batch' \subseteq Events BY <1>8 DEF FireTimer
  <2>. QED BY <1>8, <2>1, <2>2, <2>3, <2>4 DEF FireTimer
<1>9. CASE TimersDone BY <1>9 DEF TimersDone
<1>10. CASE BeginProcess BY <1>10 DEF BeginProcess, Threads
<1>11. CASE ProcessDangling BY <1>11 DEF ProcessDangling
<1>12. CASE ProcessCancel
  <2>1. active' \in Seq(Events) BY <1>12 DEF ProcessCancel, NextEntries
  <2>. QED BY <1>12, <2>1 DEF ProcessCancel, DeleteEvent
<1>13. CASE SkipCancelled
  <2>1. active' \in Seq(Events) BY <1>13 DEF SkipCancelled, NextEntries
  <2>. QED BY <1>13, <2>1 DEF SkipCancelled
<1>14. CASE BeginHandle BY <1>14 DEF BeginHandle
<1>15. CASE HandlerReturns
  <2>1. Head(active) \in Events /\ active' \in Seq(Events)
    BY <1>15 DEF HandlerReturns, NextEntries
  <2>2. PopCurEv(Head(active)) \in Seq(Kinds)
    BY <2>1 DEF PopCurEv
  <2>3. curEv' \in [Events -> Seq(Kinds)]
    BY <1>15, <2>2 DEF HandlerReturns
  <2>. QED BY <1>15, <2>1, <2>3 DEF HandlerReturns
<1>16. CASE EndProcess BY <1>16 DEF EndProcess
<1>. QED BY <1>1, <1>2, <1>3, <1>4, <1>5, <1>6, <1>7, <1>8, <1>9, <1>10,
       <1>11, <1>12, <1>13, <1>14, <1>15, <1>16 DEF LoopStep

LEMMA CallType ==
    ASSUME TypeInv, NEW t \in Threads, BeginCall(t) \/ FinishCall(t)
    PROVE  TypeInv'
<1>. USE ConstantsAssumption DEF TypeInv, TypeOK, loopVars, regVars, envVars,
        appVars, Events, Net, Idle, Call, Calls, Locked, Unlocked
<1>1. ASSUME NEW e \in Io \cup Timers, RegisterCall(t, e) PROVE TypeInv'
  BY <1>1 DEF RegisterCall
<1>2. ASSUME NEW e \in Io \cup Timers, CancelPush(t, e) PROVE TypeInv'
  <2>1. waiting' \in Seq(Events) /\ curEv' \in [Events -> Seq(Kinds)]
    BY <1>2 DEF CancelPush, PushEvent, Kinds
  <2>. QED BY <1>2, <2>1, SMTT(60) DEF CancelPush
<1>3. ASSUME NEW e \in Io \cup Timers, Drop(t, e) PROVE TypeInv'
  BY <1>3 DEF Drop
<1>4. ASSUME NEW e \in Io, UpdateEvent(t, e) PROVE TypeInv'
  BY <1>4 DEF UpdateEvent
<1>5. ASSUME NEW e \in Timers, Suspend(t, e) \/ Resume(t, e) PROVE TypeInv'
  BY <1>5 DEF Suspend, Resume
<1>6. CASE ExitStore(t) BY <1>6, ZenonT(60) DEF ExitStore
<1>7. CASE RegisterAdd(t)
  <2>0. op[t].ev \in Io \cup Timers BY <1>7 DEF RegisterAdd
  <2>1. op' = [op EXCEPT ![t] = Idle] \/ op' = [op EXCEPT ![t] = Call("added", op[t].ev)]
    BY <1>7 DEF RegisterAdd
  <2>4. op' \in [Threads -> Calls]
    BY <2>0, <2>1, OpUpdate, SMTT(60)
  <2>3. op[t].ev \in Events BY <2>0
  <2>5. ASSUME NEW u \in Threads,
               op'[u].step \in {"register", "added", "cancel"}
        PROVE  op'[u].ev \in Io \cup Timers
    <3>1. CASE u = t BY <2>0, <2>1, <2>5, <3>1
    <3>2. CASE u # t
      <4>1. op'[u] = op[u] BY <2>1, <3>2
      <4>. QED BY <2>5, <4>1
    <3>. QED BY <3>1, <3>2
  <2>6. lock' \in Threads \cup {None}
    BY <1>7 DEF RegisterAdd
  <2>2. \/ UNCHANGED <<netEvents, timerMap, heap, curTimers, ready>>
        \/ AddEvent(op[t].ev)
        \/ AddTimer(op[t].ev)
    BY <1>7 DEF RegisterAdd
  <2>7. /\ netEvents' \subseteq Net /\ timerMap' \subseteq Timers
        /\ heap' \in [Timers -> Int] /\ curTimers' \in Int /\ ready' \subseteq Net
    BY <2>0, <2>2 DEF AddEvent, AddTimer, WakeUp
  <2>. QED BY <1>7, <2>4, <2>5, <2>6, <2>7 DEF RegisterAdd
<1>8. CASE RegisterDone(t) BY <1>8 DEF RegisterDone
<1>9. CASE CancelClear(t) BY <1>9 DEF CancelClear, Detach
<1>10. CASE ExitWake(t) BY <1>10 DEF ExitWake, WakeUp
<1>. QED BY <1>1, <1>2, <1>3, <1>4, <1>5, <1>6, <1>7, <1>8, <1>9, <1>10
       DEF BeginCall, FinishCall

LEMMA TypeStep == TypeInv /\ [Next]_vars => TypeInv'
<1>. SUFFICES ASSUME TypeInv, [Next]_vars PROVE TypeInv'
  OBVIOUS
<1>. USE DEF TypeInv, TypeOK, loopVars, regVars, envVars, appVars, Events, Net
<1>1. CASE LoopStep BY <1>1, LoopStepType
<1>2. CASE PollInterrupted BY <1>2 DEF PollInterrupted
<1>3. CASE PollFails BY <1>3 DEF PollFails
<1>4. ASSUME NEW t \in Threads, BeginCall(t) \/ FinishCall(t) PROVE TypeInv'
  BY <1>4, CallType
<1>5. ASSUME NEW e \in Io, Arrive(e) PROVE TypeInv' BY <1>5 DEF Arrive
<1>6. ASSUME NEW t \in Timers, Elapse(t) PROVE TypeInv' BY <1>6 DEF Elapse
<1>7. CASE UNCHANGED vars BY <1>7 DEF vars
<1>. QED BY <1>1, <1>2, <1>3, <1>4, <1>5, <1>6, <1>7 DEF Next

LEMMA TypeInvariant == Spec => []TypeInv
BY InitTypeInv, TypeStep, PTL DEF Spec

\* Type correctness of the centre: its lists hold events, its maps the events
\* of the right sort.
THEOREM TypeCorrect == Spec => []TypeOK
<1>1. TypeInv => TypeOK BY DEF TypeInv
<1>. QED BY <1>1, TypeInvariant, PTL

----------------------------------------------------------------------------
(* Mutual exclusion.                                                       *)

\* A call of the loop thread ends before the loop goes on.
LockInv ==
    /\ MutexHeld
    /\ op[Loop] # Idle => pc \in {"start", "handle"}

LEMMA LockInit == Init => LockInv
BY ConstantsAssumption DEF Init, LockInv, MutexHeld, Idle, Threads

LEMMA LoopStepLock == ASSUME TypeOK, LockInv, LoopStep PROVE LockInv'
<1>. USE ConstantsAssumption DEF TypeOK, LockInv, MutexHeld, Threads, Idle,
        appVars, LockFree
<1>1. CASE StartLoop BY <1>1 DEF StartLoop
<1>2. CASE CheckRunning BY <1>2 DEF CheckRunning
<1>3. CASE MakeWaittingToActive BY <1>3 DEF MakeWaittingToActive
<1>4. CASE CalculateTimeoutMs BY <1>4 DEF CalculateTimeoutMs
<1>5. CASE PollReturns BY <1>5 DEF PollReturns
<1>6. ASSUME NEW e \in Net, PushActiveEvent(e) PROVE LockInv'
  BY <1>6 DEF PushActiveEvent
<1>7. CASE TimerLaunch BY <1>7 DEF TimerLaunch
<1>8. ASSUME NEW t \in Timers, FireTimer(t) PROVE LockInv'
  BY <1>8 DEF FireTimer
<1>9. CASE TimersDone BY <1>9 DEF TimersDone
<1>10. CASE BeginProcess BY <1>10 DEF BeginProcess
<1>11. CASE ProcessDangling BY <1>11 DEF ProcessDangling
<1>12. CASE ProcessCancel BY <1>12 DEF ProcessCancel
<1>13. CASE SkipCancelled BY <1>13 DEF SkipCancelled
<1>14. CASE BeginHandle BY <1>14 DEF BeginHandle
<1>15. CASE HandlerReturns BY <1>15 DEF HandlerReturns
<1>16. CASE EndProcess BY <1>16 DEF EndProcess
<1>. QED BY <1>1, <1>2, <1>3, <1>4, <1>5, <1>6, <1>7, <1>8, <1>9, <1>10,
       <1>11, <1>12, <1>13, <1>14, <1>15, <1>16 DEF LoopStep

\* Whoever is between the two steps of a call has the lock, so that nobody
\* else can take it.
LEMMA CallLock ==
    ASSUME TypeOK, LockInv, NEW t \in Threads, BeginCall(t) \/ FinishCall(t)
    PROVE  LockInv'
<1>. USE ConstantsAssumption DEF TypeOK, LockInv, MutexHeld, Threads, Idle,
        Call, appVars, loopVars, LockFree, MayCall, Locked, Unlocked
<1>1. ASSUME NEW e \in Io \cup Timers, RegisterCall(t, e) PROVE LockInv'
  BY <1>1 DEF RegisterCall
<1>2. ASSUME NEW e \in Io \cup Timers, CancelPush(t, e) PROVE LockInv'
  BY <1>2 DEF CancelPush
<1>3. ASSUME NEW e \in Io \cup Timers, Drop(t, e) PROVE LockInv'
  BY <1>3 DEF Drop
<1>4. ASSUME NEW e \in Io, UpdateEvent(t, e) PROVE LockInv'
  BY <1>4 DEF UpdateEvent
<1>5. ASSUME NEW e \in Timers, Suspend(t, e) \/ Resume(t, e) PROVE LockInv'
  BY <1>5 DEF Suspend, Resume
<1>6. CASE ExitStore(t) BY <1>6 DEF ExitStore
<1>7. CASE RegisterAdd(t)
  <2>1. /\ lock \in {None, t} /\ op[t].step = "register" /\ UNCHANGED pc
        /\ \/ op' = [op EXCEPT ![t] = Idle] /\ UNCHANGED lock
           \/ op' = [op EXCEPT ![t] = Call("added", op[t].ev)] /\ lock' = t
    BY <1>7 DEF RegisterAdd
  <2>2. pc \in {"proc", "handle"} => lock' = Loop BY <2>1
  <2>3. \A u \in Threads : u # t => op'[u] = op[u] BY <2>1
  <2>4. ASSUME NEW u \in Threads, op'[u].step \in {"added", "cancel"}
        PROVE  lock' = u
    <3>1. CASE u = t BY <2>1, <2>4, <3>1
    <3>2. CASE u # t
      <4>1. op[u].step \in {"added", "cancel"} BY <2>3, <2>4, <3>2
      <4>. QED BY <2>1, <3>2, <4>1
    <3>. QED BY <3>1, <3>2
  <2>5. op'[Loop] # Idle => pc \in {"start", "handle"} BY <2>1
  <2>. QED BY <2>1, <2>2, <2>4, <2>5
<1>8. CASE RegisterDone(t) BY <1>8 DEF RegisterDone
<1>9. CASE CancelClear(t) BY <1>9 DEF CancelClear
<1>10. CASE ExitWake(t) BY <1>10 DEF ExitWake
<1>. QED BY <1>1, <1>2, <1>3, <1>4, <1>5, <1>6, <1>7, <1>8, <1>9, <1>10
       DEF BeginCall, FinishCall

LEMMA LockStep == TypeOK /\ LockInv /\ [Next]_vars => LockInv'
<1>. SUFFICES ASSUME TypeOK, LockInv, [Next]_vars PROVE LockInv'
  OBVIOUS
<1>. USE DEF LockInv, MutexHeld, loopVars, appVars
<1>1. CASE LoopStep BY <1>1, LoopStepLock
<1>2. CASE PollInterrupted BY <1>2 DEF PollInterrupted
<1>3. CASE PollFails BY <1>3 DEF PollFails
<1>4. ASSUME NEW t \in Threads, BeginCall(t) \/ FinishCall(t) PROVE LockInv'
  BY <1>4, CallLock
<1>5. ASSUME NEW e \in Io, Arrive(e) PROVE LockInv' BY <1>5 DEF Arrive
<1>6. ASSUME NEW t \in Timers, Elapse(t) PROVE LockInv' BY <1>6 DEF Elapse
<1>7. CASE UNCHANGED vars BY <1>7 DEF vars
<1>. QED BY <1>1, <1>2, <1>3, <1>4, <1>5, <1>6, <1>7 DEF Next

\* m_mutex, though it is recursive and the loop thread's handlers take it
\* again, is held by its owner through every call and through the whole of
\* ProcessActiveEvent: no other thread's RegisterEvent or CancelEvent runs
\* while a handler does.
THEOREM MutualExclusion == Spec => []MutexHeld
<1>1. LockInv => MutexHeld BY DEF LockInv
<1>. QED BY <1>1, LockInit, LockStep, TypeCorrect, PTL DEF Spec

----------------------------------------------------------------------------
(* Wake-ups.                                                               *)

\* Nobody cancels the wake-up event, so that it stays in the poller.
WakeStays ==
    /\ Wake \in netEvents
    /\ \A i \in DOMAIN curEv[Wake] : curEv[Wake][i] = "R"

\* From the test of m_running to the poll, a cleared m_running means that
\* the eventfd is or will be written.
ExitSeen ==
    pc \in {"make", "calc", "poll"} /\ ~running =>
        Wake \in ready \/ \E t \in Threads : op[t].step = "exit"

TimerSeen ==
    pc = "poll" /\ timeout = "infinite" /\ InHeap # {} => Wake \in ready

WakeInv == WakeStays /\ ExitSeen /\ TimerSeen

LEMMA WakeInit == Init => WakeInv
BY DEF Init, WakeInv, WakeStays, ExitSeen, TimerSeen, Events, Net

LEMMA LoopStepWake == ASSUME TypeInv, WakeInv, LoopStep PROVE WakeInv'
<1>. USE ConstantsAssumption DEF WakeInv, ExitSeen, TimerSeen, InHeap, Threads
<1>1. CASE StartLoop BY <1>1 DEF StartLoop, WakeStays, regVars, appVars, envVars
<1>2. CASE CheckRunning
  BY <1>2 DEF CheckRunning, WakeStays, regVars, appVars, envVars
<1>3. CASE MakeWaittingToActive
  BY <1>3 DEF MakeWaittingToActive, WakeStays, regVars, appVars, envVars
<1>4. CASE CalculateTimeoutMs
  <2>1. timeout' = "infinite" => InHeap = {}
    BY <1>4 DEF CalculateTimeoutMs, PollTimeout, NextTimeout
  <2>. QED BY <1>4, <2>1
         DEF CalculateTimeoutMs, WakeStays, regVars, appVars, envVars
<1>5. CASE PollReturns BY <1>5 DEF PollReturns, WakeStays, regVars, appVars
<1>6. ASSUME NEW e \in Net, PushActiveEvent(e) PROVE WakeInv'
  <2>1. WakeStays'
    <3>. USE DEF WakeStays, PushActiveEvent, regVars
    <3>1. CASE curEv'[Wake] = curEv[Wake] BY <1>6, <3>1
    <3>2. CASE curEv'[Wake] # curEv[Wake]
      <4>1. curEv'[Wake] = Append(curEv[Wake], "R") /\ curEv[Wake] \in Seq(Kinds)
        BY <1>6, <3>2 DEF TypeInv, TypeOK, Events, Net
      <4>. QED BY <1>6, <4>1
    <3>. QED BY <3>1, <3>2
  <2>. QED BY <1>6, <2>1 DEF PushActiveEvent, regVars, appVars, envVars
<1>7. CASE TimerLaunch
  BY <1>7 DEF TimerLaunch, WakeStays, regVars, appVars, envVars
<1>8. ASSUME NEW t \in Timers, FireTimer(t) PROVE WakeInv'
  BY <1>8 DEF FireTimer, WakeStays, appVars
<1>9. CASE TimersDone BY <1>9 DEF TimersDone, WakeStays, appVars, envVars
<1>10. CASE BeginProcess
  BY <1>10 DEF BeginProcess, WakeStays, regVars, appVars, envVars
<1>11. CASE ProcessDangling
  BY <1>11 DEF ProcessDangling, WakeStays, regVars, appVars, envVars
<1>12. CASE ProcessCancel
  <2>1. Head(active) # Wake
    BY <1>12 DEF ProcessCancel, WakeStays, FrontKind, TypeInv, TypeOK, Events,
       Net
  <2>. QED BY <1>12, <2>1
         DEF ProcessCancel, DeleteEvent, WakeStays, appVars, envVars
<1>13. CASE SkipCancelled
  BY <1>13 DEF SkipCancelled, WakeStays, regVars, appVars, envVars
<1>14. CASE BeginHandle BY <1>14 DEF BeginHandle, WakeStays, regVars, appVars
<1>15. CASE HandlerReturns
  <2>1. WakeStays'
    <3>. USE DEF WakeStays, HandlerReturns, PopCurEv, regVars
    <3>1. CASE curEv'[Wake] = curEv[Wake] BY <1>15, <3>1
    <3>2. CASE curEv'[Wake] # curEv[Wake]
      <4>1. /\ curEv'[Wake] = Tail(curEv[Wake]) /\ curEv[Wake] # <<>>
            /\ curEv[Wake] \in Seq(Kinds)
        BY <1>15, <3>2 DEF TypeInv, TypeOK, Events, Net
      <4>. QED BY <1>15, <4>1
    <3>. QED BY <3>1, <3>2
  <2>. QED BY <1>15, <2>1 DEF HandlerReturns, regVars, appVars, envVars
<1>16. CASE EndProcess
  BY <1>16 DEF EndProcess, WakeStays, regVars, appVars, envVars
<1>. QED BY <1>1, <1>2, <1>3, <1>4, <1>5, <1>6, <1>7, <1>8, <1>9, <1>10,
       <1>11, <1>12, <1>13, <1>14, <1>15, <1>16 DEF LoopStep

\* AddTimer writes the eventfd with the timer, Exit after it cleared m_running.
LEMMA CallWake ==
    ASSUME TypeInv, WakeInv, NEW t \in Threads, BeginCall(t) \/ FinishCall(t)
    PROVE  WakeInv'
<1>. USE ConstantsAssumption DEF WakeInv, ExitSeen, TimerSeen, InHeap,
        loopVars, MayCall, Idle, Call
<1>0. op \in [Threads -> Calls] /\ heap \in [Timers -> Int] BY DEF TypeInv, TypeOK
<1>1. ASSUME NEW e \in Io \cup Timers, RegisterCall(t, e) PROVE WakeInv'
  BY <1>0, <1>1 DEF RegisterCall, WakeStays, regVars, envVars
<1>2. ASSUME NEW e \in Io \cup Timers, CancelPush(t, e) PROVE WakeInv'
  BY <1>0, <1>2 DEF CancelPush, PushEvent, WakeStays, regVars, envVars
<1>3. ASSUME NEW e \in Io \cup Timers, Drop(t, e) PROVE WakeInv'
  BY <1>3 DEF Drop, WakeStays, regVars, envVars
<1>4. ASSUME NEW e \in Io, UpdateEvent(t, e) PROVE WakeInv'
  BY <1>4 DEF UpdateEvent, WakeStays, regVars, envVars, appVars
<1>5. ASSUME NEW e \in Timers, Suspend(t, e) \/ Resume(t, e) PROVE WakeInv'
  BY <1>5 DEF Suspend, Resume, WakeStays, regVars, envVars, appVars
<1>6. CASE ExitStore(t)
  BY <1>0, <1>6 DEF ExitStore, WakeStays, regVars, envVars
<1>7. CASE RegisterAdd(t)
  BY <1>0, <1>7 DEF RegisterAdd, AddEvent, AddTimer, WakeUp, WakeStays
<1>8. CASE RegisterDone(t)
  BY <1>0, <1>8 DEF RegisterDone, WakeStays, regVars, envVars
<1>9. CASE CancelClear(t)
  BY <1>0, <1>9 DEF CancelClear, WakeStays, regVars, envVars
<1>10. CASE ExitWake(t) BY <1>10 DEF ExitWake, WakeUp, WakeStays, regVars
<1>. QED BY <1>1, <1>2, <1>3, <1>4, <1>5, <1>6, <1>7, <1>8, <1>9, <1>10
       DEF BeginCall, FinishCall

LEMMA WakeStep == TypeInv /\ WakeInv /\ [Next]_vars => WakeInv'
<1>. SUFFICES ASSUME TypeInv, WakeInv, [Next]_vars PROVE WakeInv'
  OBVIOUS
<1>. USE DEF WakeInv, WakeStays, ExitSeen, TimerSeen, InHeap, loopVars, regVars,
        appVars, envVars
<1>1. CASE LoopStep BY <1>1, LoopStepWake
<1>2. CASE PollInterrupted BY <1>2 DEF PollInterrupted
<1>3. CASE PollFails BY <1>3 DEF PollFails
<1>4. ASSUME NEW t \in Threads, BeginCall(t) \/ FinishCall(t) PROVE WakeInv'
  BY <1>4, CallWake
<1>5. ASSUME NEW e \in Io, Arrive(e) PROVE WakeInv' BY <1>5 DEF Arrive
<1>6. ASSUME NEW t \in Timers, Elapse(t) PROVE WakeInv' BY <1>6 DEF Elapse
<1>7. CASE UNCHANGED vars BY <1>7 DEF vars
<1>. QED BY <1>1, <1>2, <1>3, <1>4, <1>5, <1>6, <1>7 DEF Next

\* However registrations, cancellations and exits interleave with the loop, it
\* never sleeps in epoll_wait without a timeout past a timer that was added
\* or an Exit: the eventfd is readable, or about to be.
THEOREM WakeUpNotMissed == Spec => []NoMissedWakeUp
<1>1. WakeInv => NoMissedWakeUp
  BY DEF WakeInv, WakeStays, ExitSeen, TimerSeen, NoMissedWakeUp
<1>. QED BY <1>1, WakeInit, WakeStep, TypeInvariant, PTL DEF Spec

----------------------------------------------------------------------------
(* Counting the entries of an event in a list.                             *)

\* An event stands in a list a natural number of times, zero times exactly
\* when it does not stand in it.
LEMMA OccurrencesNat ==
    ASSUME NEW S, NEW s \in Seq(S), NEW e
    PROVE  /\ Occurrences(s, e) \in Nat
           /\ Occurrences(s, e) = 0 <=> \A i \in DOMAIN s : s[i] # e
           /\ IsFiniteSet({i \in DOMAIN s : s[i] = e})
<1>1. PICK P : P = {i \in DOMAIN s : s[i] = e} OBVIOUS
<1>2. P \in SUBSET (1 .. Len(s)) /\ Len(s) \in Int BY <1>1
<1>3. IsFiniteSet(1 .. Len(s)) BY <1>2, FS_Interval
<1>4. IsFiniteSet(P) BY <1>2, <1>3, FS_Subset
<1>5. Cardinality(P) \in Nat BY <1>4, FS_CardinalityType
<1>6. Cardinality(P) = 0 <=> P = {} BY <1>4, FS_EmptySet
<1>. QED BY <1>1, <1>4, <1>5, <1>6 DEF Occurrences

LEMMA OccurrencesEmpty == \A e : Occurrences(<<>>, e) = 0
<1>. SUFFICES ASSUME NEW e PROVE Occurrences(<<>>, e) = 0 OBVIOUS
<1>1. {i \in DOMAIN <<>> : <<>>[i] = e} = {} OBVIOUS
<1>. QED BY <1>1, FS_EmptySet DEF Occurrences

\* A new entry counts once.
LEMMA OccurrencesAppend ==
    ASSUME NEW S, NEW s \in Seq(S), NEW x \in S, NEW e
    PROVE  Occurrences(Append(s, x), e)
               = Occurrences(s, e) + (IF x = e THEN 1 ELSE 0)
<1>1. PICK P : P = {i \in DOMAIN s : s[i] = e} OBVIOUS
<1>2. PICK Q : Q = {i \in DOMAIN Append(s, x) : Append(s, x)[i] = e} OBVIOUS
<1>3. /\ Len(s) \in Nat /\ DOMAIN s = 1 .. Len(s)
      /\ DOMAIN Append(s, x) = 1 .. (Len(s) + 1)
      /\ Append(s, x)[Len(s) + 1] = x
      /\ \A i \in 1 .. Len(s) : Append(s, x)[i] = s[i]
  OBVIOUS
<1>4. IsFiniteSet(P) BY <1>1, OccurrencesNat
<1>5. Cardinality(P) \in Nat BY <1>4, FS_CardinalityType
<1>8. Occurrences(s, e) = Cardinality(P) BY <1>1 DEF Occurrences
<1>9. Occurrences(Append(s, x), e) = Cardinality(Q) BY <1>2 DEF Occurrences
<1>6. CASE x = e
  <2>1. Q = P \cup {Len(s) + 1} /\ Len(s) + 1 \notin P
    BY <1>1, <1>2, <1>3, <1>6
  <2>2. Cardinality(Q) = Cardinality(P) + 1 BY <1>4, <2>1, FS_AddElement
  <2>. QED BY <1>6, <1>8, <1>9, <2>2
<1>7. CASE x # e
  <2>1. Q = P BY <1>1, <1>2, <1>3, <1>7
  <2>. QED BY <1>5, <1>7, <1>8, <1>9, <2>1
<1>. QED BY <1>6, <1>7

\* Without its front a list has one entry less of the event at the front.
LEMMA OccurrencesTail ==
    ASSUME NEW S, NEW s \in Seq(S), s # <<>>, NEW e
    PROVE  Occurrences(Tail(s), e)
               = Occurrences(s, e) - (IF Head(s) = e THEN 1 ELSE 0)
<1>0. PICK r : r = Tail(s) OBVIOUS
<1>1. PICK P : P = {i \in DOMAIN s : s[i] = e} OBVIOUS
<1>2. PICK Q : Q = {i \in DOMAIN r : r[i] = e} OBVIOUS
<1>3. /\ Len(s) \in Nat \ {0} /\ DOMAIN s = 1 .. Len(s)
      /\ Head(s) = s[1] /\ r \in Seq(S)
      /\ DOMAIN r = 1 .. (Len(s) - 1)
      /\ \A i \in 1 .. (Len(s) - 1) : r[i] = s[i + 1]
  BY <1>0
<1>11. IsFiniteSet(P) BY <1>1, OccurrencesNat
<1>15. r \in Seq(S) BY <1>3
<1>12. IsFiniteSet(Q) BY <1>2, <1>15, OccurrencesNat
<1>4. IsFiniteSet(P) /\ IsFiniteSet(Q) BY <1>11, <1>12
<1>5. PICK f : f = [i \in Q |-> i + 1] OBVIOUS
<1>6. f \in Bijection(Q, P \ {1})
  <2>1. \A i \in Q : i \in 1 .. (Len(s) - 1) /\ s[i + 1] = e
    BY <1>2, <1>3
  <2>2. \A i \in Q : f[i] = i + 1 /\ i + 1 \in P \ {1}
    BY <1>1, <1>3, <1>5, <2>1
  <2>3. f \in [Q -> P \ {1}] BY <1>5, <2>2
  <2>4. \A i, j \in Q : f[i] = f[j] => i = j BY <2>1, <2>2
  <2>5. ASSUME NEW k \in P \ {1} PROVE \E i \in Q : f[i] = k
    <3>1. k \in 2 .. Len(s) /\ s[k] = e BY <1>1, <1>3
    <3>2. k - 1 \in 1 .. (Len(s) - 1) /\ (k - 1) + 1 = k BY <1>3, <3>1
    <3>3. k - 1 \in Q BY <1>2, <1>3, <3>1, <3>2
    <3>. QED BY <2>2, <3>2, <3>3
  <2>. QED BY <2>3, <2>4, <2>5 DEF Bijection, Injection, Surjection, IsInjective
<1>7. Cardinality(P \ {1}) = Cardinality(Q)
  BY <1>4, <1>6, FS_Bijection DEF ExistsBijection
<1>8. Cardinality(P) \in Nat /\ Cardinality(Q) \in Nat
  BY <1>4, FS_CardinalityType
<1>9. Cardinality(P \ {1}) = IF 1 \in P THEN Cardinality(P) - 1 ELSE Cardinality(P)
  BY <1>4, FS_RemoveElement
<1>10. 1 \in P <=> Head(s) = e BY <1>1, <1>3
<1>13. Occurrences(s, e) = Cardinality(P) BY <1>1 DEF Occurrences
<1>14. Occurrences(Tail(s), e) = Cardinality(Q) BY <1>0, <1>2 DEF Occurrences
<1>. QED BY <1>7, <1>8, <1>9, <1>10, <1>13, <1>14

----------------------------------------------------------------------------
(* The life of an event, where only handlers cancel.                       *)

\* The use of a centre these results are about: a timer is never cancelled,
\* an IO event only by a handler (or before the loop starts), and an event
\* that was deleted is not registered again.
HandlersCancel == Cancels \subseteq {Loop} \X Io /\ Reused = {}

\* The entries of e in the two lists.
Queued(e) == Occurrences(active, e) + Occurrences(waiting, e)

\* An attached event is in the poller and has an entry for each queued kind;
\* a detached one has at most that many until it is deleted, then none.
ListsInv ==
    /\ pc \in {"start", "top", "make"} => active = <<>>
    /\ \A i \in DOMAIN waiting : waiting[i] \in Net
    /\ \A e \in Net : centre[e] => e \in netEvents /\ Queued(e) = Len(curEv[e])
    /\ \A e \in Net : e \in netEvents => Queued(e) <= Len(curEv[e])
    /\ \A e \in Net : e \notin netEvents => Queued(e) = 0

\* EV_CANCEL is the last kind an event ever gets.
CancelInv ==
    /\ \A e \in Events : \A i \in DOMAIN curEv[e] : curEv[e][i] = "C" =>
           /\ i = Len(curEv[e]) /\ e \in Io
           /\ ~centre[e] \/ op[Loop] = Call("cancel", e)
    /\ \A t \in Threads : op[t].step = "cancel" =>
           t = Loop /\ op[t].ev \in Io /\ centre[op[t].ev]
    /\ centre[Wake]

Starting(t) == op[t].step \in {"register", "added"}

\* An event is registered once, by one thread, and is untouched before.
RegsInv ==
    /\ \A e \in Io \cup Timers : regs[e] = 0 \/ regs[e] = 1
    /\ \A e \in Io \cup Timers : regs[e] = 0 =>
           ~centre[e] /\ e \notin netEvents \cup timerMap /\ curEv[e] = <<>>
    /\ \A t \in Threads : Starting(t) =>
           /\ regs[op[t].ev] = 1 /\ ~centre[op[t].ev]
           /\ curEv[op[t].ev] = <<>>
    /\ \A t \in Threads : op[t].step = "register" =>
           op[t].ev \notin netEvents \cup timerMap
    /\ \A t \in Threads : op[t].step = "added" =>
           op[t].ev \in netEvents \cup Timers
    /\ \A t, u \in Threads :
           Starting(t) /\ Starting(u) /\ op[t].ev = op[u].ev => t = u

\* A timer has one heap entry; it stays in m_timerMap while it has that entry
\* or stands in the list, and it is attached as soon as its registration is
\* through.
TimerInv ==
    /\ \A t \in Timers : heap[t] = 0 \/ (heap[t] = 1 /\ t \in timerMap)
    /\ \A t \in timerMap : centre[t] \/ \E u \in Threads : op[u] = Call("added", t)
    /\ pc = "timers" => \A t \in batch : t \in Timers /\ heap[t] = 1
    /\ \A i \in DOMAIN active : active[i] \in Timers =>
           active[i] \in timerMap /\ (active[i] \in LoopTimers \/ heap[active[i]] = 0)

LifeInv == ListsInv /\ CancelInv /\ RegsInv /\ TimerInv

LEMMA QueuedNat ==
    ASSUME TypeOK, NEW e
    PROVE  /\ Occurrences(active, e) \in Nat /\ Occurrences(waiting, e) \in Nat
           /\ Queued(e) \in Nat
           /\ Queued(e) = 0 => /\ \A i \in DOMAIN active : active[i] # e
                               /\ \A i \in DOMAIN waiting : waiting[i] # e
<1>1. active \in Seq(Events) /\ waiting \in Seq(Events) BY DEF TypeOK
<1>2. /\ Occurrences(active, e) \in Nat
      /\ Occurrences(active, e) = 0 <=> \A i \in DOMAIN active : active[i] # e
  BY <1>1, OccurrencesNat
<1>3. /\ Occurrences(waiting, e) \in Nat
      /\ Occurrences(waiting, e) = 0 <=> \A i \in DOMAIN waiting : waiting[i] # e
  BY <1>1, OccurrencesNat
<1>4. PICK m, n : m = Occurrences(active, e) /\ n = Occurrences(waiting, e) OBVIOUS
<1>5. Queued(e) = m + n BY <1>4 DEF Queued
<1>6. m \in Nat /\ n \in Nat BY <1>2, <1>3, <1>4
<1>7. Queued(e) \in Nat /\ (Queued(e) = 0 => m = 0 /\ n = 0) BY <1>5, <1>6
<1>. QED BY <1>2, <1>3, <1>4, <1>7

LEMMA QueuedSame ==
    ASSUME UNCHANGED <<active, waiting>>, NEW e PROVE Queued(e)' = Queued(e)
BY DEF Queued, Occurrences

LEMMA QueuedAppend ==
    ASSUME TypeOK, NEW x \in Events, NEW e,
           \/ active' = Append(active, x) /\ UNCHANGED waiting
           \/ waiting' = Append(waiting, x) /\ UNCHANGED active
    PROVE  Queued(e)' = Queued(e) + (IF x = e THEN 1 ELSE 0)
<1>1. active \in Seq(Events) /\ waiting \in Seq(Events) BY DEF TypeOK
<1>2. PICK p, q : p = active' /\ q = waiting' OBVIOUS
<1>3. Queued(e)' = Occurrences(p, e) + Occurrences(q, e)
  BY <1>2 DEF Queued, Occurrences
<1>4. Occurrences(active, e) \in Nat /\ Occurrences(waiting, e) \in Nat
  BY QueuedNat
<1>5. Occurrences(Append(active, x), e)
        = Occurrences(active, e) + (IF x = e THEN 1 ELSE 0)
  BY <1>1, OccurrencesAppend
<1>6. Occurrences(Append(waiting, x), e)
        = Occurrences(waiting, e) + (IF x = e THEN 1 ELSE 0)
  BY <1>1, OccurrencesAppend
<1>7. Queued(e) = Occurrences(active, e) + Occurrences(waiting, e) BY DEF Queued
<1>8. CASE active' = Append(active, x) /\ UNCHANGED waiting
  BY <1>2, <1>3, <1>4, <1>5, <1>7, <1>8
<1>9. CASE waiting' = Append(waiting, x) /\ UNCHANGED active
  BY <1>2, <1>3, <1>4, <1>6, <1>7, <1>9
<1>. QED BY <1>8, <1>9

LEMMA QueuedTail ==
    ASSUME TypeOK, active # <<>>, active' = Tail(active), UNCHANGED waiting,
           NEW e
    PROVE  /\ Queued(e)' = Queued(e) - (IF Head(active) = e THEN 1 ELSE 0)
           /\ Head(active) \in Events
           /\ Queued(Head(active)) \in Nat \ {0}
<1>1. active \in Seq(Events) /\ Head(active) = active[1] /\ 1 \in DOMAIN active
      /\ Head(active) \in Events
  BY DEF TypeOK
<1>2. PICK p, q : p = active' /\ q = waiting' OBVIOUS
<1>3. Queued(e)' = Occurrences(p, e) + Occurrences(q, e)
  BY <1>2 DEF Queued, Occurrences
<1>4. Occurrences(active, e) \in Nat /\ Occurrences(waiting, e) \in Nat
  BY QueuedNat
<1>5. Occurrences(Tail(active), e)
        = Occurrences(active, e) - (IF Head(active) = e THEN 1 ELSE 0)
  BY <1>1, OccurrencesTail
<1>6. PICK h : h = Head(active) OBVIOUS
<1>7. Queued(h) \in Nat /\ Queued(h) # 0 BY <1>1, <1>6, QueuedNat
<1>8. Queued(e) = Occurrences(active, e) + Occurrences(waiting, e) BY DEF Queued
<1>9. p = Tail(active) /\ q = waiting BY <1>2
<1>10. Queued(e)' = Queued(e) - (IF Head(active) = e THEN 1 ELSE 0)
  BY <1>3, <1>4, <1>5, <1>8, <1>9
<1>. QED BY <1>1, <1>6, <1>7, <1>10

LEMMA QueuedMove ==
    ASSUME TypeOK, active = <<>>, active' = waiting \o active, waiting' = <<>>,
           NEW e
    PROVE  Queued(e)' = Queued(e) /\ active' = waiting
<1>1. waiting \in Seq(Events) BY DEF TypeOK
<1>2. active' = waiting BY <1>1
<1>3. PICK p, q : p = active' /\ q = waiting' OBVIOUS
<1>4. Queued(e)' = Occurrences(p, e) + Occurrences(q, e)
  BY <1>3 DEF Queued, Occurrences
<1>5. Occurrences(<<>>, e) = 0 BY OccurrencesEmpty
<1>6. Occurrences(waiting, e) \in Nat BY QueuedNat
<1>. QED BY <1>2, <1>3, <1>4, <1>5, <1>6 DEF Queued

LEMMA LifeInit == Init => LifeInv
<1>. SUFFICES ASSUME Init PROVE LifeInv OBVIOUS
<1>. USE ConstantsAssumption
<1>1. /\ active = <<>> /\ waiting = <<>> /\ pc = "start" /\ netEvents = {Wake}
      /\ timerMap = {}
      /\ \A e \in Events : curEv[e] = <<>> /\ (centre[e] <=> e = Wake) /\ regs[e] = 0
      /\ \A t \in Timers : heap[t] = 0
      /\ \A t \in Threads : op[t].step = "idle"
  BY DEF Init, Idle
<1>2. Net \subseteq Events /\ Io \cup Timers \subseteq Events BY DEF Events, Net
<1>3. \A e : Queued(e) = 0 BY <1>1, OccurrencesEmpty DEF Queued
<1>4. ListsInv BY <1>1, <1>2, <1>3 DEF ListsInv
<1>5. CancelInv BY <1>1, <1>2 DEF CancelInv, Events, Net
<1>6. RegsInv BY <1>1, <1>2 DEF RegsInv, Starting
<1>7. TimerInv BY <1>1 DEF TimerInv
<1>. QED BY <1>4, <1>5, <1>6, <1>7 DEF LifeInv

\* What a step does that moves no entry and registers and cancels nothing.
LEMMA LifeFrame ==
    ASSUME LifeInv,
           UNCHANGED <<active, waiting, curEv, centre, netEvents, timerMap,
                       heap, regs>>,
           \A u \in Threads :
               \/ op'[u] = op[u]
               \/ {op[u].step, op'[u].step} \subseteq {"idle", "exit"},
           pc' \in {"start", "top", "make"} => active = <<>>,
           pc' = "timers" => pc = "timers" /\ batch' \subseteq batch
    PROVE  LifeInv'
<1>. USE ConstantsAssumption DEF LifeInv
<1>1. \A e : Queued(e)' = Queued(e) BY QueuedSame
<1>2. ListsInv' BY <1>1 DEF ListsInv
<1>3. CancelInv' BY DEF CancelInv, Call, Threads
<1>4. RegsInv'
  <2>1. \A u \in Threads : op'[u].step \in {"register", "added"} => op'[u] = op[u]
    OBVIOUS
  <2>. QED BY <2>1 DEF RegsInv, Starting
<1>5. TimerInv'
  <2>1. \A u \in Threads : op[u].step = "added" => op'[u] = op[u]
    OBVIOUS
  <2>2. \A u \in Threads, e \in timerMap : op[u] = Call("added", e) =>
            op'[u] = Call("added", e)
    BY <2>1 DEF Call
  <2>3. \A t \in timerMap' : centre'[t] \/ \E u \in Threads : op'[u] = Call("added", t)
    BY <2>2 DEF TimerInv
  <2>4. \A e : Call("added", e)' = Call("added", e) BY DEF Call
  <2>. QED BY <2>3, <2>4 DEF TimerInv
<1>. QED BY <1>2, <1>3, <1>4, <1>5

LEMMA PushActiveLife ==
    ASSUME TypeInv, LockInv, LifeInv, NEW e \in Net, PushActiveEvent(e)
    PROVE  LifeInv'
<1>. USE ConstantsAssumption DEF TypeInv, LifeInv
<1>1. CASE e \in netEvents /\ centre[e]
  <2>1. /\ active' = Append(active, e) /\ UNCHANGED waiting
        /\ curEv' = [curEv EXCEPT ![e] = Append(@, "R")]
        /\ UNCHANGED <<centre, netEvents, timerMap, heap, regs, op>>
        /\ pc = "push" /\ pc' = "push" /\ e \in Events /\ e \notin Timers
    BY <1>1 DEF PushActiveEvent, regVars, appVars, Events, Net
  <2>2. \A f : Queued(f)' = Queued(f) + (IF e = f THEN 1 ELSE 0)
    BY <2>1, QueuedAppend
  <2>3. /\ curEv \in [Events -> Seq(Kinds)] /\ active \in Seq(Events)
        /\ \A f \in Events : curEv[f] \in Seq(Kinds)
    BY DEF TypeOK
  <2>4. /\ Len(curEv'[e]) = Len(curEv[e]) + 1 /\ curEv'[e] = Append(curEv[e], "R")
        /\ \A f \in Events : f # e => curEv'[f] = curEv[f]
    BY <2>1, <2>3
  <2>5. \A f \in Net : Queued(f) \in Nat /\ Len(curEv[f]) \in Nat /\ f \in Events
    BY <2>3, QueuedNat DEF Events
  <2>6. ListsInv'
    <3>1. \A f \in Net : centre'[f] => f \in netEvents' /\ Queued(f)' = Len(curEv'[f])
      BY <2>1, <2>2, <2>4, <2>5 DEF ListsInv
    <3>2. \A f \in Net : f \in netEvents' => Queued(f)' <= Len(curEv'[f])
      BY <2>1, <2>2, <2>4, <2>5 DEF ListsInv
    <3>3. \A f \in Net : f \notin netEvents' => Queued(f)' = 0
      BY <1>1, <2>1, <2>2, <2>5 DEF ListsInv
    <3>. QED BY <2>1, <3>1, <3>2, <3>3 DEF ListsInv
  <2>7. CancelInv'
    <3>1. op[Loop] = Idle BY <2>1 DEF LockInv
    <3>5. op[Loop] # Call("cancel", e) BY <3>1 DEF Idle, Call
    <3>2. \A i \in DOMAIN curEv[e] : curEv[e][i] # "C"
      BY <1>1, <2>1, <3>5 DEF CancelInv
    <3>3. \A i \in DOMAIN curEv'[e] : curEv'[e][i] # "C"
      <4>1. curEv[e] \in Seq(Kinds) BY <2>1, <2>3
      <4>. QED BY <2>4, <3>2, <4>1
    <3>4. ASSUME NEW f \in Events, NEW i \in DOMAIN curEv'[f], curEv'[f][i] = "C"
          PROVE  /\ i = Len(curEv'[f]) /\ f \in Io
                 /\ ~centre'[f] \/ op'[Loop] = Call("cancel", f)
      BY <2>1, <2>4, <3>3, <3>4 DEF CancelInv
    <3>. QED BY <2>1, <3>4 DEF CancelInv, Call
  <2>8. RegsInv'
    <3>1. \A f \in Io \cup Timers : regs[f] = 0 => f # e BY <1>1 DEF RegsInv
    <3>2. \A t \in Threads : Starting(t) => op[t].ev # e BY <1>1 DEF RegsInv
    <3>3. \A t \in Threads : op[t].ev \in Io \cup Timers => op[t].ev \in Events
      BY DEF Events, Net
    <3>4. \A t \in Threads : Starting(t) => curEv'[op[t].ev] = <<>>
      BY <2>4, <3>2, <3>3 DEF RegsInv, Starting
    <3>5. \A f \in Io \cup Timers : regs[f] = 0 => curEv'[f] = <<>>
      BY <2>4, <3>1 DEF RegsInv, Events, Net
    <3>. QED BY <2>1, <3>4, <3>5 DEF RegsInv, Starting
  <2>9. TimerInv'
    <3>1. \A i \in DOMAIN active' :
             active'[i] = e \/ (i \in DOMAIN active /\ active'[i] = active[i])
      BY <2>1, <2>3
    <3>2. \A i \in DOMAIN active' : active'[i] \in Timers =>
             active'[i] \in timerMap /\ (active'[i] \in LoopTimers \/ heap[active'[i]] = 0)
      BY <2>1, <3>1 DEF TimerInv
    <3>. QED BY <2>1, <3>2 DEF TimerInv, Call
  <2>. QED BY <2>6, <2>7, <2>8, <2>9
<1>2. CASE ~(e \in netEvents /\ centre[e])
  <2>1. /\ UNCHANGED <<active, waiting, curEv, centre, netEvents, timerMap,
                       heap, regs, op>>
        /\ pc' = "push"
    BY <1>2 DEF PushActiveEvent, regVars, appVars
  <2>. QED BY <2>1, LifeFrame
<1>. QED BY <1>1, <1>2

LEMMA FireTimerLife ==
    ASSUME TypeInv, LifeInv, NEW t \in Timers, FireTimer(t)
    PROVE  LifeInv'
<1>. USE ConstantsAssumption DEF TypeInv, LifeInv
<1>1. /\ pc = "timers" /\ pc' = "timers" /\ t \in batch
      /\ UNCHANGED <<waiting, curEv, centre, netEvents, regs, op, suspended>>
      /\ active' = IF t \in suspended THEN active ELSE Append(active, t)
      /\ t \in Events /\ t \notin Net
  BY DEF FireTimer, appVars, Events, Net
<1>2. heap[t] = 1 /\ t \in timerMap BY <1>1 DEF TimerInv
<1>3. /\ heap \in [Timers -> Int] /\ active \in Seq(Events) BY DEF TypeOK
<1>4. \/ /\ t \in LoopTimers /\ UNCHANGED <<heap, timerMap>>
         /\ batch' = batch \ {t}
      \/ /\ t \notin LoopTimers /\ heap' = [heap EXCEPT ![t] = 0]
         /\ batch' = batch \ {t}
         /\ timerMap' = IF t \in suspended THEN timerMap \ {t} ELSE timerMap
  BY <1>2, <1>3 DEF FireTimer, Rearms, Discarded
<1>5. \A f \in Net : Queued(f)' = Queued(f)
  <2>1. CASE t \in suspended BY <1>1, <2>1, QueuedSame
  <2>2. CASE t \notin suspended
    <3>1. active' = Append(active, t) BY <1>1, <2>2
    <3>2. \A f : Queued(f)' = Queued(f) + (IF t = f THEN 1 ELSE 0)
      BY <1>1, <3>1, QueuedAppend
    <3>. QED BY <1>1, <3>2, QueuedNat
  <2>. QED BY <2>1, <2>2
<1>6. ListsInv' BY <1>1, <1>5 DEF ListsInv
<1>7. CancelInv' BY <1>1 DEF CancelInv, Call
<1>8. RegsInv'
  <2>1. timerMap' \subseteq timerMap BY <1>4
  <2>. QED BY <1>1, <2>1 DEF RegsInv, Starting
<1>9. TimerInv'
  <2>1. /\ \A u \in Timers : heap'[u] = 0 \/ (heap'[u] = 1 /\ u \in timerMap')
        /\ \A u \in Timers : u # t => heap'[u] = heap[u]
        /\ t \notin LoopTimers => heap'[t] = 0
        /\ timerMap' \subseteq timerMap
        /\ \A u \in timerMap : u # t => u \in timerMap'
        /\ t \in timerMap' \/ (t \notin LoopTimers /\ t \in suspended)
    <3>1. \A u \in Timers : heap[u] = 0 \/ (heap[u] = 1 /\ u \in timerMap)
      BY DEF TimerInv
    <3>2. CASE t \in LoopTimers BY <1>2, <1>4, <3>1, <3>2
    <3>3. CASE t \notin LoopTimers
      <4>1. heap' = [heap EXCEPT ![t] = 0] BY <1>4, <3>3
      <4>2. timerMap' = IF t \in suspended THEN timerMap \ {t} ELSE timerMap
        BY <1>4, <3>3
      <4>. QED BY <1>2, <1>3, <3>1, <3>3, <4>1, <4>2
    <3>. QED BY <3>2, <3>3
  <2>2. \A u \in timerMap' : centre'[u] \/ \E v \in Threads : op'[v] = Call("added", u)
    BY <1>1, <2>1 DEF TimerInv
  <2>3. \A u \in batch' : u \in Timers /\ heap'[u] = 1
    BY <1>1, <1>4, <2>1 DEF TimerInv
  <2>4. \A i \in DOMAIN active : active[i] = t => t \in LoopTimers
    BY <1>2 DEF TimerInv
  <2>5. ASSUME NEW i \in DOMAIN active', active'[i] \in Timers
        PROVE  /\ active'[i] \in timerMap'
               /\ active'[i] \in LoopTimers \/ heap'[active'[i]] = 0
    <3>1. CASE i \in DOMAIN active /\ active'[i] = active[i]
      <4>1. CASE active[i] = t
        <5>1. t \in LoopTimers BY <2>4, <3>1, <4>1
        <5>. QED BY <2>1, <3>1, <4>1, <5>1
      <4>2. CASE active[i] # t
        <5>1. active[i] \in timerMap /\ (active[i] \in LoopTimers \/ heap[active[i]] = 0)
          BY <2>5, <3>1 DEF TimerInv
        <5>. QED BY <2>1, <2>5, <3>1, <4>2, <5>1
      <4>. QED BY <4>1, <4>2
    <3>2. CASE active'[i] = t /\ t \notin suspended
      BY <2>1, <3>2
    <3>3. \/ i \in DOMAIN active /\ active'[i] = active[i]
          \/ active'[i] = t /\ t \notin suspended
      BY <1>1, <1>3, <2>5
    <3>. QED BY <3>1, <3>2, <3>3
  <2>6. \A e : Call("added", e)' = Call("added", e) BY DEF Call
  <2>. QED BY <1>1, <2>1, <2>2, <2>3, <2>5, <2>6 DEF TimerInv
<1>. QED BY <1>6, <1>7, <1>8, <1>9

\* The timer part, when entries leave the list and nothing else happens to
\* timers.
LEMMA TimerFrame ==
    ASSUME TimerInv, UNCHANGED <<heap, timerMap, centre, op>>, pc' # "timers",
           \A i \in DOMAIN active' : \E j \in DOMAIN active : active'[i] = active[j]
    PROVE  TimerInv'
BY DEF TimerInv, Call

LEMMA ActiveTail ==
    ASSUME TypeOK, active # <<>>, active' = Tail(active)
    PROVE  \A i \in DOMAIN active' : \E j \in DOMAIN active : active'[i] = active[j]
<1>1. active \in Seq(Events) BY DEF TypeOK
<1>2. /\ Len(active) \in Nat /\ DOMAIN active = 1 .. Len(active)
      /\ DOMAIN active' = 1 .. (Len(active) - 1)
      /\ \A i \in 1 .. (Len(active) - 1) : active'[i] = active[i + 1]
  BY <1>1
<1>3. \A i \in 1 .. (Len(active) - 1) : i + 1 \in DOMAIN active BY <1>2
<1>. QED BY <1>2, <1>3

LEMMA MakeLife ==
    ASSUME TypeInv, LifeInv, MakeWaittingToActive
    PROVE  LifeInv'
<1>. USE ConstantsAssumption DEF TypeInv, LifeInv
<1>1. /\ active = <<>> /\ active' = waiting \o active /\ waiting' = <<>>
      /\ pc' = "calc"
      /\ UNCHANGED <<curEv, centre, netEvents, timerMap, heap, regs, op>>
  BY DEF MakeWaittingToActive, ListsInv, regVars, appVars
<1>2. \A e : Queued(e)' = Queued(e) /\ active' = waiting BY <1>1, QueuedMove
<1>3. ListsInv' BY <1>1, <1>2 DEF ListsInv
<1>4. CancelInv' BY <1>1 DEF CancelInv, Call
<1>5. RegsInv' BY <1>1 DEF RegsInv, Starting
<1>6. \A i \in DOMAIN active' : active'[i] \notin Timers
  BY <1>2 DEF ListsInv, Net
<1>7. TimerInv' BY <1>1, <1>6 DEF TimerInv, Call
<1>. QED BY <1>3, <1>4, <1>5, <1>7

LEMMA TimerLaunchLife ==
    ASSUME TypeInv, LifeInv, TimerLaunch
    PROVE  LifeInv'
<1>. USE ConstantsAssumption DEF TypeInv, LifeInv
<1>1. /\ pc' = "timers" /\ batch' \subseteq {t \in Timers : heap[t] > 0}
      /\ UNCHANGED <<active, waiting, curEv, centre, netEvents, timerMap,
                     heap, regs, op>>
  BY DEF TimerLaunch, InHeap, regVars, appVars
<1>2. \A e : Queued(e)' = Queued(e) BY <1>1, QueuedSame
<1>3. ListsInv' BY <1>1, <1>2 DEF ListsInv
<1>4. CancelInv' BY <1>1 DEF CancelInv, Call
<1>5. RegsInv' BY <1>1 DEF RegsInv, Starting
<1>6. \A t \in batch' : t \in Timers /\ heap'[t] = 1 BY <1>1 DEF TimerInv
<1>7. TimerInv' BY <1>1, <1>6 DEF TimerInv, Call
<1>. QED BY <1>3, <1>4, <1>5, <1>7

LEMMA TimersDoneLife ==
    ASSUME TypeInv, LifeInv, TimersDone
    PROVE  LifeInv'
<1>. USE ConstantsAssumption DEF TypeInv, LifeInv
<1>1. /\ pc' = "lock"
      /\ \A t \in Timers : heap'[t] = heap[t] \/ heap'[t] = 0
      /\ UNCHANGED <<active, waiting, curEv, centre, netEvents, timerMap,
                     regs, op>>
  BY DEF TimersDone, appVars
<1>2. \A e : Queued(e)' = Queued(e) BY <1>1, QueuedSame
<1>3. ListsInv' BY <1>1, <1>2 DEF ListsInv
<1>4. CancelInv' BY <1>1 DEF CancelInv, Call
<1>5. RegsInv' BY <1>1 DEF RegsInv, Starting
<1>6. TimerInv' BY <1>1 DEF TimerInv, Call
<1>. QED BY <1>3, <1>4, <1>5, <1>6

\* What is known of an event whose EV_CANCEL has reached the front.
LEMMA FrontCancel ==
    ASSUME TypeInv, LockInv, LifeInv, pc = "proc", active # <<>>,
           FrontKind(Head(active)) = "C"
    PROVE  /\ Head(active) \in Io /\ Head(active) \in netEvents
           /\ ~centre[Head(active)]
           /\ Len(curEv[Head(active)]) = 1 /\ Queued(Head(active)) = 1
           /\ \A t \in Threads : Starting(t) => op[t].ev # Head(active)
<1>. USE ConstantsAssumption DEF TypeInv, LifeInv
<1>0. PICK h : h = Head(active) OBVIOUS
<1>1. active \in Seq(Events) /\ h \in Events /\ h = active[1] /\ 1 \in DOMAIN active
  BY <1>0 DEF TypeOK
<1>2. curEv[h] \in Seq(Kinds) /\ curEv[h] # <<>> /\ curEv[h][1] = "C"
      /\ 1 \in DOMAIN curEv[h]
  BY <1>0, <1>1 DEF TypeOK, FrontKind
<1>3. op[Loop] = Idle BY DEF LockInv
<1>4. op[Loop] # Call("cancel", h) BY <1>3 DEF Idle, Call
<1>5. Len(curEv[h]) = 1 /\ h \in Io /\ ~centre[h]
  BY <1>1, <1>2, <1>4 DEF CancelInv
<1>6. Queued(h) \in Nat /\ Queued(h) # 0
  <2>1. Queued(h) \in Nat /\ (Queued(h) = 0 => \A i \in DOMAIN active : active[i] # h)
    BY QueuedNat
  <2>. QED BY <1>1, <2>1
<1>7. h \in Net BY <1>5 DEF Net
<1>8. h \in netEvents BY <1>6, <1>7 DEF ListsInv
<1>9. Queued(h) <= Len(curEv[h]) BY <1>7, <1>8 DEF ListsInv
<1>10. Queued(h) = 1 BY <1>5, <1>6, <1>9
<1>11. \A t \in Threads : Starting(t) => op[t].ev # h
  BY <1>2 DEF RegsInv
<1>. QED BY <1>0, <1>5, <1>8, <1>10, <1>11

LEMMA ProcessCancelLife ==
    ASSUME TypeInv, LockInv, LifeInv, ProcessCancel
    PROVE  LifeInv'
<1>. USE ConstantsAssumption DEF TypeInv, LifeInv
<1>0. PICK h : h = Head(active) OBVIOUS
<1>1. /\ pc = "proc" /\ pc' = "proc" /\ active # <<>> /\ active' = Tail(active)
      /\ UNCHANGED <<waiting, curEv, centre, heap, regs, op>>
      /\ netEvents' = netEvents \ {h} /\ timerMap' = timerMap \ {h}
      /\ FrontKind(h) = "C"
  BY <1>0 DEF ProcessCancel, DeleteEvent, NextEntries, appVars
<1>2. /\ h \in Io /\ h \in netEvents /\ ~centre[h] /\ Queued(h) = 1
      /\ \A t \in Threads : Starting(t) => op[t].ev # h
  BY <1>0, <1>1, FrontCancel
<1>3. timerMap' = timerMap BY <1>1, <1>2 DEF TypeOK
<1>4. \A e : Queued(e)' = Queued(e) - (IF h = e THEN 1 ELSE 0)
  BY <1>0, <1>1, QueuedTail
<1>5. \A e : Queued(e) \in Nat BY QueuedNat
<1>6. ListsInv'
  <2>1. \A f \in Net : centre'[f] => f \in netEvents' /\ Queued(f)' = Len(curEv'[f])
    BY <1>1, <1>2, <1>4, <1>5 DEF ListsInv
  <2>2. \A f \in Net : f \in netEvents' => Queued(f)' <= Len(curEv'[f])
    BY <1>1, <1>4, <1>5 DEF ListsInv
  <2>3. \A f \in Net : f \notin netEvents' => Queued(f)' = 0
    BY <1>1, <1>2, <1>4, <1>5 DEF ListsInv
  <2>. QED BY <1>1, <2>1, <2>2, <2>3 DEF ListsInv
<1>7. CancelInv' BY <1>1 DEF CancelInv, Call
<1>8. RegsInv'
  <2>1. netEvents' \cup timerMap' \subseteq netEvents \cup timerMap BY <1>1
  <2>2. \A t \in Threads : op[t].step = "added" => op[t].ev \in netEvents' \cup Timers
    BY <1>1, <1>2 DEF RegsInv, Starting
  <2>. QED BY <1>1, <2>1, <2>2 DEF RegsInv, Starting
<1>9. TimerInv' BY <1>1, <1>3, ActiveTail, TimerFrame
<1>. QED BY <1>6, <1>7, <1>8, <1>9

LEMMA SkipLife ==
    ASSUME TypeInv, LifeInv, SkipCancelled
    PROVE  LifeInv'
<1>. USE ConstantsAssumption DEF TypeInv, LifeInv
<1>0. PICK h : h = Head(active) OBVIOUS
<1>1. /\ pc = "proc" /\ pc' = "proc" /\ active # <<>> /\ active' = Tail(active)
      /\ UNCHANGED <<waiting, curEv, centre, heap, regs, op, netEvents, timerMap>>
      /\ ~centre[h]
  BY <1>0 DEF SkipCancelled, Attached, NextEntries, appVars, regVars
<1>4. /\ \A e : Queued(e)' = Queued(e) - (IF h = e THEN 1 ELSE 0)
      /\ Queued(h) \in Nat \ {0}
  BY <1>0, <1>1, QueuedTail
<1>5. /\ \A e : Queued(e) \in Nat
      /\ \A f \in Net : Len(curEv[f]) \in Nat
  BY QueuedNat DEF TypeOK, Events
<1>6. ListsInv'
  <2>1. \A f \in Net : centre'[f] => f \in netEvents' /\ Queued(f)' = Len(curEv'[f])
    BY <1>1, <1>4, <1>5 DEF ListsInv
  <2>2. \A f \in Net : f \in netEvents' => Queued(f)' <= Len(curEv'[f])
    BY <1>1, <1>4, <1>5 DEF ListsInv
  <2>3. \A f \in Net : f \notin netEvents' => Queued(f)' = 0
    BY <1>1, <1>4, <1>5 DEF ListsInv
  <2>. QED BY <1>1, <2>1, <2>2, <2>3 DEF ListsInv
<1>7. CancelInv' BY <1>1 DEF CancelInv, Call
<1>8. RegsInv' BY <1>1 DEF RegsInv, Starting
<1>9. TimerInv' BY <1>1, ActiveTail, TimerFrame
<1>. QED BY <1>6, <1>7, <1>8, <1>9

LEMMA HandlerReturnsLife ==
    ASSUME TypeInv, LifeInv, HandlerReturns
    PROVE  LifeInv'
<1>. USE ConstantsAssumption DEF TypeInv, LifeInv
<1>0. PICK h : h = Head(active) OBVIOUS
<1>1. /\ pc' = "proc" /\ active # <<>> /\ active' = Tail(active)
      /\ UNCHANGED <<waiting, centre, heap, regs, op, netEvents, timerMap>>
      /\ curEv' = [curEv EXCEPT ![h] = PopCurEv(h)]
      /\ op[Loop] = Idle
  BY <1>0 DEF HandlerReturns, NextEntries, appVars, regVars
<1>2. PICK c : c = PopCurEv(h) OBVIOUS
<1>4. /\ \A e : Queued(e)' = Queued(e) - (IF h = e THEN 1 ELSE 0)
      /\ h \in Events /\ Queued(h) \in Nat \ {0}
  BY <1>0, <1>1, QueuedTail
<1>5. /\ \A e : Queued(e) \in Nat
      /\ \A f \in Events : curEv[f] \in Seq(Kinds) /\ Len(curEv[f]) \in Nat
      /\ curEv \in [Events -> Seq(Kinds)]
  BY QueuedNat DEF TypeOK
<1>6. /\ \A f \in Events : f # h => curEv'[f] = curEv[f]
      /\ curEv'[h] = c
      /\ c = IF curEv[h] = <<>> THEN <<>> ELSE Tail(curEv[h])
  BY <1>1, <1>2, <1>4, <1>5 DEF PopCurEv
<1>7. /\ Len(curEv[h]) > 0 => Len(c) = Len(curEv[h]) - 1
      /\ \A i \in DOMAIN c : /\ i \in 1 .. (Len(curEv[h]) - 1) /\ c[i] = curEv[h][i + 1]
                             /\ i + 1 \in DOMAIN curEv[h]
                             /\ Len(c) = Len(curEv[h]) - 1
  BY <1>4, <1>5, <1>6
<1>8. h \in Net => h \in netEvents /\ Queued(h) <= Len(curEv[h]) /\ Len(curEv[h]) > 0
  BY <1>4, <1>5 DEF ListsInv, Events
<1>9. Net \subseteq Events BY DEF Events
<1>10. ListsInv'
  <2>1. \A f \in Net : centre'[f] => f \in netEvents' /\ Queued(f)' = Len(curEv'[f])
    BY <1>1, <1>4, <1>5, <1>6, <1>7, <1>8, <1>9 DEF ListsInv
  <2>2. \A f \in Net : f \in netEvents' => Queued(f)' <= Len(curEv'[f])
    BY <1>1, <1>4, <1>5, <1>6, <1>7, <1>8, <1>9 DEF ListsInv
  <2>3. \A f \in Net : f \notin netEvents' => Queued(f)' = 0
    BY <1>1, <1>4, <1>5, <1>8 DEF ListsInv
  <2>. QED BY <1>1, <2>1, <2>2, <2>3 DEF ListsInv
<1>11. CancelInv'
  <2>0. \A f : op[Loop] # Call("cancel", f) BY <1>1 DEF Idle, Call
  <2>1. ASSUME NEW f \in Events, NEW i \in DOMAIN curEv'[f], curEv'[f][i] = "C"
        PROVE  i = Len(curEv'[f]) /\ f \in Io /\ ~centre'[f]
    <3>1. CASE f # h
      BY <1>1, <1>6, <2>0, <2>1, <3>1 DEF CancelInv
    <3>2. CASE f = h
      <4>1. i \in DOMAIN c /\ c[i] = "C" BY <1>6, <2>1, <3>2
      <4>2. /\ i \in 1 .. (Len(curEv[h]) - 1)
            /\ i + 1 \in DOMAIN curEv[h] /\ curEv[h][i + 1] = "C"
            /\ Len(c) = Len(curEv[h]) - 1
        BY <1>7, <4>1
      <4>3. i + 1 = Len(curEv[h]) /\ h \in Io /\ ~centre[h]
        BY <1>4, <2>0, <4>2 DEF CancelInv
      <4>5. Len(curEv[h]) \in Nat BY <1>4, <1>5
      <4>4. i = Len(c) BY <4>2, <4>3, <4>5
      <4>. QED BY <1>1, <1>6, <3>2, <4>3, <4>4
    <3>. QED BY <3>1, <3>2
  <2>. QED BY <1>1, <2>1 DEF CancelInv
<1>12. RegsInv'
  <2>1. \A f \in Events : curEv[f] = <<>> => curEv'[f] = <<>>
    BY <1>4, <1>6
  <2>2. \A t \in Threads : Starting(t) => op[t].ev \in Events
    BY DEF Starting, Events, Net
  <2>3. \A t \in Threads : Starting(t) => curEv'[op[t].ev] = <<>>
    BY <2>1, <2>2 DEF RegsInv
  <2>4. \A f \in Io \cup Timers : regs[f] = 0 => curEv'[f] = <<>>
    BY <2>1 DEF RegsInv, Events, Net
  <2>. QED BY <1>1, <2>3, <2>4 DEF RegsInv, Starting
<1>13. TimerInv' BY <1>1, ActiveTail, TimerFrame
<1>. QED BY <1>10, <1>11, <1>12, <1>13

LEMMA RegisterCallLife ==
    ASSUME HandlersCancel, TypeInv, LifeInv,
           NEW t \in Threads, NEW e \in Io \cup Timers, RegisterCall(t, e)
    PROVE  LifeInv'
<1>. USE ConstantsAssumption DEF TypeInv, LifeInv
<1>0. e \in Events /\ regs[e] \in Nat /\ regs[e] < 1 /\ regs' = [regs EXCEPT ![e] = @ + 1]
  BY DEF RegisterCall, HandlersCancel, TypeOK, Events, Net
<1>1. /\ op[t] = Idle /\ op' = [op EXCEPT ![t] = Call("register", e)]
      /\ regs[e] = 0 /\ regs' = [regs EXCEPT ![e] = 1]
      /\ UNCHANGED <<pc, batch, active, waiting, curEv, centre, heap, netEvents,
                     timerMap>>
      /\ e \in Events
  <2>1. regs[e] = 0 BY <1>0
  <2>2. regs' = [regs EXCEPT ![e] = 1] BY <1>0, <2>1
  <2>3. op[t] = Idle /\ op' = [op EXCEPT ![t] = Call("register", e)]
    BY DEF RegisterCall, MayCall
  <2>4. UNCHANGED <<pc, batch, active, waiting, curEv, centre, heap, netEvents,
                    timerMap>>
    BY DEF RegisterCall, loopVars, regVars
  <2>. QED BY <1>0, <2>1, <2>2, <2>3, <2>4
<1>2. /\ \A u \in Threads : u # t => op'[u] = op[u]
      /\ op'[t] = Call("register", e)
      /\ \A f \in Events : f # e => regs'[f] = regs[f]
      /\ regs'[e] = 1
  BY <1>1 DEF TypeOK
<1>3. ~centre[e] /\ e \notin netEvents \cup timerMap /\ curEv[e] = <<>>
  BY <1>1 DEF RegsInv
<1>4. \A u \in Threads : Starting(u) => op[u].ev # e BY <1>1 DEF RegsInv
<1>5. \A f : Queued(f)' = Queued(f) BY <1>1, QueuedSame
<1>6. ListsInv' BY <1>1, <1>5 DEF ListsInv
<1>7. CancelInv'
  <2>1. Loop \in Threads BY DEF Threads
  <2>2. \A f : op[Loop] = Call("cancel", f) => op'[Loop] = Call("cancel", f)
    BY <1>1, <1>2, <2>1 DEF Idle, Call
  <2>3. op'[t].step = "register" BY <1>2 DEF Call
  <2>4. \A u \in Threads : op'[u].step = "cancel" => op'[u] = op[u]
    BY <1>2, <2>3
  <2>5. \A f \in Events : \A i \in DOMAIN curEv'[f] : curEv'[f][i] = "C" =>
           /\ i = Len(curEv'[f]) /\ f \in Io
           /\ ~centre'[f] \/ op'[Loop] = Call("cancel", f)
    BY <1>1, <2>2 DEF CancelInv
  <2>. QED BY <1>1, <2>4, <2>5 DEF CancelInv, Call
<1>8. RegsInv'
  <2>1. op'[t].step = "register" /\ op'[t].ev = e BY <1>2 DEF Call
  <2>2. \A f \in Io \cup Timers : f \in Events BY DEF Events, Net
  <2>3. \A u \in Threads : u # t => (Starting(u)' <=> Starting(u)) /\ op'[u] = op[u]
    BY <1>2 DEF Starting
  <2>4. \A f \in Io \cup Timers : regs'[f] = 0 \/ regs'[f] = 1
    BY <1>2, <2>2 DEF RegsInv
  <2>5. \A f \in Io \cup Timers : regs'[f] = 0 =>
           ~centre'[f] /\ f \notin netEvents' \cup timerMap' /\ curEv'[f] = <<>>
    BY <1>1, <1>2, <2>2 DEF RegsInv
  <2>6. ASSUME NEW u \in Threads, Starting(u)'
        PROVE  /\ regs'[op'[u].ev] = 1 /\ ~centre'[op'[u].ev]
               /\ curEv'[op'[u].ev] = <<>>
    <3>1. CASE u = t BY <1>1, <1>2, <1>3, <2>1, <3>1
    <3>2. CASE u # t
      <4>1. Starting(u) /\ op'[u] = op[u] BY <2>3, <2>6, <3>2
      <4>2. op[u].ev \in Events /\ op[u].ev # e
        BY <1>4, <2>2, <4>1 DEF Starting
      <4>. QED BY <1>1, <1>2, <4>1, <4>2 DEF RegsInv
    <3>. QED BY <3>1, <3>2
  <2>7. \A u \in Threads : op'[u].step = "register" =>
           op'[u].ev \notin netEvents' \cup timerMap'
    BY <1>1, <1>2, <1>3, <2>1 DEF RegsInv
  <2>8. \A u \in Threads : op'[u].step = "added" =>
           op'[u].ev \in netEvents' \cup Timers
    BY <1>1, <1>2, <2>1 DEF RegsInv
  <2>9. \A u, v \in Threads :
           Starting(u)' /\ Starting(v)' /\ op'[u].ev = op'[v].ev => u = v
    BY <1>4, <2>1, <2>3 DEF RegsInv
  <2>. QED BY <2>4, <2>5, <2>6, <2>7, <2>8, <2>9 DEF RegsInv, Starting
<1>9. TimerInv'
  <2>1. \A u \in Threads : \A f : op[u] = Call("added", f) => op'[u] = Call("added", f)
    BY <1>1, <1>2 DEF Idle, Call
  <2>2. \A f \in timerMap' : centre'[f] \/ \E u \in Threads : op'[u] = Call("added", f)
    BY <1>1, <2>1 DEF TimerInv
  <2>. QED BY <1>1, <2>2 DEF TimerInv, Call
<1>. QED BY <1>6, <1>7, <1>8, <1>9

LEMMA RegisterAddLife ==
    ASSUME TypeInv, LifeInv, NEW t \in Threads, RegisterAdd(t)
    PROVE  LifeInv'
<1>. USE ConstantsAssumption DEF TypeInv, LifeInv
<1>1. PICK e \in Io \cup Timers : e = op[t].ev
  BY DEF RegisterAdd
<1>2. /\ op[t].step = "register" /\ e \notin netEvents \cup timerMap
      /\ Starting(t) /\ ~centre[e] /\ curEv[e] = <<>> /\ regs[e] = 1
      /\ e \in Events
  BY <1>1 DEF RegisterAdd, RegsInv, Starting, Events, Net
<1>3. /\ AddEvent(e) \/ AddTimer(e)
      /\ op' = [op EXCEPT ![t] = Call("added", e)]
      /\ UNCHANGED <<pc, batch, active, waiting, curEv, centre, regs>>
  BY <1>1, <1>2 DEF RegisterAdd, Registered, loopVars
<1>4. /\ \A u \in Threads : u # t => op'[u] = op[u]
      /\ op'[t] = Call("added", e) /\ op'[t].step = "added" /\ op'[t].ev = e
  BY <1>3 DEF TypeOK, Call
<1>5. \/ /\ e \in Io /\ netEvents' = netEvents \cup {e}
         /\ UNCHANGED <<timerMap, heap>>
      \/ /\ e \in Timers /\ timerMap' = timerMap \cup {e}
         /\ heap' = [heap EXCEPT ![e] = @ + 1] /\ UNCHANGED netEvents
  BY <1>3 DEF AddEvent, AddTimer
<1>6. \A u \in Threads : Starting(u) /\ u # t => op[u].ev # e
  BY <1>1, <1>2 DEF RegsInv
<1>7. /\ \A f : Queued(f)' = Queued(f)
      /\ \A f : Queued(f) \in Nat
  BY <1>3, QueuedSame, QueuedNat
<1>8. ListsInv'
  <2>1. e \in Net => Queued(e) = 0 /\ Len(curEv[e]) = 0
    BY <1>2 DEF ListsInv
  <2>2. \A f \in Net : f \in netEvents' => f \in netEvents \/ f = e
    BY <1>5
  <2>3. netEvents \subseteq netEvents' BY <1>5
  <2>4. \A f \in Net : centre'[f] => f \in netEvents' /\ Queued(f)' = Len(curEv'[f])
    BY <1>3, <1>7, <2>3 DEF ListsInv
  <2>5. \A f \in Net : f \in netEvents' => Queued(f)' <= Len(curEv'[f])
    BY <1>3, <1>7, <2>1, <2>2 DEF ListsInv
  <2>6. \A f \in Net : f \notin netEvents' => Queued(f)' = 0
    BY <1>7, <2>3 DEF ListsInv
  <2>. QED BY <1>3, <2>4, <2>5, <2>6 DEF ListsInv
<1>9. CancelInv'
  <2>1. \A f : op[Loop] = Call("cancel", f) => op'[Loop] = Call("cancel", f)
    BY <1>2, <1>4 DEF Threads, Call
  <2>2. \A u \in Threads : op'[u].step = "cancel" => op'[u] = op[u]
    BY <1>4
  <2>3. \A f \in Events : \A i \in DOMAIN curEv'[f] : curEv'[f][i] = "C" =>
           /\ i = Len(curEv'[f]) /\ f \in Io
           /\ ~centre'[f] \/ op'[Loop] = Call("cancel", f)
    BY <1>3, <2>1 DEF CancelInv
  <2>. QED BY <1>3, <2>2, <2>3 DEF CancelInv, Call
<1>10. RegsInv'
  <2>1. \A u \in Threads : (Starting(u)' <=> Starting(u)) /\ op'[u].ev = op[u].ev
    BY <1>1, <1>2, <1>4 DEF Starting
  <2>2. \A u \in Threads : op'[u].step = "register" =>
           op'[u] = op[u] /\ op[u].ev # e /\ u # t
    BY <1>4, <1>6 DEF Starting
  <2>3. \A f : f # e => (f \in netEvents' \cup timerMap' <=> f \in netEvents \cup timerMap)
    BY <1>5
  <2>4. \A f \in Io \cup Timers : regs'[f] = 0 =>
           ~centre'[f] /\ f \notin netEvents' \cup timerMap' /\ curEv'[f] = <<>>
    BY <1>2, <1>3, <2>3 DEF RegsInv
  <2>5. \A u \in Threads : op'[u].step = "register" =>
           op'[u].ev \notin netEvents' \cup timerMap'
    BY <2>2, <2>3 DEF RegsInv
  <2>6. \A u \in Threads : op'[u].step = "added" =>
           op'[u].ev \in netEvents' \cup Timers
    BY <1>4, <1>5 DEF RegsInv
  <2>. QED BY <1>3, <2>1, <2>4, <2>5, <2>6 DEF RegsInv, Starting
<1>11. TimerInv'
  <2>1. \A u \in Threads : \A f : op[u] = Call("added", f) => op'[u] = Call("added", f)
    BY <1>2, <1>4 DEF Call
  <2>2. timerMap' \subseteq timerMap \cup {e} /\ timerMap \subseteq timerMap'
    BY <1>5
  <2>3. \A f \in timerMap' : centre'[f] \/ \E u \in Threads : op'[u] = Call("added", f)
    BY <1>3, <1>4, <2>1, <2>2 DEF TimerInv
  <2>4. \A f \in Timers : f # e => heap'[f] = heap[f]
    BY <1>5 DEF TypeOK
  <2>5. e \in Timers => heap[e] = 0 /\ heap'[e] = 1 /\ e \in timerMap'
    BY <1>2, <1>5 DEF TypeOK, TimerInv
  <2>6. \A f \in Timers : heap'[f] = 0 \/ (heap'[f] = 1 /\ f \in timerMap')
    BY <2>2, <2>4, <2>5 DEF TimerInv
  <2>7. pc' = "timers" => \A f \in batch' : f \in Timers /\ heap'[f] = 1
    BY <1>3, <2>4, <2>5 DEF TimerInv
  <2>8. \A i \in DOMAIN active' : active'[i] \in Timers =>
           active'[i] \in timerMap' /\ (active'[i] \in LoopTimers \/ heap'[active'[i]] = 0)
    <3>1. \A i \in DOMAIN active : active[i] \in Timers => active[i] \in timerMap
      BY DEF TimerInv
    <3>2. \A i \in DOMAIN active : active[i] \in Timers =>
             active[i] # e /\ active[i] \in timerMap'
      BY <1>2, <2>2, <3>1
    <3>. QED BY <1>3, <2>4, <3>2 DEF TimerInv
  <2>. QED BY <2>3, <2>6, <2>7, <2>8 DEF TimerInv, Call
<1>. QED BY <1>8, <1>9, <1>10, <1>11

LEMMA RegisterDoneLife ==
    ASSUME TypeInv, LifeInv, NEW t \in Threads, RegisterDone(t)
    PROVE  LifeInv'
<1>. USE ConstantsAssumption DEF TypeInv, LifeInv
<1>1. PICK e \in Io \cup Timers : e = op[t].ev
  BY DEF RegisterDone
<1>2. /\ op[t].step = "added" /\ Starting(t)
      /\ ~centre[e] /\ curEv[e] = <<>> /\ regs[e] = 1 /\ e \in Events
      /\ e \in netEvents \cup Timers
  BY <1>1 DEF RegisterDone, RegsInv, Starting, Events, Net
<1>3. /\ op' = [op EXCEPT ![t] = Idle] /\ centre' = [centre EXCEPT ![e] = TRUE]
      /\ UNCHANGED <<pc, batch, active, waiting, curEv, netEvents, timerMap, heap,
                     regs>>
  BY <1>1 DEF RegisterDone, loopVars
<1>4. /\ \A u \in Threads : u # t => op'[u] = op[u]
      /\ op'[t] = Idle /\ op'[t].step = "idle"
      /\ \A f \in Events : f # e => (centre'[f] <=> centre[f])
      /\ centre'[e]
  BY <1>2, <1>3 DEF TypeOK, Idle
<1>5. \A u \in Threads : Starting(u) /\ u # t => op[u].ev # e
  BY <1>1, <1>2 DEF RegsInv
<1>6. /\ \A f : Queued(f)' = Queued(f)
      /\ \A f : Queued(f) \in Nat
  BY <1>3, QueuedSame, QueuedNat
<1>7. ListsInv'
  <2>1. e \in Net => e \in netEvents /\ Queued(e) = 0 /\ Len(curEv[e]) = 0
    BY <1>2, <1>6 DEF ListsInv, Net
  <2>2. \A f \in Net : centre'[f] => f \in netEvents' /\ Queued(f)' = Len(curEv'[f])
    BY <1>3, <1>4, <1>6, <2>1 DEF ListsInv, Events
  <2>. QED BY <1>3, <1>6, <2>2 DEF ListsInv
<1>8. CancelInv'
  <2>1. \A f : op[Loop] = Call("cancel", f) => op'[Loop] = Call("cancel", f)
    BY <1>2, <1>4 DEF Threads, Call
  <2>2. \A u \in Threads : op'[u].step = "cancel" => op'[u] = op[u] /\ op[u].ev \in Events
    BY <1>4 DEF Events, Net
  <2>3. \A f \in Events : \A i \in DOMAIN curEv'[f] : curEv'[f][i] = "C" =>
           /\ i = Len(curEv'[f]) /\ f \in Io
           /\ ~centre'[f] \/ op'[Loop] = Call("cancel", f)
    BY <1>2, <1>3, <1>4, <2>1 DEF CancelInv
  <2>4. \A u \in Threads : op'[u].step = "cancel" => centre'[op'[u].ev]
    BY <1>4, <2>2 DEF CancelInv
  <2>5. centre'[Wake] BY <1>4 DEF CancelInv, Events, Net
  <2>. QED BY <1>3, <2>2, <2>3, <2>4, <2>5 DEF CancelInv, Call
<1>9. RegsInv'
  <2>1. \A u \in Threads : Starting(u)' =>
           Starting(u) /\ op'[u] = op[u] /\ op[u].ev # e /\ op[u].ev \in Events
    BY <1>4, <1>5 DEF Starting, Events, Net
  <2>2. \A f \in Io \cup Timers : regs'[f] = 0 => ~centre'[f]
    BY <1>2, <1>3, <1>4 DEF RegsInv, Events, Net
  <2>3. \A u \in Threads : Starting(u)' =>
           regs'[op'[u].ev] = 1 /\ ~centre'[op'[u].ev] /\ curEv'[op'[u].ev] = <<>>
    BY <1>3, <1>4, <2>1 DEF RegsInv
  <2>4. \A u \in Threads : op'[u].step = "register" =>
           op'[u].ev \notin netEvents' \cup timerMap'
    BY <1>3, <1>4 DEF RegsInv
  <2>5. \A u \in Threads : op'[u].step = "added" =>
           op'[u].ev \in netEvents' \cup Timers
    BY <1>3, <1>4 DEF RegsInv
  <2>6. \A u, v \in Threads :
           Starting(u)' /\ Starting(v)' /\ op'[u].ev = op'[v].ev => u = v
    BY <2>1 DEF RegsInv
  <2>. QED BY <1>3, <2>2, <2>3, <2>4, <2>5, <2>6 DEF RegsInv, Starting
<1>10. TimerInv'
  <2>1. \A u \in Threads : \A f : op[u] = Call("added", f) /\ f # e => op'[u] = op[u]
    BY <1>1, <1>4 DEF Call
  <2>2. \A f \in timerMap' : centre'[f] \/ \E u \in Threads : op'[u] = Call("added", f)
    BY <1>3, <1>4, <2>1 DEF TimerInv, TypeOK, Events
  <2>. QED BY <1>3, <2>2 DEF TimerInv, Call
<1>. QED BY <1>7, <1>8, <1>9, <1>10

LEMMA CancelPushLife ==
    ASSUME HandlersCancel, TypeInv, LifeInv,
           NEW t \in Threads, NEW e \in Io \cup Timers, CancelPush(t, e)
    PROVE  LifeInv'
<1>. USE ConstantsAssumption DEF TypeInv, LifeInv
<1>1. t = Loop /\ e \in Io /\ e \in Net /\ e \in Events /\ e \notin Timers
  BY DEF CancelPush, HandlersCancel, Events, Net
<1>2. /\ op[Loop] = Idle /\ centre[e]
      /\ op' = [op EXCEPT ![Loop] = Call("cancel", e)]
      /\ curEv' = [curEv EXCEPT ![e] = Append(@, "C")]
      /\ waiting' = Append(waiting, e)
      /\ UNCHANGED <<pc, batch, active, centre, netEvents, timerMap, heap, regs>>
  BY <1>1 DEF CancelPush, MayCall, PushEvent, loopVars, regVars
<1>3. /\ \A u \in Threads : u # Loop => op'[u] = op[u]
      /\ op'[Loop] = Call("cancel", e) /\ op'[Loop].step = "cancel" /\ op'[Loop].ev = e
      /\ op[Loop].step = "idle"
  BY <1>2 DEF TypeOK, Threads, Idle, Call
<1>4. /\ \A f \in Events : curEv[f] \in Seq(Kinds) /\ Len(curEv[f]) \in Nat
      /\ curEv'[e] = Append(curEv[e], "C") /\ Len(curEv'[e]) = Len(curEv[e]) + 1
      /\ \A f \in Events : f # e => curEv'[f] = curEv[f]
      /\ waiting \in Seq(Events)
  BY <1>1, <1>2 DEF TypeOK
<1>5. /\ \A f : Queued(f)' = Queued(f) + (IF e = f THEN 1 ELSE 0)
      /\ \A f : Queued(f) \in Nat
  BY <1>1, <1>2, QueuedAppend, QueuedNat
<1>6. ListsInv'
  <2>1. \A f \in Net : centre'[f] => f \in netEvents' /\ Queued(f)' = Len(curEv'[f])
    BY <1>2, <1>4, <1>5 DEF ListsInv, Events
  <2>2. \A f \in Net : f \in netEvents' => Queued(f)' <= Len(curEv'[f])
    BY <1>2, <1>4, <1>5 DEF ListsInv, Events
  <2>3. \A f \in Net : f \notin netEvents' => Queued(f)' = 0
    BY <1>1, <1>2, <1>5 DEF ListsInv
  <2>4. \A i \in DOMAIN waiting' : waiting'[i] \in Net
    BY <1>1, <1>2, <1>4 DEF ListsInv
  <2>. QED BY <1>2, <2>1, <2>2, <2>3, <2>4 DEF ListsInv
<1>7. CancelInv'
  <2>1. \A f : op[Loop] # Call("cancel", f) BY <1>2 DEF Idle, Call
  <2>2. \A i \in DOMAIN curEv[e] : curEv[e][i] # "C"
    BY <1>1, <1>2, <2>1 DEF CancelInv
  <2>3. curEv[e] \in Seq(Kinds) BY <1>1, <1>4
  <2>4. \A i \in DOMAIN curEv'[e] : curEv'[e][i] = "C" => i = Len(curEv'[e])
    BY <1>4, <2>2, <2>3
  <2>5. \A f \in Events : \A i \in DOMAIN curEv'[f] : curEv'[f][i] = "C" =>
           /\ i = Len(curEv'[f]) /\ f \in Io
           /\ ~centre'[f] \/ op'[Loop] = Call("cancel", f)
    <3>1. ASSUME NEW f \in Events, NEW i \in DOMAIN curEv'[f], curEv'[f][i] = "C"
          PROVE  /\ i = Len(curEv'[f]) /\ f \in Io
                 /\ ~centre'[f] \/ op'[Loop] = Call("cancel", f)
      <4>1. CASE f = e BY <1>1, <1>3, <2>4, <3>1, <4>1
      <4>2. CASE f # e BY <1>2, <1>4, <2>1, <3>1, <4>2 DEF CancelInv
      <4>. QED BY <4>1, <4>2
    <3>. QED BY <3>1
  <2>6. \A u \in Threads : op'[u].step = "cancel" =>
           u = Loop /\ op'[u].ev \in Io /\ centre'[op'[u].ev]
    BY <1>1, <1>2, <1>3 DEF CancelInv
  <2>. QED BY <1>2, <2>5, <2>6 DEF CancelInv, Call
<1>8. RegsInv'
  <2>1. \A u \in Threads : (Starting(u)' => u # Loop) /\ (Starting(u)' <=> Starting(u))
    BY <1>3 DEF Starting
  <2>2. \A u \in Threads : Starting(u) => op[u].ev # e BY <1>2 DEF RegsInv
  <2>3. \A f \in Io \cup Timers : regs'[f] = 0 => curEv'[f] = <<>>
    BY <1>2, <1>4 DEF RegsInv, Events, Net
  <2>4. \A u \in Threads : Starting(u) => op[u].ev \in Events
    BY DEF Starting, Events, Net
  <2>5. \A u \in Threads : Starting(u)' => curEv'[op'[u].ev] = <<>>
    BY <1>3, <1>4, <2>1, <2>2, <2>4 DEF RegsInv
  <2>6. \A u \in Threads : op'[u].step \in {"register", "added"} => op'[u] = op[u]
    BY <1>3
  <2>. QED BY <1>2, <2>3, <2>5, <2>6 DEF RegsInv, Starting
<1>9. TimerInv'
  <2>1. \A u \in Threads : \A f : op[u] = Call("added", f) => op'[u] = Call("added", f)
    BY <1>2, <1>3 DEF Idle, Call
  <2>2. \A f \in timerMap' : centre'[f] \/ \E u \in Threads : op'[u] = Call("added", f)
    BY <1>2, <2>1 DEF TimerInv
  <2>. QED BY <1>2, <2>2 DEF TimerInv, Call
<1>. QED BY <1>6, <1>7, <1>8, <1>9

LEMMA CancelClearLife ==
    ASSUME TypeInv, LifeInv, NEW t \in Threads, CancelClear(t)
    PROVE  LifeInv'
<1>. USE ConstantsAssumption DEF TypeInv, LifeInv
<1>1. PICK e : e = op[t].ev OBVIOUS
<1>2. t = Loop /\ e \in Io /\ op[t].step = "cancel" /\ e \in Events /\ e # Wake
  BY <1>1 DEF CancelClear, CancelInv, Events, Net
<1>3. /\ op' = [op EXCEPT ![Loop] = Idle] /\ centre' = [centre EXCEPT ![e] = FALSE]
      /\ UNCHANGED <<pc, batch, active, waiting, curEv, netEvents, timerMap, heap,
                     regs>>
  BY <1>1, <1>2 DEF CancelClear, Detach, loopVars, regVars
<1>4. /\ \A u \in Threads : u # Loop => op'[u] = op[u]
      /\ op'[Loop] = Idle /\ op'[Loop].step = "idle"
      /\ \A f \in Events : f # e => (centre'[f] <=> centre[f])
      /\ ~centre'[e]
  BY <1>2, <1>3 DEF TypeOK, Idle, Threads
<1>6. \A f : Queued(f)' = Queued(f) BY <1>3, QueuedSame
<1>7. ListsInv'
  <2>1. \A f \in Net : centre'[f] => centre[f] BY <1>4 DEF Events
  <2>. QED BY <1>3, <1>6, <2>1 DEF ListsInv
<1>8. CancelInv'
  <2>1. \A f : op[Loop] = Call("cancel", f) => f = e BY <1>1, <1>2 DEF Call
  <2>2. \A u \in Threads : op'[u].step # "cancel"
    BY <1>4 DEF CancelInv
  <2>3. \A f \in Events : \A i \in DOMAIN curEv'[f] : curEv'[f][i] = "C" =>
           i = Len(curEv'[f]) /\ f \in Io /\ ~centre'[f]
    BY <1>3, <1>4, <2>1 DEF CancelInv
  <2>4. centre'[Wake] BY <1>2, <1>4 DEF CancelInv, Events, Net
  <2>. QED BY <2>2, <2>3, <2>4 DEF CancelInv, Call
<1>9. RegsInv'
  <2>1. \A u \in Threads : op'[u].step \in {"register", "added"} =>
           op'[u] = op[u] /\ op[u].ev \in Events
    BY <1>4 DEF Events, Net
  <2>2. \A f \in Io \cup Timers : f \in Events BY DEF Events, Net
  <2>3. \A f \in Events : centre'[f] => centre[f] BY <1>4
  <2>. QED BY <1>3, <2>1, <2>2, <2>3 DEF RegsInv, Starting
<1>10. TimerInv'
  <2>1. \A u \in Threads : \A f : op[u] = Call("added", f) => op'[u] = Call("added", f)
    BY <1>2, <1>4 DEF Call
  <2>2. \A f \in timerMap : f \in Events /\ f # e
    BY <1>2 DEF TypeOK, Events
  <2>3. \A f \in timerMap' : centre'[f] \/ \E u \in Threads : op'[u] = Call("added", f)
    BY <1>3, <1>4, <2>1, <2>2 DEF TimerInv
  <2>. QED BY <1>3, <2>3 DEF TimerInv, Call
<1>. QED BY <1>7, <1>8, <1>9, <1>10

LEMMA LoopStepLife ==
    ASSUME TypeInv, LockInv, LifeInv, LoopStep PROVE LifeInv'
<1>. USE DEF regVars, appVars
<1>1. CASE StartLoop
  <2>1. active = <<>> BY <1>1 DEF StartLoop, LifeInv, ListsInv
  <2>. QED BY <1>1, <2>1, LifeFrame DEF StartLoop
<1>2. CASE CheckRunning
  <2>1. active = <<>> BY <1>2 DEF CheckRunning, LifeInv, ListsInv
  <2>. QED BY <1>2, <2>1, LifeFrame DEF CheckRunning
<1>3. CASE MakeWaittingToActive BY <1>3, MakeLife
<1>4. CASE CalculateTimeoutMs BY <1>4, LifeFrame DEF CalculateTimeoutMs
<1>5. CASE PollReturns BY <1>5, LifeFrame DEF PollReturns
<1>6. ASSUME NEW e \in Net, PushActiveEvent(e) PROVE LifeInv'
  BY <1>6, PushActiveLife
<1>7. CASE TimerLaunch BY <1>7, TimerLaunchLife
<1>8. ASSUME NEW t \in Timers, FireTimer(t) PROVE LifeInv'
  BY <1>8, FireTimerLife
<1>9. CASE TimersDone BY <1>9, TimersDoneLife
<1>10. CASE BeginProcess BY <1>10, LifeFrame DEF BeginProcess
<1>11. CASE ProcessDangling BY <1>11, LifeFrame DEF ProcessDangling
<1>12. CASE ProcessCancel BY <1>12, ProcessCancelLife
<1>13. CASE SkipCancelled BY <1>13, SkipLife
<1>14. CASE BeginHandle BY <1>14, LifeFrame DEF BeginHandle
<1>15. CASE HandlerReturns BY <1>15, HandlerReturnsLife
<1>16. CASE EndProcess BY <1>16, LifeFrame DEF EndProcess
<1>. QED BY <1>1, <1>2, <1>3, <1>4, <1>5, <1>6, <1>7, <1>8, <1>9, <1>10,
       <1>11, <1>12, <1>13, <1>14, <1>15, <1>16 DEF LoopStep

LEMMA CallLife ==
    ASSUME HandlersCancel, TypeInv, LifeInv,
           NEW t \in Threads, BeginCall(t) \/ FinishCall(t)
    PROVE  LifeInv'
<1>. USE DEF regVars, appVars, loopVars
<1>0. /\ op \in [Threads -> Calls]
      /\ pc \in {"start", "top", "make"} => active = <<>>
  BY DEF TypeInv, TypeOK, LifeInv, ListsInv
<1>1. ASSUME NEW e \in Io \cup Timers, RegisterCall(t, e) PROVE LifeInv'
  BY <1>1, RegisterCallLife
<1>2. ASSUME NEW e \in Io \cup Timers, CancelPush(t, e) PROVE LifeInv'
  BY <1>2, CancelPushLife
<1>3. ASSUME NEW e \in Io \cup Timers, Drop(t, e) PROVE LifeInv'
  BY <1>0, <1>3, LifeFrame DEF Drop
<1>4. ASSUME NEW e \in Io, UpdateEvent(t, e) PROVE LifeInv'
  BY <1>0, <1>4, LifeFrame DEF UpdateEvent
<1>5. ASSUME NEW e \in Timers, Suspend(t, e) \/ Resume(t, e) PROVE LifeInv'
  BY <1>0, <1>5, LifeFrame DEF Suspend, Resume
<1>6. CASE ExitStore(t)
  <2>1. \A u \in Threads :
            op'[u] = op[u] \/ {op[u].step, op'[u].step} \subseteq {"idle", "exit"}
    BY <1>0, <1>6 DEF ExitStore, MayCall, Idle, Call
  <2>. QED BY <1>0, <1>6, <2>1, LifeFrame DEF ExitStore
<1>7. CASE RegisterAdd(t) BY <1>7, RegisterAddLife
<1>8. CASE RegisterDone(t) BY <1>8, RegisterDoneLife
<1>9. CASE CancelClear(t) BY <1>9, CancelClearLife
<1>10. CASE ExitWake(t)
  <2>1. \A u \in Threads :
            op'[u] = op[u] \/ {op[u].step, op'[u].step} \subseteq {"idle", "exit"}
    BY <1>0, <1>10 DEF ExitWake, Idle
  <2>. QED BY <1>0, <1>10, <2>1, LifeFrame DEF ExitWake
<1>. QED BY <1>1, <1>2, <1>3, <1>4, <1>5, <1>6, <1>7, <1>8, <1>9, <1>10
       DEF BeginCall, FinishCall

LEMMA LifeStep ==
    HandlersCancel /\ TypeInv /\ LockInv /\ LifeInv /\ [Next]_vars => LifeInv'
<1>. SUFFICES ASSUME HandlersCancel, TypeInv, LockInv, LifeInv, [Next]_vars
              PROVE  LifeInv'
  OBVIOUS
<1>. USE DEF loopVars, regVars, appVars
<1>0. pc \in {"start", "top", "make"} => active = <<>>
  BY DEF LifeInv, ListsInv
<1>1. CASE LoopStep BY <1>1, LoopStepLife
<1>2. CASE PollInterrupted BY <1>2, LifeFrame DEF PollInterrupted
<1>3. CASE PollFails BY <1>3, LifeFrame DEF PollFails
<1>4. ASSUME NEW t \in Threads, BeginCall(t) \/ FinishCall(t) PROVE LifeInv'
  BY <1>4, CallLife
<1>5. ASSUME NEW e \in Io, Arrive(e) PROVE LifeInv'
  BY <1>0, <1>5, LifeFrame DEF Arrive
<1>6. ASSUME NEW t \in Timers, Elapse(t) PROVE LifeInv'
  BY <1>0, <1>6, LifeFrame DEF Elapse
<1>7. CASE UNCHANGED vars BY <1>0, <1>7, LifeFrame DEF vars
<1>. QED BY <1>1, <1>2, <1>3, <1>4, <1>5, <1>6, <1>7 DEF Next

LEMMA LockInvariant == Spec => []LockInv
BY LockInit, LockStep, TypeCorrect, PTL DEF Spec

LEMMA LifeInvariant == HandlersCancel /\ Spec => []LifeInv
<1>. SUFFICES ASSUME HandlersCancel PROVE Spec => []LifeInv
  OBVIOUS
<1>1. TypeInv /\ LockInv /\ LifeInv /\ [Next]_vars => LifeInv' BY LifeStep
<1>. QED BY <1>1, LifeInit, TypeInvariant, LockInvariant, PTL DEF Spec

\* A list entry belongs to an event that the poller or the timer still owns.
LEMMA EntriesOwned ==
    ASSUME TypeInv, LifeInv
    PROVE  /\ \A i \in DOMAIN active : active[i] \in netEvents \cup timerMap
           /\ \A i \in DOMAIN waiting : waiting[i] \in netEvents
<1>. USE DEF TypeInv, LifeInv
<1>1. active \in Seq(Events) /\ waiting \in Seq(Events) BY DEF TypeOK
<1>2. \A e \in Net : e \notin netEvents =>
          /\ \A i \in DOMAIN active : active[i] # e
          /\ \A i \in DOMAIN waiting : waiting[i] # e
  BY QueuedNat DEF ListsInv
<1>3. \A i \in DOMAIN active : active[i] \in Net \/ active[i] \in Timers
  BY <1>1 DEF Events
<1>. QED BY <1>2, <1>3 DEF ListsInv, TimerInv

\* Where only handlers cancel, no raw pointer in m_activeEvs or m_waittingEvs
\* outlives its Event, whatever the application keeps or drops.
THEOREM NothingDangles == HandlersCancel /\ Spec => []NoDangling
<1>1. TypeInv /\ LifeInv => NoDangling
  BY EntriesOwned DEF NoDangling, Alive, Registered
<1>. QED BY <1>1, TypeInvariant, LifeInvariant, PTL

\* Where only handlers cancel, an attached descriptor stands in the lists as
\* often as it has kinds queued, so that no handler run meets an empty m_curEv.
THEOREM OneEntryPerKind == HandlersCancel /\ Spec => []EntryPerKind
<1>1. LifeInv => EntryPerKind
  BY DEF LifeInv, ListsInv, EntryPerKind, Queued
<1>. QED BY <1>1, LifeInvariant, PTL

----------------------------------------------------------------------------
(* m_eventsNum.                                                            *)

\* Only repeating timers are suspended: Launch deletes a suspended one-shot
\* timer without taking it off m_eventsNum.
LoopsSuspended == Suspends \subseteq Threads \X LoopTimers

CountInv == CountExact /\ suspended \subseteq LoopTimers

\* The thread between the two steps of RegisterEvent has m_mutex.
LEMMA AddingFinite ==
    ASSUME LockInv
    PROVE  IsFiniteSet(Adding) /\ Cardinality(Adding) \in Nat
<1>1. Adding \in SUBSET {lock} BY DEF Adding, LockInv, MutexHeld
<1>2. IsFiniteSet({lock}) BY FS_Singleton
<1>3. IsFiniteSet(Adding) BY <1>1, <1>2, FS_Subset
<1>. QED BY <1>3, FS_CardinalityType

LEMMA OwnedFinite ==
    ASSUME TypeOK
    PROVE  /\ IsFiniteSet(netEvents) /\ Cardinality(netEvents) \in Nat
           /\ IsFiniteSet(timerMap) /\ Cardinality(timerMap) \in Nat
           /\ eventsNum \in Int
<1>1. IsFiniteSet(Io) /\ IsFiniteSet(Timers) BY ConstantsAssumption
<1>2. IsFiniteSet(Io \cup {Wake}) BY <1>1, FS_AddElement
<1>3. netEvents \in SUBSET (Io \cup {Wake}) /\ timerMap \in SUBSET Timers
  BY DEF TypeOK, Net
<1>4. IsFiniteSet(netEvents) /\ IsFiniteSet(timerMap)
  BY <1>1, <1>2, <1>3, FS_Subset
<1>. QED BY <1>4, FS_CardinalityType DEF TypeOK

LEMMA CountInit == Init => CountInv
<1>. SUFFICES ASSUME Init PROVE CountInv OBVIOUS
<1>1. /\ Adding = {} /\ netEvents = {Wake} /\ timerMap = {} /\ eventsNum = 1
      /\ suspended = {}
  BY DEF Init, Adding, Idle
<1>2. Cardinality({}) = 0 /\ Cardinality({Wake}) = 1 BY FS_EmptySet, FS_Singleton
<1>. QED BY <1>1, <1>2 DEF CountInv, CountExact

\* Steps that neither own nor disown an event.
LEMMA CountFrame ==
    ASSUME CountInv, UNCHANGED <<netEvents, timerMap, eventsNum>>,
           suspended' \subseteq LoopTimers,
           \A u \in Threads : op'[u].step = "added" <=> op[u].step = "added"
    PROVE  CountInv'
<1>1. Adding' = Adding BY DEF Adding
<1>. QED BY <1>1 DEF CountInv, CountExact

LEMMA LoopStepCount ==
    ASSUME TypeInv, LockInv, LifeInv, CountInv, LoopStep
    PROVE  CountInv'
<1>. USE DEF regVars, appVars
<1>0. suspended \subseteq LoopTimers BY DEF CountInv
<1>1. CASE ProcessCancel
  <2>0. PICK h : h = Head(active) OBVIOUS
  <2>1. /\ pc = "proc" /\ active # <<>> /\ FrontKind(h) = "C"
        /\ netEvents' = netEvents \ {h} /\ timerMap' = timerMap \ {h}
        /\ eventsNum' = eventsNum - 1
        /\ UNCHANGED <<op, suspended>>
    BY <1>1, <2>0 DEF ProcessCancel, DeleteEvent
  <2>2. h \in Io /\ h \in netEvents BY <2>0, <2>1, FrontCancel
  <2>3. timerMap' = timerMap
    BY <2>1, <2>2, ConstantsAssumption DEF TypeInv, TypeOK
  <2>4. Adding' = Adding BY <2>1 DEF Adding
  <2>5. IsFiniteSet(netEvents) /\ Cardinality(netEvents) \in Nat
        /\ Cardinality(timerMap) \in Nat /\ eventsNum \in Int
        /\ Cardinality(Adding) \in Nat
    BY OwnedFinite, AddingFinite DEF TypeInv
  <2>6. Cardinality(netEvents \ {h}) = Cardinality(netEvents) - 1
    BY <2>2, <2>5, FS_RemoveElement
  <2>7. eventsNum + Cardinality(Adding) = Cardinality(netEvents) + Cardinality(timerMap)
    BY DEF CountInv, CountExact
  <2>8. eventsNum' + Cardinality(Adding') = Cardinality(netEvents') + Cardinality(timerMap')
    <3>1. Cardinality(netEvents') = Cardinality(netEvents) - 1 BY <2>1, <2>6
    <3>2. Cardinality(timerMap') = Cardinality(timerMap) BY <2>3
    <3>3. Cardinality(Adding') = Cardinality(Adding) BY <2>4
    <3>4. eventsNum' = eventsNum - 1 BY <2>1
    <3>. QED BY <2>5, <2>7, <3>1, <3>2, <3>3, <3>4
  <2>9. CountExact' BY <2>8 DEF CountExact
  <2>. QED BY <1>0, <2>1, <2>9 DEF CountInv
<1>2. ASSUME NEW t \in Timers, FireTimer(t) PROVE CountInv'
  <2>1. UNCHANGED <<netEvents, eventsNum, suspended, op>>
    BY <1>2 DEF FireTimer
  <2>3. Discarded(t) => Rearms(t) BY <1>0 DEF Rearms, Discarded
  <2>2. timerMap' = timerMap BY <1>2, <2>3 DEF FireTimer
  <2>. QED BY <1>0, <2>1, <2>2, CountFrame
<1>3. CASE StartLoop BY <1>0, <1>3, CountFrame DEF StartLoop
<1>4. CASE CheckRunning BY <1>0, <1>4, CountFrame DEF CheckRunning
<1>5. CASE MakeWaittingToActive BY <1>0, <1>5, CountFrame DEF MakeWaittingToActive
<1>6. CASE CalculateTimeoutMs BY <1>0, <1>6, CountFrame DEF CalculateTimeoutMs
<1>7. CASE PollReturns BY <1>0, <1>7, CountFrame DEF PollReturns
<1>8. ASSUME NEW e \in Net, PushActiveEvent(e) PROVE CountInv'
  BY <1>0, <1>8, CountFrame DEF PushActiveEvent
<1>9. CASE TimerLaunch BY <1>0, <1>9, CountFrame DEF TimerLaunch
<1>10. CASE TimersDone BY <1>0, <1>10, CountFrame DEF TimersDone
<1>11. CASE BeginProcess BY <1>0, <1>11, CountFrame DEF BeginProcess
<1>12. CASE ProcessDangling BY <1>0, <1>12, CountFrame DEF ProcessDangling
<1>13. CASE SkipCancelled BY <1>0, <1>13, CountFrame DEF SkipCancelled
<1>14. CASE BeginHandle BY <1>0, <1>14, CountFrame DEF BeginHandle
<1>15. CASE HandlerReturns BY <1>0, <1>15, CountFrame DEF HandlerReturns
<1>16. CASE EndProcess BY <1>0, <1>16, CountFrame DEF EndProcess
<1>. QED BY <1>1, <1>2, <1>3, <1>4, <1>5, <1>6, <1>7, <1>8, <1>9, <1>10,
       <1>11, <1>12, <1>13, <1>14, <1>15, <1>16 DEF LoopStep

LEMMA CallCount ==
    ASSUME LoopsSuspended, TypeInv, LockInv, LifeInv, CountInv,
           NEW t \in Threads, BeginCall(t) \/ FinishCall(t)
    PROVE  CountInv'
<1>. USE DEF regVars, appVars
<1>0. /\ suspended \subseteq LoopTimers /\ op \in [Threads -> Calls]
      /\ eventsNum + Cardinality(Adding) = Cardinality(netEvents) + Cardinality(timerMap)
  BY DEF CountInv, CountExact, TypeInv, TypeOK
<1>01. /\ IsFiniteSet(netEvents) /\ Cardinality(netEvents) \in Nat
       /\ IsFiniteSet(timerMap) /\ Cardinality(timerMap) \in Nat /\ eventsNum \in Int
       /\ IsFiniteSet(Adding) /\ Cardinality(Adding) \in Nat
  BY OwnedFinite, AddingFinite DEF TypeInv
<1>1. ASSUME NEW e \in Io \cup Timers, RegisterCall(t, e) PROVE CountInv'
  <2>1. \A u \in Threads : op'[u].step = "added" <=> op[u].step = "added"
    BY <1>0, <1>1 DEF RegisterCall, MayCall, Idle, Call
  <2>. QED BY <1>0, <1>1, <2>1, CountFrame DEF RegisterCall
<1>2. ASSUME NEW e \in Io \cup Timers, CancelPush(t, e) PROVE CountInv'
  <2>1. \A u \in Threads : op'[u].step = "added" <=> op[u].step = "added"
    BY <1>0, <1>2 DEF CancelPush, MayCall, Idle, Call
  <2>. QED BY <1>0, <1>2, <2>1, CountFrame DEF CancelPush
<1>3. ASSUME NEW e \in Io \cup Timers, Drop(t, e) PROVE CountInv'
  BY <1>0, <1>3, CountFrame DEF Drop
<1>4. ASSUME NEW e \in Io, UpdateEvent(t, e) PROVE CountInv'
  BY <1>0, <1>4, CountFrame DEF UpdateEvent
<1>5. ASSUME NEW e \in Timers, Suspend(t, e) \/ Resume(t, e) PROVE CountInv'
  BY <1>0, <1>5, CountFrame DEF Suspend, Resume, LoopsSuspended
<1>6. CASE ExitStore(t)
  <2>1. \A u \in Threads : op'[u].step = "added" <=> op[u].step = "added"
    BY <1>0, <1>6 DEF ExitStore, MayCall, Idle, Call
  <2>. QED BY <1>0, <1>6, <2>1, CountFrame DEF ExitStore
<1>7. CASE RegisterAdd(t)
  <2>1. PICK e \in Io \cup Timers : e = op[t].ev
    BY <1>7 DEF RegisterAdd, TypeInv
  <2>2. op[t].step = "register" /\ e \notin netEvents \cup timerMap
    BY <1>7, <2>1 DEF RegisterAdd, LifeInv, RegsInv
  <2>3. /\ AddEvent(e) \/ AddTimer(e)
        /\ op' = [op EXCEPT ![t] = Call("added", e)]
        /\ UNCHANGED <<eventsNum, suspended>>
    BY <1>7, <2>1, <2>2 DEF RegisterAdd, Registered
  <2>4. Adding' = Adding \cup {t} /\ t \notin Adding
    BY <1>0, <2>2, <2>3 DEF Adding, Call
  <2>5. Cardinality(Adding') = Cardinality(Adding) + 1
    BY <1>01, <2>4, FS_AddElement
  <2>6. CASE AddEvent(e)
    <3>1. netEvents' = netEvents \cup {e} /\ timerMap' = timerMap
      BY <2>6 DEF AddEvent
    <3>2. Cardinality(netEvents') = Cardinality(netEvents) + 1
      BY <1>01, <2>2, <3>1, FS_AddElement
    <3>. QED BY <1>0, <1>01, <2>3, <2>5, <3>1, <3>2 DEF CountInv, CountExact
  <2>7. CASE AddTimer(e)
    <3>1. timerMap' = timerMap \cup {e} /\ netEvents' = netEvents
      BY <2>7 DEF AddTimer
    <3>2. Cardinality(timerMap') = Cardinality(timerMap) + 1
      BY <1>01, <2>2, <3>1, FS_AddElement
    <3>. QED BY <1>0, <1>01, <2>3, <2>5, <3>1, <3>2 DEF CountInv, CountExact
  <2>. QED BY <2>3, <2>6, <2>7
<1>8. CASE RegisterDone(t)
  <2>1. /\ op[t].step = "added" /\ op' = [op EXCEPT ![t] = Idle]
        /\ eventsNum' = eventsNum + 1
        /\ UNCHANGED <<netEvents, timerMap, suspended>>
    BY <1>8 DEF RegisterDone
  <2>2. Adding' = Adding \ {t} /\ t \in Adding
    BY <1>0, <2>1 DEF Adding, Idle
  <2>3. Cardinality(Adding') = Cardinality(Adding) - 1
    BY <1>01, <2>2, FS_RemoveElement
  <2>. QED BY <1>0, <1>01, <2>1, <2>3 DEF CountInv, CountExact
<1>9. CASE CancelClear(t)
  <2>1. \A u \in Threads : op'[u].step = "added" <=> op[u].step = "added"
    BY <1>0, <1>9 DEF CancelClear, Idle
  <2>. QED BY <1>0, <1>9, <2>1, CountFrame DEF CancelClear
<1>10. CASE ExitWake(t)
  <2>1. \A u \in Threads : op'[u].step = "added" <=> op[u].step = "added"
    BY <1>0, <1>10 DEF ExitWake, Idle
  <2>. QED BY <1>0, <1>10, <2>1, CountFrame DEF ExitWake
<1>. QED BY <1>1, <1>2, <1>3, <1>4, <1>5, <1>6, <1>7, <1>8, <1>9, <1>10
       DEF BeginCall, FinishCall

LEMMA CountStep ==
    LoopsSuspended /\ TypeInv /\ LockInv /\ LifeInv /\ CountInv /\ [Next]_vars
        => CountInv'
<1>. SUFFICES ASSUME LoopsSuspended, TypeInv, LockInv, LifeInv, CountInv,
                     [Next]_vars
              PROVE  CountInv'
  OBVIOUS
<1>. USE DEF regVars, appVars
<1>0. suspended \subseteq LoopTimers BY DEF CountInv
<1>1. CASE LoopStep BY <1>1, LoopStepCount
<1>2. CASE PollInterrupted BY <1>0, <1>2, CountFrame DEF PollInterrupted
<1>3. CASE PollFails BY <1>0, <1>3, CountFrame DEF PollFails
<1>4. ASSUME NEW t \in Threads, BeginCall(t) \/ FinishCall(t) PROVE CountInv'
  BY <1>4, CallCount
<1>5. ASSUME NEW e \in Io, Arrive(e) PROVE CountInv'
  BY <1>0, <1>5, CountFrame DEF Arrive
<1>6. ASSUME NEW t \in Timers, Elapse(t) PROVE CountInv'
  BY <1>0, <1>6, CountFrame DEF Elapse
<1>7. CASE UNCHANGED vars BY <1>0, <1>7, CountFrame DEF vars
<1>. QED BY <1>1, <1>2, <1>3, <1>4, <1>5, <1>6, <1>7 DEF Next

\* Where only handlers cancel and no one-shot timer is suspended, m_eventsNum,
\* by which EventCentrePool balances, counts what the centre owns.
THEOREM EventsCounted == HandlersCancel /\ LoopsSuspended /\ Spec => []CountExact
<1>. SUFFICES ASSUME HandlersCancel, LoopsSuspended PROVE Spec => []CountExact
  OBVIOUS
<1>1. TypeInv /\ LockInv /\ LifeInv /\ CountInv /\ [Next]_vars => CountInv'
  BY CountStep
<1>2. CountInv => CountExact BY DEF CountInv
<1>3. Spec => []LifeInv BY LifeInvariant
<1>. QED BY <1>1, <1>2, <1>3, CountInit, TypeInvariant, LockInvariant, PTL
       DEF Spec

----------------------------------------------------------------------------
(* The centre implements EventLife.                                        *)

\* Steps that attach, own and start nothing leave the abstract life alone.
LEMMA SameLife ==
    ASSUME UNCHANGED <<centre, netEvents, timerMap>>,
           \A u \in Threads :
               \/ op'[u] = op[u]
               \/ op[u].step # "added" /\ op'[u].step # "added"
    PROVE  AbstractLife' = AbstractLife
<1>1. \A e, u : u \in Threads => (op'[u] # Call("added", e) <=> op[u] # Call("added", e))
  BY DEF Call
<1>. QED BY <1>1 DEF AbstractLife, Registered, Call

LEMMA SameBusy ==
    ASSUME UNCHANGED <<pc, active>> \/ (pc # "handle" /\ pc' # "handle")
    PROVE  AbstractBusy' = AbstractBusy
BY DEF AbstractBusy

\* A step that changes the abstract life of one event.
LEMMA LifeAt ==
    ASSUME NEW e \in Events, NEW v,
           AbstractLife'[e] = v,
           \A f \in Events : f # e => AbstractLife'[f] = AbstractLife[f]
    PROVE  AbstractLife' = [AbstractLife EXCEPT ![e] = v]
<1>. PICK a, b : a = AbstractLife /\ b = AbstractLife' OBVIOUS
<1>1. DOMAIN a = Events /\ a = [f \in Events |-> a[f]]
  BY DEF AbstractLife
<1>2. b = [f \in Events |-> b[f]]
  BY DEF AbstractLife
<1>. QED BY <1>1, <1>2

LEMMA RefinesInit == Init => Life!LifeInit
<1>. SUFFICES ASSUME Init PROVE Life!LifeInit OBVIOUS
<1>1. /\ centre = [e \in Events |-> e = Wake] /\ pc = "start" /\ eventsNum = 1
      /\ netEvents = {Wake} /\ timerMap = {}
  BY DEF Init
<1>2. AbstractLife = [e \in Events |-> IF e = Wake THEN "in" ELSE "out"]
  BY <1>1 DEF AbstractLife, Registered
<1>3. AbstractBusy = None BY <1>1 DEF AbstractBusy
<1>. QED BY <1>1, <1>2, <1>3 DEF Life!LifeInit

AbstractStutter == UNCHANGED <<AbstractLife, AbstractBusy, eventsNum>>

LEMMA LoopStepRefines ==
    ASSUME TypeInv, LockInv, LifeInv, LoopStep
    PROVE  AbstractStutter \/ Life!LifeNext
<1>. USE ConstantsAssumption DEF TypeInv, regVars, appVars, AbstractStutter
<1>1. CASE ProcessCancel
  <2>0. PICK h : h = Head(active) OBVIOUS
  <2>1. /\ pc = "proc" /\ pc' = "proc" /\ active # <<>> /\ FrontKind(h) = "C"
        /\ netEvents' = netEvents \ {h} /\ timerMap' = timerMap \ {h}
        /\ eventsNum' = eventsNum - 1
        /\ UNCHANGED <<op, centre>>
    BY <1>1, <2>0 DEF ProcessCancel, DeleteEvent
  <2>2. /\ h \in Io /\ h \in netEvents /\ ~centre[h]
        /\ \A t \in Threads : Starting(t) => op[t].ev # h
    BY <2>0, <2>1, FrontCancel
  <2>3. h \in Events /\ h \notin timerMap BY <2>2 DEF Events, Net, TypeOK
  <2>4. \A t \in Threads : op[t] # Call("added", h)
    BY <2>2 DEF Starting, Call
  <2>5. AbstractLife[h] = "closing"
    BY <2>2, <2>3, <2>4 DEF AbstractLife, Registered
  <2>6. AbstractLife'[h] = "out"
    BY <2>1, <2>2, <2>3 DEF AbstractLife, Registered
  <2>7. \A f \in Events : f # h => AbstractLife'[f] = AbstractLife[f]
    BY <2>1 DEF AbstractLife, Registered, Call
  <2>8. AbstractLife' = [AbstractLife EXCEPT ![h] = "out"]
    BY <2>3, <2>6, <2>7, LifeAt
  <2>9. AbstractBusy = None /\ AbstractBusy' = None BY <2>1 DEF AbstractBusy
  <2>10. Life!Leave(h) BY <2>1, <2>5, <2>8, <2>9 DEF Life!Leave
  <2>. QED BY <2>3, <2>10 DEF Life!LifeNext
<1>2. CASE BeginHandle
  <2>0. PICK h : h = Head(active) OBVIOUS
  <2>1. /\ pc = "proc" /\ pc' = "handle" /\ active # <<>> /\ centre[h]
        /\ UNCHANGED <<op, centre, netEvents, timerMap, eventsNum, active>>
    BY <1>2, <2>0 DEF BeginHandle, Attached
  <2>2. h \in Events BY <2>0, <2>1 DEF TypeOK
  <2>3. AbstractLife' = AbstractLife BY <2>1, SameLife
  <2>4. AbstractLife[h] = "in" BY <2>1, <2>2 DEF AbstractLife
  <2>5. AbstractBusy = None /\ AbstractBusy' = h BY <2>0, <2>1 DEF AbstractBusy
  <2>6. Life!Begin(h) BY <2>1, <2>3, <2>4, <2>5 DEF Life!Begin
  <2>. QED BY <2>2, <2>6 DEF Life!LifeNext
<1>3. CASE HandlerReturns
  <2>1. /\ pc = "handle" /\ pc' = "proc" /\ active # <<>>
        /\ UNCHANGED <<op, centre, netEvents, timerMap, eventsNum>>
    BY <1>3 DEF HandlerReturns
  <2>2. Head(active) \in Events BY <2>1 DEF TypeOK
  <2>3. AbstractLife' = AbstractLife BY <2>1, SameLife
  <2>4. AbstractBusy # None /\ AbstractBusy' = None BY <2>1, <2>2 DEF AbstractBusy
  <2>5. Life!End BY <2>1, <2>3, <2>4 DEF Life!End
  <2>. QED BY <2>5 DEF Life!LifeNext
<1>4. ASSUME NEW t \in Timers, FireTimer(t) PROVE AbstractStutter
  <2>1. /\ pc = "timers" /\ pc' = "timers"
        /\ UNCHANGED <<op, centre, netEvents, eventsNum>>
        /\ timerMap' = timerMap \/ timerMap' = timerMap \ {t}
    BY <1>4 DEF FireTimer
  <2>2. CASE timerMap' = timerMap
    BY <2>1, <2>2, SameLife, SameBusy
  <2>3. CASE timerMap' = timerMap \ {t} /\ t \in timerMap
    <3>1. centre[t] \/ \E u \in Threads : op[u] = Call("added", t)
      BY <2>3 DEF LifeInv, TimerInv
    <3>2. \A f \in Events : AbstractLife'[f] = AbstractLife[f]
      BY <2>1, <2>3, <3>1 DEF AbstractLife, Registered, Call
    <3>3. AbstractLife' = AbstractLife BY <3>2 DEF AbstractLife
    <3>. QED BY <2>1, <3>3, SameBusy
  <2>4. timerMap' = timerMap \/ (timerMap' = timerMap \ {t} /\ t \in timerMap)
    BY <2>1
  <2>. QED BY <2>2, <2>3, <2>4
<1>5. CASE StartLoop BY <1>5, SameLife, SameBusy DEF StartLoop
<1>6. CASE CheckRunning BY <1>6, SameLife, SameBusy DEF CheckRunning
<1>7. CASE MakeWaittingToActive
  BY <1>7, SameLife, SameBusy DEF MakeWaittingToActive
<1>8. CASE CalculateTimeoutMs
  BY <1>8, SameLife, SameBusy DEF CalculateTimeoutMs
<1>9. CASE PollReturns BY <1>9, SameLife, SameBusy DEF PollReturns
<1>10. ASSUME NEW e \in Net, PushActiveEvent(e) PROVE AbstractStutter
  BY <1>10, SameLife, SameBusy DEF PushActiveEvent
<1>11. CASE TimerLaunch BY <1>11, SameLife, SameBusy DEF TimerLaunch
<1>12. CASE TimersDone BY <1>12, SameLife, SameBusy DEF TimersDone
<1>13. CASE BeginProcess BY <1>13, SameLife, SameBusy DEF BeginProcess
<1>14. CASE ProcessDangling BY <1>14, SameLife, SameBusy DEF ProcessDangling
<1>15. CASE SkipCancelled BY <1>15, SameLife, SameBusy DEF SkipCancelled
<1>16. CASE EndProcess BY <1>16, SameLife, SameBusy DEF EndProcess
<1>. QED BY <1>1, <1>2, <1>3, <1>4, <1>5, <1>6, <1>7, <1>8, <1>9, <1>10,
       <1>11, <1>12, <1>13, <1>14, <1>15, <1>16 DEF LoopStep

LEMMA CallRefines ==
    ASSUME TypeInv, LifeInv, NEW t \in Threads, BeginCall(t) \/ FinishCall(t)
    PROVE  AbstractStutter \/ Life!LifeNext
<1>. USE ConstantsAssumption DEF TypeInv, loopVars, regVars, appVars, AbstractStutter
<1>0. op \in [Threads -> Calls] BY DEF TypeOK
<1>1. ASSUME NEW e \in Io \cup Timers, RegisterCall(t, e) PROVE AbstractStutter
  <2>1. \A u \in Threads : \/ op'[u] = op[u]
                           \/ op[u].step # "added" /\ op'[u].step # "added"
    BY <1>0, <1>1 DEF RegisterCall, MayCall, Idle, Call
  <2>. QED BY <1>1, <2>1, SameLife, SameBusy DEF RegisterCall
<1>2. ASSUME NEW e \in Io \cup Timers, CancelPush(t, e) PROVE AbstractStutter
  <2>1. \A u \in Threads : \/ op'[u] = op[u]
                           \/ op[u].step # "added" /\ op'[u].step # "added"
    BY <1>0, <1>2 DEF CancelPush, MayCall, Idle, Call
  <2>. QED BY <1>2, <2>1, SameLife, SameBusy DEF CancelPush
<1>3. ASSUME NEW e \in Io \cup Timers, Drop(t, e) PROVE AbstractStutter
  BY <1>3, SameLife, SameBusy DEF Drop
<1>4. ASSUME NEW e \in Io, UpdateEvent(t, e) PROVE AbstractStutter
  BY <1>4, SameLife, SameBusy DEF UpdateEvent
<1>5. ASSUME NEW e \in Timers, Suspend(t, e) \/ Resume(t, e) PROVE AbstractStutter
  BY <1>5, SameLife, SameBusy DEF Suspend, Resume
<1>6. CASE ExitStore(t)
  <2>1. \A u \in Threads : \/ op'[u] = op[u]
                           \/ op[u].step # "added" /\ op'[u].step # "added"
    BY <1>0, <1>6 DEF ExitStore, MayCall, Idle, Call
  <2>. QED BY <1>6, <2>1, SameLife, SameBusy DEF ExitStore
<1>7. CASE RegisterAdd(t)
  <2>1. PICK e \in Io \cup Timers : e = op[t].ev
    BY <1>7 DEF RegisterAdd
  <2>2. /\ op[t].step = "register" /\ e \notin netEvents \cup timerMap
        /\ ~centre[e] /\ e \in Events
    BY <1>7, <2>1 DEF RegisterAdd, LifeInv, RegsInv, Starting, Events, Net
  <2>3. /\ AddEvent(e) \/ AddTimer(e)
        /\ op' = [op EXCEPT ![t] = Call("added", e)]
        /\ UNCHANGED <<pc, active, eventsNum, centre>>
    BY <1>7, <2>1, <2>2 DEF RegisterAdd, Registered
  <2>4. \/ netEvents' = netEvents \cup {e} /\ timerMap' = timerMap
        \/ timerMap' = timerMap \cup {e} /\ netEvents' = netEvents
    BY <2>3 DEF AddEvent, AddTimer
  <2>5. op'[t] = Call("added", e) /\ \A u \in Threads : u # t => op'[u] = op[u]
    BY <1>0, <2>3
  <2>6. \A f : f # e => Call("added", f) # Call("added", e) /\ Call("added", f) # op[t]
    BY <2>2 DEF Call
  <2>7. AbstractLife[e] = "out" /\ AbstractLife'[e] = "out"
    BY <2>2, <2>3, <2>5 DEF AbstractLife, Registered, Call
  <2>8. ASSUME NEW f \in Events, f # e PROVE AbstractLife'[f] = AbstractLife[f]
    <3>1. \A u \in Threads : op'[u] = Call("added", f) <=> op[u] = Call("added", f)
      BY <2>5, <2>6, <2>8
    <3>2. f \in netEvents' \cup timerMap' <=> f \in netEvents \cup timerMap
      BY <2>4, <2>8
    <3>. QED BY <2>3, <3>1, <3>2 DEF AbstractLife, Registered, Call
  <2>9. AbstractLife' = [AbstractLife EXCEPT ![e] = "out"]
    BY <2>2, <2>7, <2>8, LifeAt
  <2>10. AbstractLife' = AbstractLife BY <2>2, <2>7, <2>9 DEF AbstractLife
  <2>. QED BY <2>3, <2>10, SameBusy
<1>8. CASE RegisterDone(t)
  <2>1. PICK e \in Io \cup Timers : e = op[t].ev
    BY <1>8 DEF RegisterDone
  <2>2. op[t].step = "added" /\ ~centre[e] /\ e \in Events /\ op[t] = Call("added", e)
    BY <1>0, <1>8, <2>1
       DEF RegisterDone, LifeInv, RegsInv, Starting, Events, Net, Call, Calls
  <2>3. /\ op' = [op EXCEPT ![t] = Idle] /\ centre' = [centre EXCEPT ![e] = TRUE]
        /\ eventsNum' = eventsNum + 1
        /\ UNCHANGED <<pc, active, netEvents, timerMap>>
    BY <1>8, <2>1 DEF RegisterDone
  <2>4. AbstractLife[e] = "out" BY <2>2 DEF AbstractLife
  <2>5. AbstractLife'[e] = "in" BY <2>2, <2>3 DEF AbstractLife, TypeOK
  <2>6. ASSUME NEW f \in Events, f # e PROVE AbstractLife'[f] = AbstractLife[f]
    <3>1. \A u \in Threads : op'[u] = Call("added", f) <=> op[u] = Call("added", f)
      BY <1>0, <2>2, <2>3, <2>6 DEF Call, Idle
    <3>2. centre'[f] = centre[f] BY <2>3, <2>6 DEF TypeOK
    <3>. QED BY <2>3, <3>1, <3>2 DEF AbstractLife, Registered, Call
  <2>7. AbstractLife' = [AbstractLife EXCEPT ![e] = "in"]
    BY <2>2, <2>5, <2>6, LifeAt
  <2>8. AbstractBusy' = AbstractBusy BY <2>3, SameBusy
  <2>9. Life!Enter(e) BY <2>3, <2>4, <2>7, <2>8 DEF Life!Enter
  <2>. QED BY <2>2, <2>9 DEF Life!LifeNext
<1>9. CASE CancelClear(t)
  <2>1. PICK e \in Io \cup Timers : e = op[t].ev
    BY <1>9 DEF CancelClear
  <2>2. /\ op[t].step = "cancel" /\ e \in Io /\ e \in Net /\ centre[e] /\ e \in Events
        /\ e \in netEvents
    BY <1>9, <2>1 DEF CancelClear, LifeInv, CancelInv, ListsInv, Events, Net
  <2>3. /\ op' = [op EXCEPT ![t] = Idle] /\ centre' = [centre EXCEPT ![e] = FALSE]
        /\ UNCHANGED <<pc, active, netEvents, timerMap, eventsNum>>
    BY <1>9, <2>1 DEF CancelClear, Detach
  <2>4. AbstractLife[e] = "in" BY <2>2 DEF AbstractLife
  <2>5. \A u \in Threads : op'[u] # Call("added", e)
    <3>1. \A u \in Threads : op[u] # Call("added", e)
      BY <2>2 DEF LifeInv, RegsInv, Starting, Call
    <3>. QED BY <1>0, <2>3, <3>1 DEF Idle, Call
  <2>6. AbstractLife'[e] = "closing"
    <3>1. ~centre'[e] /\ e \in netEvents' BY <2>2, <2>3 DEF TypeOK
    <3>. QED BY <2>2, <2>5, <3>1 DEF AbstractLife, Registered, Call
  <2>7. ASSUME NEW f \in Events, f # e PROVE AbstractLife'[f] = AbstractLife[f]
    <3>1. \A u \in Threads : op'[u] = Call("added", f) <=> op[u] = Call("added", f)
      BY <1>0, <2>2, <2>3 DEF Call, Idle
    <3>2. centre'[f] = centre[f] BY <2>3, <2>7 DEF TypeOK
    <3>. QED BY <2>3, <3>1, <3>2 DEF AbstractLife, Registered, Call
  <2>8. AbstractLife' = [AbstractLife EXCEPT ![e] = "closing"]
    BY <2>2, <2>6, <2>7, LifeAt
  <2>9. AbstractBusy' = AbstractBusy BY <2>3, SameBusy
  <2>10. Life!Close(e) BY <2>3, <2>4, <2>8, <2>9 DEF Life!Close
  <2>. QED BY <2>2, <2>10 DEF Life!LifeNext
<1>10. CASE ExitWake(t)
  <2>1. \A u \in Threads : \/ op'[u] = op[u]
                           \/ op[u].step # "added" /\ op'[u].step # "added"
    BY <1>0, <1>10 DEF ExitWake, Idle
  <2>. QED BY <1>10, <2>1, SameLife, SameBusy DEF ExitWake
<1>. QED BY <1>1, <1>2, <1>3, <1>4, <1>5, <1>6, <1>7, <1>8, <1>9, <1>10
       DEF BeginCall, FinishCall

LEMMA RefinesStep ==
    TypeInv /\ LockInv /\ LifeInv /\ [Next]_vars => [Life!LifeNext]_(Life!lifeVars)
<1>. SUFFICES ASSUME TypeInv, LockInv, LifeInv, [Next]_vars
              PROVE  AbstractStutter \/ Life!LifeNext
  BY DEF AbstractStutter, Life!lifeVars
<1>. USE DEF regVars, appVars, loopVars, AbstractStutter
<1>1. CASE LoopStep BY <1>1, LoopStepRefines
<1>2. CASE PollInterrupted BY <1>2, SameLife, SameBusy DEF PollInterrupted
<1>3. CASE PollFails BY <1>3, SameLife, SameBusy DEF PollFails
<1>4. ASSUME NEW t \in Threads, BeginCall(t) \/ FinishCall(t)
      PROVE  AbstractStutter \/ Life!LifeNext
  BY <1>4, CallRefines
<1>5. ASSUME NEW e \in Io, Arrive(e) PROVE AbstractStutter
  BY <1>5, SameLife, SameBusy DEF Arrive
<1>6. ASSUME NEW t \in Timers, Elapse(t) PROVE AbstractStutter
  BY <1>6, SameLife, SameBusy DEF Elapse
<1>7. CASE UNCHANGED vars BY <1>7, SameLife, SameBusy DEF vars
<1>. QED BY <1>1, <1>2, <1>3, <1>4, <1>5, <1>6, <1>7 DEF Next

\* Where only handlers cancel, a centre implements the life cycle of EventLife
\* for every number of events, timers and threads: an event enters once its
\* registration is through, is closed by CancelEvent, leaves in
\* ProcessActiveEvent, and handlers run one at a time, only for what is in.
THEOREM CentreImplementsLife == HandlersCancel /\ Spec => ImplementsLife
<1>. SUFFICES ASSUME HandlersCancel PROVE Spec => ImplementsLife
  OBVIOUS
<1>1. Spec => []LifeInv BY LifeInvariant
<1>. QED BY <1>1, RefinesInit, RefinesStep, TypeInvariant, LockInvariant, PTL
       DEF Spec, ImplementsLife, Life!LifeSpec
=============================================================================
