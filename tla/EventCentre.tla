---------------------------- MODULE EventCentre ----------------------------
(***************************************************************************)
(* One EventCentre of src/common/net on the epoll build: the loop thread   *)
(* (EventLoop) polls the kernel and the timer heap, collects the active    *)
(* events and runs their handlers under m_mutex; handlers and the threads  *)
(* of Clients call RegisterEvent, CancelEvent, UpdateEvent and Exit.       *)
(*                                                                         *)
(* Events are compared by identity only.  The bits of m_curEv are reduced  *)
(* to two kinds: "R" (whatever the poller reported) and "C" (EV_CANCEL,    *)
(* the only kind PushEvent is called with on this build).  Time is the set *)
(* due of timers whose m_nextTime has passed.                              *)
(***************************************************************************)
EXTENDS Integers, Sequences, FiniteSets

CONSTANTS
    Io,          \* IO events of the application
    Wake,        \* the centre's own eventfd event, m_wakeUpEvent
    Timers,      \* timer events
    LoopTimers,  \* the timers with m_isLoop
    Kept,        \* events of which the application keeps a shared_ptr
    Reused,      \* kept events it registers again after they were deleted
    Loop,        \* the thread inside EventLoop
    Clients,     \* other threads using the centre
    Registers,   \* <<t, e>>: thread t may register event e
    Cancels,     \* <<t, e>>: thread t may cancel event e
    Updates,     \* <<t, e>>: thread t may change the events e waits for
    Suspends,    \* <<t, e>>: thread t may suspend and resume timer e
    Exiters,     \* threads that may call Exit
    MaxCur,      \* bound: no call pushes to an m_curEv this long
    MaxRegs,     \* bound: how often a reused event is registered
    None         \* nobody, nothing

Threads == Clients \cup {Loop}
Net     == Io \cup {Wake}
Events  == Net \cup Timers
Kinds   == {"R", "C"}

ASSUME ConstantsAssumption ==
    /\ Wake \notin Io /\ Wake \notin Timers /\ Io \cap Timers = {}
    /\ Loop \notin Clients
    /\ None \notin Threads /\ None \notin Events
    /\ LoopTimers \subseteq Timers
    /\ Reused \subseteq Kept /\ Kept \subseteq Io \cup Timers
    /\ Registers \subseteq Threads \X (Io \cup Timers)
    /\ Cancels \subseteq Threads \X (Io \cup Timers)
    /\ Updates \subseteq Threads \X Io
    /\ Suspends \subseteq Threads \X Timers
    /\ Exiters \subseteq Threads
    /\ MaxCur \in Nat /\ MaxRegs \in Nat
    /\ IsFiniteSet(Io) /\ IsFiniteSet(Timers)

VARIABLES
    pc,         \* where the loop thread is
    running,    \* m_running
    lock,       \* owner of the recursive m_mutex
    active,     \* m_activeEvs, from the entry being processed on
    waiting,    \* m_waittingEvs
    timeout,    \* result of CalculateTimeoutMs
    batch,      \* what epoll_wait or the timer heap reported, not yet pushed
    curEv,      \* m_curEv of each event
    centre,     \* m_pCentre is this centre (else NULL)
    netEvents,  \* Poller::m_events
    timerMap,   \* Timer::m_timerMap
    heap,       \* number of weak_ptr entries of a timer in Timer::m_timers
    due,        \* timers whose m_nextTime has passed
    suspended,  \* timers with m_isSuspend
    ready,      \* events whose fd has an edge epoll has not reported yet
    eventsNum,  \* m_eventsNum
    curTimers,  \* Timer::s_curTimers
    held,       \* events whose shared_ptr the application holds
    regs,       \* how often an event was registered
    op          \* the library call each thread is in

loopVars == <<pc, running, active, timeout, batch>>
regVars  == <<netEvents, timerMap, heap, eventsNum, curTimers>>
appVars  == <<held, regs, op>>
envVars  == <<due, ready>>
vars == <<loopVars, lock, waiting, curEv, centre, regVars, suspended,
          envVars, appVars>>

----------------------------------------------------------------------------
Idle == [step |-> "idle", ev |-> None]
Calls == [step : {"idle", "register", "added", "cancel", "exit"},
          ev : Events \cup {None}]
Call(step, e) == [step |-> step, ev |-> e]

Registered == netEvents \cup timerMap

\* An Event object exists while some shared_ptr to it does: the maps of the
\* poller and the timer, the application, or the argument of a call.
Alive(e) ==
    \/ e = Wake
    \/ e \in held \cup Registered
    \/ \E t \in Threads : op[t].step \in {"register", "added"} /\ op[t].ev = e

\* A thread has a usable pointer to e: its shared_ptr, or the reference that
\* Handle of e itself received.
CanUse(t, e) == e \in held \/ (t = Loop /\ pc = "handle" /\ Head(active) = e)

\* Thread t is in application code and can make a call; the thread that runs
\* the loop also does so before EventLoop.
MayCall(t) ==
    /\ op[t] = Idle
    /\ t = Loop => pc = "start" \/ (pc = "handle" /\ Head(active) # Wake)

LockFree(t) == lock \in {None, t}
\* The lock is kept between the steps of a call; after a call made by a
\* handler the loop thread still has it.
Locked(t)   == lock' = t
Unlocked(t) == lock' = IF t = Loop /\ pc = "handle" THEN Loop ELSE None

Init ==
    /\ pc = "start" /\ running = FALSE /\ lock = None
    /\ active = <<>> /\ waiting = <<>> /\ timeout = "zero" /\ batch = {}
    /\ curEv = [e \in Events |-> <<>>]
    /\ centre = [e \in Events |-> e = Wake]
    /\ netEvents = {Wake} /\ timerMap = {}
    /\ heap = [t \in Timers |-> 0]
    /\ due = {} /\ suspended = {}
    /\ ready = {}
    /\ eventsNum = 1 /\ curTimers = 0
    /\ held = Io \cup Timers
    /\ regs = [e \in Events |-> 0]
    /\ op = [t \in Threads |-> Idle]

----------------------------------------------------------------------------
(* The loop thread.                                                        *)

StartLoop ==
    /\ pc = "start" /\ op[Loop] = Idle
    /\ pc' = "top" /\ running' = TRUE
    /\ UNCHANGED <<lock, active, waiting, timeout, batch, curEv, centre,
                   regVars, suspended, envVars, appVars>>

CheckRunning ==
    /\ pc = "top"
    /\ pc' = IF running THEN "make" ELSE "stopped"
    /\ UNCHANGED <<running, lock, active, waiting, timeout, batch, curEv,
                   centre, regVars, suspended, envVars, appVars>>

MakeWaittingToActive ==
    /\ pc = "make" /\ LockFree(Loop)
    /\ active' = waiting \o active
    /\ waiting' = <<>>
    /\ pc' = "calc"
    /\ UNCHANGED <<running, lock, timeout, batch, curEv, centre, regVars,
                   suspended, envVars, appVars>>

InHeap == {t \in Timers : heap[t] > 0}

\* GetNextTimeout looks at the front only: an entry whose timer died makes it
\* 0 when it is the front.
NextTimeout ==
    CASE InHeap = {} -> {"infinite"}
      [] \E t \in InHeap : t \in due /\ Alive(t) -> {"zero"}
      [] \A t \in InHeap : ~Alive(t) -> {"zero"}
      [] \A t \in InHeap : Alive(t) -> {"finite"}
      [] OTHER -> {"zero", "finite"}

\* Mutant: the poller sleeps although cancelled or pushed events wait.
PollTimeout_Timers == NextTimeout

\* Zero while there are active events.
PollTimeout == IF active # <<>> THEN {"zero"} ELSE NextTimeout

CalculateTimeoutMs ==
    /\ pc = "calc"
    /\ timeout' \in PollTimeout
    /\ pc' = "poll"
    /\ UNCHANGED <<running, lock, active, waiting, batch, curEv, centre,
                   regVars, suspended, envVars, appVars>>

\* epoll_wait returns the edges of the registered descriptors, each once.
EpollReady == ready \cap netEvents

PollReturns ==
    /\ pc = "poll"
    /\ \/ EpollReady # {}
       \/ timeout = "zero"
       \/ timeout = "finite" /\ due \cap InHeap # {}
    /\ batch' = EpollReady
    /\ ready' = ready \ EpollReady
    /\ pc' = "push"
    /\ UNCHANGED <<running, lock, active, waiting, timeout, curEv, centre,
                   regVars, suspended, due, appVars>>

\* EINTR while it sleeps: Launch goes on with no event.
PollInterrupted ==
    /\ pc = "poll" /\ EpollReady = {} /\ timeout # "zero"
    /\ batch' = {} /\ pc' = "push"
    /\ UNCHANGED <<running, lock, active, waiting, timeout, curEv, centre,
                   regVars, suspended, envVars, appVars>>

\* Any other error of epoll_wait ends the loop.
PollFails ==
    /\ pc = "poll"
    /\ pc' = "stopped" /\ running' = FALSE
    /\ UNCHANGED <<lock, active, waiting, timeout, batch, curEv, centre,
                   regVars, suspended, envVars, appVars>>

\* Runs without m_mutex, as the whole of Launch.
PushActiveEvent(e) ==
    /\ pc = "push" /\ e \in batch
    /\ batch' = batch \ {e}
    /\ IF e \in netEvents /\ centre[e]
       THEN /\ curEv' = [curEv EXCEPT ![e] = Append(@, "R")]
            /\ active' = Append(active, e)
       ELSE UNCHANGED <<curEv, active>>
    /\ UNCHANGED <<pc, running, lock, waiting, timeout, centre, regVars,
                   suspended, envVars, appVars>>

\* Timer::Launch begins: the live entries that are due at m_lastRunTime.
TimerLaunch ==
    /\ pc = "push" /\ batch = {}
    /\ batch' = {t \in InHeap \cap due : Alive(t)}
    /\ pc' = "timers"
    /\ UNCHANGED <<running, lock, active, waiting, timeout, curEv, centre,
                   regVars, suspended, envVars, appVars>>

Rearms(t) == t \in LoopTimers

\* A suspended timer that is not rearmed is deleted.
Discarded(t) == t \in suspended

\* The front entry of Timer::m_timers is the due timer t.
FireTimer(t) ==
    /\ pc = "timers" /\ t \in batch
    /\ IF Rearms(t)
       THEN /\ due' = due \ {t}          \* SetNextTime, Push, Pop
            /\ batch' = batch \ {t}
            /\ UNCHANGED <<heap, timerMap, curTimers>>
       ELSE /\ heap' = [heap EXCEPT ![t] = @ - 1]
            /\ batch' = IF heap[t] > 1 THEN batch ELSE batch \ {t}
            /\ IF Discarded(t)           \* DelTimer, which skips m_eventsNum
               THEN timerMap' = timerMap \ {t} /\ curTimers' = curTimers - 1
               ELSE UNCHANGED <<timerMap, curTimers>>
            /\ UNCHANGED due
    /\ active' = IF t \in suspended THEN active ELSE Append(active, t)
    /\ UNCHANGED <<pc, running, lock, waiting, timeout, curEv, centre,
                   netEvents, eventsNum, suspended, ready, appVars>>

\* Timer::Launch ends: entries of dead timers at the front were popped.
TimersDone ==
    /\ pc = "timers" /\ batch = {}
    /\ heap' = [t \in Timers |-> IF Alive(t) THEN heap[t] ELSE 0]
    /\ pc' = "lock"
    /\ UNCHANGED <<running, lock, active, waiting, timeout, batch, curEv,
                   centre, netEvents, timerMap, eventsNum, curTimers,
                   suspended, envVars, appVars>>

BeginProcess ==
    /\ pc = "lock" /\ LockFree(Loop)
    /\ lock' = Loop /\ pc' = "proc"
    /\ UNCHANGED <<running, active, waiting, timeout, batch, curEv, centre,
                   regVars, suspended, envVars, appVars>>

FrontKind(e) == IF curEv[e] = <<>> THEN "none" ELSE Head(curEv[e])

\* Mutant: the rest of the list is given up.
NextEntries_None == <<>>

NextEntries == Tail(active)

\* Mutant: GetCentre is not tested.
Attached_Always(e) == TRUE

Attached(e) == centre[e]

\* The three branches of ProcessActiveEvent; an entry of a destroyed event is
\* undefined behaviour and ends the run at "ub".
ProcessDangling ==
    /\ pc = "proc" /\ active # <<>> /\ ~Alive(Head(active))
    /\ pc' = "ub"
    /\ UNCHANGED <<running, lock, active, waiting, timeout, batch, curEv,
                   centre, regVars, suspended, envVars, appVars>>

DeleteEvent(e) ==
    /\ netEvents' = netEvents \ {e}
    /\ timerMap' = timerMap \ {e}
    /\ curTimers' = IF e \in Timers THEN curTimers - 1 ELSE curTimers
    /\ eventsNum' = eventsNum - 1

ProcessCancel ==
    /\ pc = "proc" /\ active # <<>> /\ Alive(Head(active))
    /\ FrontKind(Head(active)) = "C"
    /\ DeleteEvent(Head(active))
    /\ active' = NextEntries
    /\ UNCHANGED <<pc, running, lock, waiting, timeout, batch, curEv, centre,
                   heap, suspended, envVars, appVars>>

SkipCancelled ==
    /\ pc = "proc" /\ active # <<>> /\ Alive(Head(active))
    /\ FrontKind(Head(active)) # "C" /\ ~Attached(Head(active))
    /\ active' = NextEntries
    /\ UNCHANGED <<pc, running, lock, waiting, timeout, batch, curEv, centre,
                   regVars, suspended, envVars, appVars>>

\* Handle begins; the handler of the wake-up event just reads its eventfd.
BeginHandle ==
    /\ pc = "proc" /\ active # <<>> /\ Alive(Head(active))
    /\ FrontKind(Head(active)) # "C" /\ Attached(Head(active))
    /\ pc' = "handle"
    /\ ready' = IF Head(active) = Wake THEN ready \ {Wake} ELSE ready
    /\ UNCHANGED <<running, lock, active, waiting, timeout, batch, curEv,
                   centre, regVars, suspended, due, appVars>>

\* Mutant: the handled kind stays in m_curEv.
PopCurEv_Keeps(e) == curEv[e]

PopCurEv(e) == IF curEv[e] = <<>> THEN <<>> ELSE Tail(curEv[e])

HandlerReturns ==
    /\ pc = "handle" /\ op[Loop] = Idle
    /\ curEv' = [curEv EXCEPT ![Head(active)] = PopCurEv(Head(active))]
    /\ active' = NextEntries
    /\ pc' = "proc"
    /\ UNCHANGED <<running, lock, waiting, timeout, batch, centre, regVars,
                   suspended, envVars, appVars>>

EndProcess ==
    /\ pc = "proc" /\ active = <<>>
    /\ lock' = None /\ pc' = "top"
    /\ UNCHANGED <<running, active, waiting, timeout, batch, curEv, centre,
                   regVars, suspended, envVars, appVars>>

----------------------------------------------------------------------------
(* Calls made by handlers (t = Loop) and by other threads.                 *)

\* RegisterEvent before it takes the lock; a shared_ptr the application does
\* not keep is moved into the call.
RegisterCall(t, e) ==
    /\ <<t, e>> \in Registers /\ MayCall(t) /\ e \in held
    /\ regs[e] < IF e \in Reused THEN MaxRegs ELSE 1
    /\ ~centre[e]
    /\ op' = [op EXCEPT ![t] = Call("register", e)]
    /\ held' = IF e \in Kept THEN held ELSE held \ {e}
    /\ regs' = [regs EXCEPT ![e] = @ + 1]
    /\ UNCHANGED <<loopVars, lock, waiting, curEv, centre, regVars, suspended,
                   envVars>>

\* AddEvent (epoll reports the descriptor from here on).
AddEvent(e) ==
    /\ e \in Io
    /\ netEvents' = netEvents \cup {e}
    /\ UNCHANGED <<timerMap, heap, curTimers, ready>>

\* Mutant: nobody is woken.
WakeUp_Lost == UNCHANGED ready

\* WakeUp writes the eventfd.
WakeUp == ready' = ready \cup {Wake}

\* AddTimer, which wakes the loop.
AddTimer(e) ==
    /\ e \in Timers
    /\ timerMap' = timerMap \cup {e}
    /\ heap' = [heap EXCEPT ![e] = @ + 1]
    /\ curTimers' = curTimers + 1
    /\ WakeUp
    /\ UNCHANGED netEvents

RegisterAdd(t) ==
    LET e == op[t].ev IN
    /\ op[t].step = "register" /\ LockFree(t)
    /\ IF e \in Registered
       THEN /\ op' = [op EXCEPT ![t] = Idle]
            /\ UNCHANGED <<lock, netEvents, timerMap, heap, curTimers, ready>>
       ELSE /\ AddEvent(e) \/ AddTimer(e)
            /\ op' = [op EXCEPT ![t] = Call("added", e)]
            /\ Locked(t)
    /\ UNCHANGED <<loopVars, waiting, curEv, centre, eventsNum, suspended,
                   due, held, regs>>

RegisterDone(t) ==
    /\ op[t].step = "added"
    /\ centre' = [centre EXCEPT ![op[t].ev] = TRUE]
    /\ eventsNum' = eventsNum + 1
    /\ op' = [op EXCEPT ![t] = Idle]
    /\ Unlocked(t)
    /\ UNCHANGED <<loopVars, waiting, curEv, netEvents, timerMap, heap,
                   curTimers, suspended, envVars, held, regs>>

\* Mutant: the event keeps its centre.
Detach_Keeps(e) == UNCHANGED centre

\* SetCenter(NULL)
Detach(e) == centre' = [centre EXCEPT ![e] = FALSE]

\* EventCentre::PushEvent, of EV_CANCEL.
PushEvent(e) ==
    /\ centre[e]
    /\ curEv' = [curEv EXCEPT ![e] = Append(@, "C")]
    /\ waiting' = Append(waiting, e)

CancelPush(t, e) ==
    /\ <<t, e>> \in Cancels /\ MayCall(t) /\ CanUse(t, e) /\ LockFree(t)
    /\ Len(curEv[e]) < MaxCur
    /\ PushEvent(e)
    /\ op' = [op EXCEPT ![t] = Call("cancel", e)]
    /\ Locked(t)
    /\ UNCHANGED <<loopVars, centre, regVars, suspended, envVars, held, regs>>

CancelClear(t) ==
    /\ op[t].step = "cancel"
    /\ Detach(op[t].ev)
    /\ op' = [op EXCEPT ![t] = Idle]
    /\ Unlocked(t)
    /\ UNCHANGED <<loopVars, waiting, curEv, regVars, suspended, envVars,
                   held, regs>>

\* Event::UpdateEvent, by EnableEvent and DisableEvent, so by WriteBuffer of a
\* Connecter.  EPOLL_CTL_MOD makes epoll report once more what the descriptor is
\* ready for; when it is ready for nothing, nothing changes.
UpdateEvent(t, e) ==
    /\ <<t, e>> \in Updates /\ MayCall(t) /\ CanUse(t, e) /\ LockFree(t)
    /\ centre[e] /\ e \in netEvents
    /\ ready' = ready \cup {e}
    /\ UNCHANGED <<loopVars, lock, waiting, curEv, centre, regVars, suspended,
                   due, appVars>>

ExitStore(t) ==
    /\ t \in Exiters /\ MayCall(t)
    /\ running
    /\ running' = FALSE
    /\ op' = [op EXCEPT ![t] = Call("exit", None)]
    /\ UNCHANGED <<pc, lock, active, waiting, timeout, batch, curEv, centre,
                   regVars, suspended, envVars, held, regs>>

ExitWake(t) ==
    /\ op[t].step = "exit"
    /\ WakeUp
    /\ op' = [op EXCEPT ![t] = Idle]
    /\ UNCHANGED <<loopVars, lock, waiting, curEv, centre, regVars, suspended,
                   due, held, regs>>

Suspend(t, e) ==
    /\ <<t, e>> \in Suspends /\ MayCall(t) /\ CanUse(t, e)
    /\ e \notin suspended
    /\ suspended' = suspended \cup {e}
    /\ UNCHANGED <<loopVars, lock, waiting, curEv, centre, regVars, envVars,
                   appVars>>

Resume(t, e) ==
    /\ <<t, e>> \in Suspends /\ MayCall(t) /\ CanUse(t, e)
    /\ e \in suspended
    /\ suspended' = suspended \ {e}
    /\ UNCHANGED <<loopVars, lock, waiting, curEv, centre, regVars, envVars,
                   appVars>>

\* The application gives up its shared_ptr.
Drop(t, e) ==
    /\ <<t, e>> \in Cancels \cup Registers /\ MayCall(t)
    /\ e \in held \cap Kept
    /\ held' = held \ {e}
    /\ UNCHANGED <<loopVars, lock, waiting, curEv, centre, regVars, suspended,
                   envVars, regs, op>>

----------------------------------------------------------------------------
(* The kernel and the clock.                                               *)

Arrive(e) ==
    /\ e \in Io \ ready
    /\ ready' = ready \cup {e}
    /\ UNCHANGED <<loopVars, lock, waiting, curEv, centre, regVars, suspended,
                   due, appVars>>

Elapse(t) ==
    /\ t \in InHeap \ due
    /\ due' = due \cup {t}
    /\ UNCHANGED <<loopVars, lock, waiting, curEv, centre, regVars, suspended,
                   ready, appVars>>

----------------------------------------------------------------------------
LoopStep ==
    \/ StartLoop \/ CheckRunning \/ MakeWaittingToActive
    \/ CalculateTimeoutMs \/ PollReturns
    \/ \E e \in Net : PushActiveEvent(e)
    \/ TimerLaunch
    \/ \E t \in Timers : FireTimer(t)
    \/ TimersDone \/ BeginProcess
    \/ ProcessDangling \/ ProcessCancel \/ SkipCancelled
    \/ BeginHandle \/ HandlerReturns \/ EndProcess

\* The rest of a call a thread has begun.
FinishCall(t) ==
    RegisterAdd(t) \/ RegisterDone(t) \/ CancelClear(t) \/ ExitWake(t)

BeginCall(t) ==
    \/ \E e \in Io \cup Timers : RegisterCall(t, e) \/ CancelPush(t, e)
                                      \/ Drop(t, e)
    \/ \E e \in Io : UpdateEvent(t, e)
    \/ \E e \in Timers : Suspend(t, e) \/ Resume(t, e)
    \/ ExitStore(t)

Next ==
    \/ LoopStep
    \/ PollInterrupted \/ PollFails
    \/ \E t \in Threads : BeginCall(t) \/ FinishCall(t)
    \/ \E e \in Io : Arrive(e)
    \/ \E t \in Timers : Elapse(t)

Spec == Init /\ [][Next]_vars

\* Threads are scheduled: the loop and every call that was begun go on.
FairSpec ==
    /\ Spec
    /\ WF_vars(LoopStep)
    /\ \A t \in Threads : WF_vars(FinishCall(t))
    /\ \A t \in Timers : WF_vars(Elapse(t))
----------------------------------------------------------------------------
(* Properties.                                                             *)

TypeOK ==
    /\ pc \in {"start", "top", "make", "calc", "poll", "push", "timers",
               "lock", "proc", "handle", "stopped", "ub"}
    /\ running \in BOOLEAN
    /\ lock \in Threads \cup {None}
    /\ active \in Seq(Events) /\ waiting \in Seq(Events)
    /\ timeout \in {"zero", "finite", "infinite"}
    /\ batch \subseteq Events
    /\ curEv \in [Events -> Seq(Kinds)]
    /\ centre \in [Events -> BOOLEAN]
    /\ netEvents \subseteq Net /\ timerMap \subseteq Timers
    /\ heap \in [Timers -> Int]
    /\ due \subseteq Timers /\ suspended \subseteq Timers
    /\ ready \subseteq Net
    /\ eventsNum \in Int /\ curTimers \in Int
    /\ held \subseteq Io \cup Timers
    /\ regs \in [Events -> Nat]
    /\ op \in [Threads -> Calls]

\* The loop thread never dereferences an Event that was destroyed: every raw
\* pointer left in the two lists belongs to an event somebody still owns.
NoDangling ==
    /\ \A i \in DOMAIN active : Alive(active[i])
    /\ \A i \in DOMAIN waiting : Alive(waiting[i])

Adding == {t \in Threads : op[t].step = "added"}

\* m_eventsNum, by which EventCentrePool balances its centres, counts exactly
\* the events the poller and the timer own (one is being added at most).
CountExact ==
    eventsNum + Cardinality(Adding) = Cardinality(netEvents) + Cardinality(timerMap)

Occurrences(s, e) == Cardinality({i \in DOMAIN s : s[i] = e})

\* While an IO event is registered it stands in the lists once for each kind
\* queued in its m_curEv, so every handler run finds the kind it was queued
\* for: ProcessActiveEvent pops one kind per entry.
EntryPerKind ==
    \A e \in Net : centre[e] =>
        Occurrences(active, e) + Occurrences(waiting, e)
            = Len(curEv[e])

\* The loop never sleeps through a wake-up: if it is in epoll_wait without a
\* timeout while the heap has a timer, or with m_running cleared, then the
\* eventfd is readable (or the thread in Exit is about to write it).
NoMissedWakeUp ==
    /\ Wake \in netEvents
    /\ pc = "poll" /\ timeout = "infinite" /\ InHeap # {} => Wake \in ready
    /\ pc = "poll" /\ ~running =>
          Wake \in ready \/ \E t \in Threads : op[t].step = "exit"

Stopped == pc \in {"stopped", "ub"}

Handling(e) == pc = "handle" /\ Head(active) = e

\* PushEvent only broadcasts m_waittintEvsCond, on which nothing waits in this
\* build: what another thread pushes while the loop is in epoll_wait without a
\* timeout lies there until something else ends the wait.
SleepsOver(e) ==
    pc = "poll" /\ timeout = "infinite" /\ \E i \in DOMAIN waiting : waiting[i] = e

\* An EV_CANCEL that reached the front of m_curEv deletes the event: one that
\* a handler pushed always does, as CalculateTimeoutMs finds it in
\* m_waittingEvs, and one of another thread unless the loop sleeps over it.
CancelTakesEffect ==
    \A e \in Io :
        (e \in Registered /\ ~centre[e] /\ FrontKind(e) = "C")
            ~> (e \notin Registered \/ Stopped \/ SleepsOver(e))

\* Every cancelled event is deleted: ProcessActiveEvent says that EV_CANCEL
\* is handled first.
EveryCancelDeletes ==
    \A e \in Io :
        (\E i \in DOMAIN curEv[e] : curEv[e][i] = "C" /\ e \in Registered)
            ~> (e \notin Registered \/ Stopped)

\* A due timer of the centre runs even when it was added by another thread
\* while the loop slept in epoll_wait without a timeout.
DueTimerFires ==
    \A t \in Timers :
        (t \in due /\ heap[t] > 0 /\ centre[t])
            ~> (Handling(t) \/ ~centre[t] \/ t \in suspended \/ Stopped)

\* Exit, once it has stored m_running, ends EventLoop from wherever it is.
ExitStopsLoop ==
    \A t \in Threads : (op[t].step = "exit") ~> Stopped

\* An edge of a registered descriptor, also one that UpdateEvent renewed from
\* another thread, reaches the handler although epoll (edge triggered) reports
\* it only once.
EdgeIsHandled ==
    \A e \in Io : (e \in ready /\ e \in netEvents)
            ~> (Handling(e) \/ ~centre[e] \/ Stopped)

\* The centre as the abstract life of its events.
AbstractLife == [e \in Events |->
    IF centre[e] THEN "in"
    ELSE IF e \in Registered /\ \A t \in Threads : op[t] # Call("added", e)
         THEN "closing" ELSE "out"]
AbstractBusy == IF pc = "handle" THEN Head(active) ELSE None

Life == INSTANCE EventLife WITH
    Nobody <- None, First <- Wake, life <- AbstractLife, busy <- AbstractBusy, count <- eventsNum

\* The centre implements the abstract life cycle: registration, cancellation
\* and deletion of an event happen in this order under all interleavings, and
\* handlers only run in between.
ImplementsLife == Life!LifeSpec

\* m_mutex keeps the calls of other threads out of ProcessActiveEvent, and two
\* calls from each other, though each is several steps long.
MutexHeld ==
    /\ pc \in {"proc", "handle"} => lock = Loop
    /\ \A t \in Threads : op[t].step \in {"added", "cancel"} => lock = t
=============================================================================
