----------------------------- MODULE TimerHeap -----------------------------
(***************************************************************************)
(* src/common/net/Timer and src/common/template/MinHeap: the timers of one *)
(* centre in a binary heap of weak pointers, ordered by m_nextTime, and    *)
(* the loop of Timer::Launch over its front.  A heap entry is the timer it *)
(* points to; it has expired when the timer is dead.  All of it runs in    *)
(* the loop thread.                                                        *)
(***************************************************************************)
EXTENDS Integers, Sequences, FiniteSets

CONSTANTS
    Timers,
    LoopTimers,  \* timers with m_isLoop
    Kept,        \* timers the application keeps after they are deleted
    Deleted,     \* timers that may be cancelled
    Suspendable, \* timers that may be suspended
    Timeout,     \* m_timeoutMs of each timer
    IntMax,      \* INT_MAX (2^31 - 1 in the code; less here, with the times)
    MaxTime      \* bound: the clock stops here

HeapConstants ==
    /\ IsFiniteSet(Timers)
    /\ LoopTimers \subseteq Timers /\ Kept \subseteq Timers
    /\ Deleted \subseteq Timers /\ Suspendable \subseteq Timers
    /\ Timeout \in [Timers -> Nat]
    /\ IntMax \in Nat /\ MaxTime \in Nat

VARIABLES
    heap,       \* m_heap up to m_curSize
    timerMap,   \* m_timerMap
    dead,       \* destroyed timers
    nextTime,   \* m_nextTime
    suspended,  \* timers with m_isSuspend
    now,        \* GetCurrentMSec
    last,       \* m_lastRunTime
    pc,         \* inside Launch or not
    fired,      \* the timers this Launch appended to the active events
    spent       \* one-shot timers that fired

clockVars == <<now, last, pc>>
vars == <<heap, timerMap, dead, nextTime, suspended, clockVars, fired, spent>>

Init ==
    /\ heap = <<>> /\ timerMap = {} /\ dead = {}
    /\ nextTime = [t \in Timers |-> 0]
    /\ suspended = {} /\ now = 0 /\ last = 0
    /\ pc = "idle" /\ fired = <<>> /\ spent = {}

----------------------------------------------------------------------------
(* MinHeap.                                                                *)

\* TimerCmp: an expired entry is less than none, and none less than it.
Less(next, s, t) == s \notin dead /\ t \notin dead /\ next[s] < next[t]

\* The heap once node is put in at p, or above it: while node is less than the
\* parent, which stands at p \div 2, the parent moves down.
ShiftUp(h, next, pos, node) ==
    LET up[p \in 1 .. Len(h)] ==
            IF p > 1 /\ Less(next, node, h[p \div 2])
            THEN [up[p \div 2] EXCEPT ![p] = h[p \div 2]]
            ELSE [h EXCEPT ![p] = node]
    IN  up[pos]

\* Mutant: the left child, which need not be the smaller.
Child_Left(h, next, pos) == 2 * pos

\* Compare(Left(pos), Right(pos)): 0 when there is no child.
Child(h, next, pos) ==
    LET l == 2 * pos  r == 2 * pos + 1 IN
    CASE l > Len(h) -> 0
      [] l = Len(h) -> l
      [] OTHER -> IF Less(next, h[l], h[r]) THEN l ELSE r

\* The heap once node is put in at p, or below it.
ShiftDown(h, next, pos, node) ==
    LET down[p \in 1 .. Len(h)] ==
            LET c == Child(h, next, p) IN
            IF c \in 1 .. Len(h) /\ Less(next, h[c], node)
            THEN [down[c] EXCEPT ![p] = h[c]]
            ELSE [h EXCEPT ![p] = node]
    IN  down[pos]

Push(h, next, t) == ShiftUp(Append(h, t), next, Len(h) + 1, t)

Pop(h, next) ==
    LET n == Len(h) - 1
        g == [SubSeq(h, 1, n) EXCEPT ![1] = h[n + 1]]
    IN  IF n = 0 THEN <<>> ELSE ShiftDown(g, next, 1, h[n + 1])

----------------------------------------------------------------------------
(* Adding and deleting, between two Launches.                              *)

\* The constructor of TimerEvent.
Start(t) == nextTime' = [nextTime EXCEPT ![t] = now + Timeout[t]]

\* The TimerEvent is constructed and registered, once in its life: that a kept
\* timer is registered again is left out.
AddTimer(t) ==
    /\ pc = "idle" /\ t \notin timerMap \cup dead \cup spent
    /\ \A i \in DOMAIN heap : heap[i] # t
    /\ Start(t)
    /\ timerMap' = timerMap \cup {t}
    /\ heap' = Push(heap, nextTime', t)
    /\ UNCHANGED <<dead, suspended, clockVars, fired, spent>>

\* ProcessActiveEvent handles EV_CANCEL; the heap entry stays.
DelTimer(t) ==
    /\ pc = "idle" /\ t \in timerMap \cap Deleted
    /\ timerMap' = timerMap \ {t}
    /\ dead' = IF t \in Kept THEN dead ELSE dead \cup {t}
    /\ UNCHANGED <<heap, nextTime, suspended, clockVars, fired, spent>>

Suspend(t) ==
    /\ t \in Suspendable \ suspended
    /\ suspended' = suspended \cup {t}
    /\ UNCHANGED <<heap, timerMap, dead, nextTime, clockVars, fired, spent>>

Resume(t) ==
    /\ t \in suspended
    /\ suspended' = suspended \ {t}
    /\ UNCHANGED <<heap, timerMap, dead, nextTime, clockVars, fired, spent>>

\* Also while Launch runs.
Tick ==
    /\ now < MaxTime
    /\ now' = now + 1
    /\ UNCHANGED <<heap, timerMap, dead, nextTime, suspended, last, pc, fired,
                   spent>>

----------------------------------------------------------------------------
(* Launch.                                                                 *)

LaunchBegin ==
    /\ pc = "idle"
    /\ pc' = "launch" /\ last' = now /\ fired' = <<>>
    /\ UNCHANGED <<heap, timerMap, dead, nextTime, suspended, now, spent>>

InLaunch == pc = "launch" /\ heap # <<>>

PopDead ==
    /\ InLaunch /\ Head(heap) \in dead
    /\ heap' = Pop(heap, nextTime)
    /\ UNCHANGED <<timerMap, dead, nextTime, suspended, clockVars, fired, spent>>

\* The front is not due.
Pending(t) == last < nextTime[t]

Due(t) == t \notin dead /\ ~Pending(t)

\* Mutant: the loop timer is not pushed again.
Rearm_None(t) ==
    /\ nextTime' = [nextTime EXCEPT ![t] = now + Timeout[t]]
    /\ heap' = Pop(heap, nextTime')

\* SetNextTime changes the key of the entry at the front as well; a second
\* entry is pushed, then the front is popped.
Rearm(t) ==
    /\ nextTime' = [nextTime EXCEPT ![t] = now + Timeout[t]]
    /\ heap' = Pop(Push(heap, nextTime', t), nextTime')

FireLoop(t) ==
    /\ InLaunch /\ t = Head(heap) /\ Due(t) /\ t \in LoopTimers
    /\ fired' = IF t \in suspended THEN fired ELSE Append(fired, t)
    /\ Rearm(t)
    /\ UNCHANGED <<timerMap, dead, suspended, clockVars, spent>>

\* A suspended one-shot timer is deleted; the others stay in m_timerMap.
FireOnce(t) ==
    /\ InLaunch /\ t = Head(heap) /\ Due(t) /\ t \notin LoopTimers
    /\ heap' = Pop(heap, nextTime)
    /\ spent' = spent \cup {t}
    /\ IF t \in suspended
       THEN /\ timerMap' = timerMap \ {t}
            /\ dead' = IF t \in Kept THEN dead ELSE dead \cup {t}
            /\ UNCHANGED fired
       ELSE /\ fired' = Append(fired, t)
            /\ UNCHANGED <<timerMap, dead>>
    /\ UNCHANGED <<nextTime, suspended, clockVars>>

LaunchEnd ==
    /\ pc = "launch"
    /\ heap # <<>> => Head(heap) \notin dead /\ Pending(Head(heap))
    /\ pc' = "idle"
    /\ UNCHANGED <<heap, timerMap, dead, nextTime, suspended, now, last, fired,
                   spent>>

----------------------------------------------------------------------------
(* GetNextTimeout.                                                         *)

\* static_cast<int> of the 64 bit difference: there are Ints ints.
Ints == 2 * (IntMax + 1)

ToInt(x) == LET m == x % Ints IN IF m > IntMax THEN m - Ints ELSE m

\* Mutant: the unsigned difference is returned as it is.
NotNegative_Raw(x) == x % Ints

NotNegative(x) == IF x > 0 THEN x ELSE 0

GetNextTimeout ==
    CASE heap = <<>> -> -1
      [] heap # <<>> /\ Head(heap) \in dead -> 0
      [] OTHER -> NotNegative(ToInt(nextTime[Head(heap)] - now))

----------------------------------------------------------------------------
Next ==
    \/ \E t \in Timers : AddTimer(t) \/ DelTimer(t) \/ Suspend(t) \/ Resume(t)
                             \/ FireLoop(t) \/ FireOnce(t)
    \/ Tick \/ LaunchBegin \/ PopDead \/ LaunchEnd

Spec == Init /\ [][Next]_vars

----------------------------------------------------------------------------
(* Properties.                                                             *)

Entries == {heap[i] : i \in DOMAIN heap}
Live == Entries \ dead

TypeOK ==
    /\ heap \in Seq(Timers) /\ timerMap \subseteq Timers /\ dead \subseteq Timers
    /\ nextTime \in [Timers -> Nat]
    /\ suspended \subseteq Timers
    /\ now \in 0..MaxTime /\ last \in 0..now /\ pc \in {"idle", "launch"}
    /\ fired \in Seq(Timers) /\ spent \subseteq Timers

\* Until the first timer dies, Launch takes the timers in the order in which
\* they are due, although it rekeys an entry in place before it pushes, and
\* leaves none behind that was due when it began.
TakenInOrder ==
    dead = {} =>
        /\ fired' # fired /\ fired' # <<>> =>
               LET t == fired'[Len(fired')] IN
               \A u \in Live : nextTime[t] <= nextTime[u]
        /\ LaunchEnd => \A u \in Live : nextTime[u] > last

LaunchInOrder == [][TakenInOrder]_vars

\* The shifts neither lose nor double an entry, also when dead entries compare
\* as equal to all others: a timer in m_timerMap that has not had its only run
\* stands in the heap exactly once.
EntryKept ==
    \A t \in Timers :
        t \in timerMap \ spent =>
            \E i \in DOMAIN heap : \A j \in DOMAIN heap : heap[j] = t <=> j = i

\* The loop does not sleep past timer u.
AwakeFor(u) ==
    GetNextTimeout # -1 /\ GetNextTimeout <= NotNegative(nextTime[u] - now)

\* Something for Launch to do: a timer that is due or dead, or one so far
\* ahead that the time to it overflows an int.
Ready ==
    \/ \E u \in Entries : u \in dead \/ nextTime[u] <= now
    \/ nextTime[Head(heap)] - now > IntMax

\* Timer.h promises 0 when a timer is ready, else the time to the next one.
\* The loop never sleeps past a live timer, as long as no timer has died: an
\* expired entry hides the timers behind it.  And it does not spin: 0 means
\* that Launch has something to do.
TimeoutRight ==
    /\ pc = "idle" /\ dead = {} => \A u \in Live : AwakeFor(u)
    /\ GetNextTimeout = 0 => Ready
=============================================================================
