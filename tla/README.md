# TLA+ verification of WorkPro (the *chaos* server framework)

This directory holds TLA+ models of the framework under `src/src/common`, the
TLC configurations that check them, and TLAPS proofs of their most important
properties.  The models describe the Linux build with `EPOLL_ENABLE`
(`CMakeLists.txt` switches it on), except `Iocp` and `IocpAccept`, which are the
Windows build.  Paths below are relative to `src/src/`.

## 1. The system

A game server process runs one or more *event centres*.  A centre is an event
loop in one thread: it polls the kernel and its timers, collects the events that
became active and runs their handlers.  Other threads register events, push
writes, cancel events and stop the loop.  Around it stand a thread pool, a pool
of centres that runs one loop per pool thread, sockets with read and write
buffers, a database pool, a logger, and the game code.

| Component | State | Operations | Made correct by |
|---|---|---|---|
| `EventCentre`, `Event` (`common/net/Event.*`) | `m_running`, `m_activeEvs`, `m_waittingEvs`, `m_eventsNum`; per event `m_pCentre`, `m_ev`, the queue `m_curEv` | `EventLoop`, `RegisterEvent`, `CancelEvent`, `PushEvent`, `UpdateEvent`, `Exit`, `WakeUp` | no raw pointer in a list outlives its event; each list entry has its kind in `m_curEv`; a cancelled event is deleted once and never handled again; the loop does not sleep through work |
| `Poller`, `Epoll` (`common/net/Poller.*`, `Epoll.*`) | `m_events`, the epoll set | `AddEvent`, `DelEvent`, `Launch`, `PushActiveEvent`, `UpdateFd` | the map and the epoll set agree; an edge is handled although it is reported once |
| `Timer`, `MinHeap` (`common/net/Timer.*`, `common/template/MinHeap.h`) | the heap `m_timers` of weak pointers, `m_timerMap`, `s_curTimers`, the bitmap `s_ids` | `AddTimer`, `DelTimer`, `Launch`, `GetNextTimeout`, `CreateTimerID`, `ReleaseTimerID` | a due timer fires, in order of due time; ids of live timers differ |
| `ThreadPool`, `Thread`, `Condition`, `Mutex` (`common/thread/*`) | `m_running`, `m_tq`, the condition variable, started and joined threads | `Run`, `Stop`, `PushTask`, `PoolWorkFunc`, the destructor | a pushed task is executed once unless the pool stops; `Stop` wakes and joins everybody |
| `EventCentrePool` (`Event.cpp` 479-579) | `m_started`, `m_centres`, `m_startedCb`, the static counter `worked` | `Start`, `Stop`, `RegisterEvent`, `Work` | `Start` returns, or calls back, when all loops exist; `Stop` ends them; a registration goes to a live centre |
| `Listener`, `Connecter` (`Event.cpp` 745-1525) | socket, read and write buffers, callbacks | `Listen`, `Handle`, `WriteBuffer`, `HandleRead`, `HandleWrite`, `EnableEvent`, `DisableEvent`, `AsyncConnect` | bytes leave in the order written, none is lost; an edge is drained |
| `Buffer` (`common/net/Buffer.*`) | a ring of nodes, a read and a write position | `WriteBuffer`, `ReadBuffer`, `GetWriteBuffer`, `MoveWritePos`, `MoveReadPos`, `Expand` | first in, first out |
| `DBPool` and its drivers (`common/db/*`) | connection threads, request and result queues | `Start`, `Stop`, `Query`, `Recover`, `Work` | every query is answered at most once, by its callback, in turn; live connections are counted |
| `Logger` (`common/log`) | current file, its size, fill count, time of the last line | `Init`, `WriteLog`, `OpenLogFile` | no line in a file of an earlier day; files are bounded |
| `Package` (`common/package`) | a header and a body | `Pack`, `UnPack` | what is packed is unpacked |
| Game server (`servers/gamesvr/main.cpp`) | `m_clients` | `ListenCb`, `ReadCb`, `WriteCb`, `EventCb` | every served connection has its client, and clients are forgotten with their connection |
| AOI manager (`servers/gamesvr/aoi`) | grids and who stands in them | `Enter`, `Leave`, `Move` | neighbours know each other |
| Mine sweeper (`servers/gamesvr/mine_sweeper`) | the map, opened points | `CreateMap`, `OnClickPoint` | a flood ends where it should; the last point wins |
| `IOCP`, `Select` (`common/net`) | the Windows poller with overlapped operations, the fallback | `Launch`, `AsynRead`, `AsynWrite`, `AsynAccept`, completions | memory of an operation lives until it is complete; streams go on |
| `Observer.h`, `Single.h`, `client/` | - | - | helpers; `Observer.h` is used nowhere |

**How they interact.**  Handlers call back into the centre that runs them while
it holds its recursive mutex.  Other threads call the same functions and compete
for that mutex, but `Poller::Launch` and `Timer::Launch` run without it.  A
`Connecter` turns `WriteBuffer` into a change of its interest in epoll
(`EnableEvent`, `UpdateEvent`, `EPOLL_CTL_MOD`), which reports the descriptor
again when it can be written.  `EventCentrePool`
pushes one `Work` task per thread to its `ThreadPool`; each constructs a centre
on its stack and stays in `EventLoop` until `Stop` calls `Exit`.  `DBPool` does
the same with connections.  The poller and the timer own registered events
(shared pointers in their maps); the active and waiting lists and the callers
hold raw pointers, the timer heap weak ones.

**What is hard.**  Cancellation while an event already stands in a list;
edge-triggered readiness, reported once; the loop asleep while another thread
changes what it should wait for; timers deleted while the heap still refers to
them; condition variables signalled before anyone waits; `Stop` racing `Start`.
There is no test in the repository, and none of these is easy to provoke in one.
The list with source lines is `hazards` in `PROJECT.json`.

## 2. Modules

| Module | Models | Uses |
|---|---|---|
| `EventCentre` | one centre on epoll with its poller, timers (unordered), events and calling threads | - |
| `EventLife` | what a centre promises about the life of an event (abstract) | - |
| `ThreadPool` | worker threads, mutex, condition variable, `Run`, `Stop`, `PushTask`, the destructor | - |
| `EventCentrePool` | pools of centres, their start, stop and registrations | what `ThreadPool` and `EventCentre` show, restated as actions |
| `TimerHeap` | the heap of weak pointers of one `Timer`, and `Timer::Launch` | - |
| `TimerIds` | the bitmap `s_ids` of timer ids with the count `s_curTimers` | - |
| `Buffer` | the ring of nodes, as functions on records | - |
| `Connecter` | one connection with two buffers, the socket, the peer and three applications | `Buffer` |
| `GameServer` | the listener, the accepting thread, the main loop, `m_clients` and reused descriptors | what `EventCentre` and `Connecter` show, restated as actions |
| `DBPool` | connections that take requests from a queue, with `Start`, `Stop`, `Query`, `Recover` and the destructor | what `ThreadPool` shows, restated as actions |
| `DBService` | what `Query` promises (abstract) | - |
| `Aoi` | the scene, its grids and the notices of `Enter`, `Leave`, `Move` | - |
| `MineSweeper` | the map, the drawing of mines, clicks and the flood | - |
| `Logger` | log files by day and size, writing threads | - |
| `Iocp` | a `Connecter` of the Windows build with its overlapped operations | - |
| `IocpAccept` | a `Listener` of the Windows build with its array of `AcceptEx` operations | - |
| `EventCentre_proofs`, `EventCentrePool_proofs`, `ThreadPool_proofs`, `DBPool_proofs`, `GameServer_proofs` | theorems | the module before the underscore |
| `Connecter_proofs` | theorems about `Connecter`, lemmas about `Buffer` | `Connecter` |
| `Iocp_proofs` | theorems about `Iocp` and `IocpAccept` | `MCIocp` |
| `Sequential_proofs` | theorems about `TimerIds`, `TimerHeap`, `Logger`, `Aoi` and `MineSweeper` | `MCSequential` |
| `MC*` | instances for TLC: who uses what, names of model values | the module after MC |
| `MCSequential`, `MCIocp` | several components that do not interact, in one run | see section 3 |

Definitions keep the names of the code; `map` in `PROJECT.json` gives the lines
of each.  A definition whose name ends in `_Something` and whose comment says
"Mutant" is a plausible bug of the definition before or after it; it is used in
no specification and shows that a property can fail.  A `TypeOK` documents the
states of a module; it is proved, by itself or as part of an invariant, for all
modules (`Buffer` has no state, only the sets `Buffers` and `Rings`).

**EventCentre.**  `pc` is the place of the loop thread in `EventLoop` and
`ProcessActiveEvent`, `lock` the owner of the recursive `m_mutex`, `active` and
`waiting` are the two lists of raw pointers, `curEv` the queue `m_curEv` of each
event, `centre` says that `m_pCentre` is set, `netEvents` and `timerMap` are the
owning maps, `heap` counts the weak pointers to a timer, `held` is what the
application owns, `ready` the edges epoll has not reported yet, `batch` what it
reported and the loop has not queued yet.  A call of another thread takes the
lock in its first step and gives it back in its last (`RegisterCall`,
`RegisterAdd`, `RegisterDone`; `CancelPush`, `CancelClear`), a call made by a
handler nests in the loop's own lock.  `PollReturns`, `PushActiveEvent`,
`TimerLaunch` and `FireTimer` run without it, as in the code.  `m_curEv` holds
two kinds, `"R"` for whatever the poller reported and `"C"` for `EV_CANCEL`,
because only the difference between these two is ever tested.  An event that is
deleted and not held is destroyed; a list entry of a destroyed event leads to
`pc = "ub"`.

**EventLife** has an event outside, inside or closing, one busy handler and a
count.  `EventCentre` defines the mapping (`AbstractLife`, `AbstractBusy`) and
the run `event_centre_io` checks that every step of the centre is a step of
`EventLife` or leaves it unchanged.

**ThreadPool.**  A worker goes `top`, `lock`, `check`, `wait`, `recheck`, `run`,
where `waiting` is the condition variable's queue; `Spurious` lets a wait return
for no reason.  `m_running` is read and written outside the mutex where the code
does so: `PushCheck` and `PushTask` are two steps, and so are the parts of `Run`
and `Stop`.  Each thread is joined by a step that blocks.  The owner may destroy
the pool when nobody is inside a call from outside (`DestroyCall`); the
destructor, with those of the threads, joins all of them but tells none to end.

**EventCentrePool.**  The owner pushes one Work at a time, so that Works may be
done before `Start` goes on; a Work builds its centre, adds it under the mutex,
counts in the static `worked`, announces and enters its loop.  The thread pool
is a queue that free threads take from, and its `Stop` waits for the busy ones:
this is what `QueuedIsExecuted`, `ExactlyOnePlace` and `StopReturnsEventually`
show of `ThreadPool`.  A centre is its `m_running` and `m_eventsNum`.

**TimerHeap.**  A heap entry is the timer it points to, expired when the timer
is in `dead`.  `ShiftUp`, `ShiftDown` and the comparison follow `MinHeap.h`,
including that an expired entry is neither before nor behind any other.
The shifts are functions of the place of the node that is put in.  `Launch` is one
step per popped entry.  `IntMax` is the largest `int`.

**TimerIds.**  Ids are taken by the constructor of a timer and given back by its
destructor, while the test whether the bitmap must grow counts timers added to
centres: the two numbers drift.  `ReleaseTimerID` finds the byte by division of
the id and not of the id less one, so that releasing an id divisible by the
bits of a byte clears nothing it should; `skewed` remembers that it happened.
`s_curTimers` is unsigned: `Unregister` takes it from 0 to `UIntSize - 1`, which a
kept timer that is deleted twice brings about.

**Connecter and Buffer.**  The loop thread goes from `wait` (in `epoll_wait`)
through `handle`, `readv`, `readcb`, `reply` and `write`; the peer's bytes, its
close and its reading fall between any two of these.  `pending` is the ready
list of epoll: an edge puts the connection there, and so does `EPOLL_CTL_MOD`
when what it asks for is there (`Modify`).  Bytes are numbered, and a `Buffer` is a record of nodes with
the two iterators as positions, so that the code's own arithmetic decides which
byte comes out.  A loop of `Buffer.cpp` is a function that calls itself on the result
of one turn (`FillTurn`, `AdvanceTurn`, `ReadTurn`, `PeekTurn`, `AreaTurn`) and is
defined on well-formed buffers; TLC stops when one is applied to anything else, so
that a node cannot overflow unnoticed.  The applications are the server's echo, the client that writes once, and a third
that also calls `Connecter::Send`, which no program of the repository does.
The client leaves its socket blocking; the model has it non-blocking, as the
server's are.

**GameServer.**  Thread `L` is a loop of the `EventCentrePool` that accepts: one
step each for `accept4`, for `epoll_ctl` under the mutex, for `SetCenter` behind
it, for the search in `m_clients` and the insertion.  The main thread `M` polls
without the mutex and drops what has no centre (yet), then handles its batch
under the mutex, cancellations first.  A descriptor is the lowest free one and
is free again when the last pointer to its connection goes, which is either
`m_events` of the poller or `newconn` of `ListenCb`.  `m_clients` has no lock:
while `L` inserts, a use by `M` may come to anything (`Race`), and `ub` names the
connection whose callback used an iterator that `find` did not give.

**DBPool.**  A Work connects, adds itself to `m_LiveConnNum`, then tests
`m_started`, takes the mutex, and either pings or takes a request; it is
answered after the mutex is let go.  `Start` sets `m_started` after it pushed the
Works, the destructor stops the thread pool without clearing it.  `CondWait` with
`DB_PING_TIMEMS` returns at once on this build, because a relative time is used
as an absolute one; connections therefore never sleep.  A driver whose `Connect`
reports success as 0 (`mysql`) never comes up.  `Service` maps the queue and the
connections' requests to `DBService`.

**Aoi, MineSweeper, Logger.**  These follow the arithmetic of the code: which
grids `FindAroundGrids` gives (of each axis the grid and the one before it),
which entries of the array `CreateMap` draws from, when a file is full and when a
day has changed (local day of the name, UTC day of the comparison).

**Iocp, IocpAccept.**  A completion runs on a worker thread under the mutex of
the centre, the loop's handlers under the same mutex; what is not under it is
the client's main thread, which connects and writes before it enters the loop.
`RegisterCallback` and `EnableEvent` post nothing while `m_connected` is false
(`connected`), and an accepted connecter never sets it: its constructor asks
`getpeername` with a length of 0.  The server of this build therefore reads and
writes nothing (`RegisterAccepted`).  So that receives and sends are also seen
without the client's races, `side = "relay"` is a third program, which is not in
the repository: it connects in a handler, echoes what it reads and gives its
connecter away.  Of the calls of `AsynAccept` each may fail, `AcceptComplete`'s
`setsockopt` included, which loses the slot without a word.
An OVERLAPPED is owned, doomed (its owner is gone, the operation is not) or
freed.  Workers may run between the entries of one round of the loop: the model
allows more orders than the mutex does.  `Launch` waits on a condition variable
that the model leaves out, as any waiting entry may be handled at any time.

## 3. Runs

Each run gives every constant a value and checks the properties in the third
column.  `MCSequential` and `MCIocp` put components that never meet into one run:
a variable `part`, chosen at the start, says whose behaviour this is, and the
others keep their initial values.

| Run | Instance | Checks |
|---|---|---|
| `event_centre_io` | two descriptors, a one-shot timer, one client thread, cancels and updates by handlers and the client, `Exit` | `NoDangling`: no list entry outlives its event; `CountExact`: `m_eventsNum`; `EntryPerKind`: every entry has its kind in `m_curEv`; `ImplementsLife` |
| `event_centre_live` | a descriptor that handlers and a client cancel and the client updates, a loop timer that the client may add and handlers suspend and cancel, `Exit` by the client | `DueTimerFires`, `CancelTakesEffect`, `EdgeIsHandled`, `ExitStopsLoop` |
| `event_centre_any` | any registration, cancellation from any thread, dropped and reused events | `NoMissedWakeUp` |
| `event_centre_lost_cancel` (violation) | two descriptors, a handler cancels the other | `EveryCancelDeletes` fails |
| `thread_pool` | three workers, two tasks, `Run`, `Stop`, `Run`, `Stop`, the destructor at any time, spurious wake-ups | `QueueNotEmptyAtTake` (the assertion of `PoolWorkFunc`), `NoneSleepsWrongly`, `ExactlyOnePlace`, `StopReturnsEventually`, `QueuedIsExecuted` |
| `centre_pool` | one pool of two threads, with and without a callback, stop, destruction, two registering threads, three registrations | `AnnouncedMeansAll`, `Balanced`, `DestroyHangsOnMissedExit`, `StartAnswered` |
| `connecter` | nodes of 2 bytes, 2 areas, 6 bytes, send buffer of 2 | `BytesInOrder`, `EverythingSent`, `CloseNoticed` |
| `connecter_order` (violation) | 3 bytes | `SentInOrder` fails: a write that spans two nodes is corrupted |
| `sequential` | heap: four timers, one with a timeout above the largest `int`; ids: five timers, bytes of two bits; scene: two entities, grids of 2 in 6 x 3; map 3 x 2; log: two threads, days of two ticks, three lines fill a file | `EntryKept`, `TimeoutRight`, `LaunchInOrder`, `IdsUnique`, `KnowsWhoIsAround`, `FloodComplete`, `WinsWithLastPoint`, `LogFilesRight` |
| `db_pool` | two connections, two requests, both drivers, two starts, one `Recover` | `ImplementsService`, `QueryAnswered`, `RecoverRestores`, `DestroyHangsOnConnection` |
| `game_server` | two connections, one or two descriptors, one message each | `ClientsMatch`, `BrokenOnlyBy`, `StrandedOnlyIfFull`, `ServedUnlessMissed` |
| `iocp` | a connecter of the server, the client or the relay (at most 3 bytes in, 2 written by the client, 1 for each send), or a listener with three slots, four arrivals and one failure | `OperationsTracked`, `StreamsMoveOn`, `KeepsAccepting` |

**What the newer ones say.**
- `AnnouncedMeansAll`: when `m_started` is set or the callback has run, every
  thread has its centre in `m_centres`, and the callback runs once.
- `IdsUnique`: living timers have different ids until an id divisible by the
  bits of a byte has been released (a timer without id, which a full bitmap
  gives, is not counted).
- `KnowsWhoIsAround`: an entity that stands still was told of all who have come
  since into the grids around it, an entity stands in the grid of its location,
  and only a location in the last grids of a scene leads out of `m_grids`.
- `FloodComplete`: on the first map, an opened point without mines around it has
  all its neighbours opened or flagged, and no mine is ever opened by a flood.  `WinsWithLastPoint`: a click wins exactly if nothing but mines
  is left.
- `LogFilesRight`: no line goes into a file of an earlier day than its own,
  and a file grows at most by one line beyond `MAX_SIZE`.
- `ImplementsService`: requests are taken up in turn, by one connection each,
  and answered at most once, whatever is started, stopped or recovered meanwhile.
- `RecoverRestores`, `DestroyHangsOnConnection`: `Recover` reaches the number of
  connections unless one is just leaving, and the destructor hangs only on a
  connection that is up; both name exactly when the code fails.
- `ClientsMatch`: through every reuse of descriptors, a served connection has its
  client, and a client has a connection unless `ListenCb` entered it after the
  main thread had ended that connection.  `BrokenOnlyBy`: the callbacks miss
  their client only after a read part that has cancelled the event in the same
  `Handle`, or while `ListenCb` runs.
- `StrandedOnlyIfFull`: a connection is left in the backlog without an edge only
  after an `accept` that failed.  `ServedUnlessMissed`: what a peer sends is read
  and its close is noticed, unless an event came between `epoll_ctl` and
  `SetCenter` and was dropped.
- `OperationsTracked`: every OVERLAPPED that Windows holds is accounted for and not
  freed, unless an `AcceptEx` has completed at once.  `StreamsMoveOn`: what is
  written is sent, and what arrives at a connecter that counts as connected is
  read, unless a completion overtook the flag of its operation; of the server's
  connecter it says nothing, as that one never counts as connected.
  `KeepsAccepting`: connections are accepted while slots are left.
- `CancelTakesEffect`: an `EV_CANCEL` at the front of `m_curEv` deletes its event,
  always if a handler pushed it, and if another thread did unless the loop is in
  `epoll_wait` without a timeout (`SleepsOver`), which `PushEvent` does not end.
  `EdgeIsHandled`: an edge that arrived, or that `UpdateEvent` of another thread
  renewed, is handled although epoll reports it once.

**Bounds.**  `MaxCur` (2 or 3) bounds how many kinds stand in one `m_curEv`
before another call pushes; three are needed for a cancellation behind a
reported kind behind another, and the interesting orders need two.  `MaxRegs`
bounds re-registration: the second life of an event is where stale state shows.
`MaxRuns = 2` is the first restart.  Three workers are the least number with one
working, one woken and one asleep.  Two centres and two registering threads are
the least for a wrong choice of centre.  `MaxTime = 3` lets the loop timers of
periods 1 and 2 meet and part; four entries make a heap of three levels, the
least in which `ShiftUp` and `ShiftDown` pass two levels, and `IntMax = 7`
makes 9 what 2^31 + 1 is to `int`.  `Byte2Bit = 2` with five timers fills two bytes
and asks for a third, and releases in the first and the last bit of a byte;
`UIntSize = 12` is more than the bits of those bytes, and is passed both ways.
With `Cap = 2` a node can be empty, half full, full and half read; six bytes
are more than the four that `MaxIov` nodes take, so a read is cut short and a
buffer grows to four nodes; `Space = 2` is a send buffer smaller than a write.
One descriptor for two connections is the least at which one is reused and an
accept fails; two let a late insertion meet another connection.  Two connections
and two requests in `DBPool` let one be busy at the broadcast and the other on its
way out.  A scene of 6 x 3 with grids of 2 has a remainder in one direction and none
in the other; a map of 3 x 2 with up to two mines has floods that stop and floods
that win.  `Day = 2`, `Offset = 1` has a local midnight within a UTC day, and `MaxSize
= 3` with lines of 1 and 2 fills a file exactly and beyond.  Three slots are one more than
fail or complete out of turn; that failures use up all slots, which ends the
accepting, is the exception `KeepsAccepting` names and is not reached.

**Deadlock** is not checked: a loop that has ended, a pool that was stopped, a
peer that is silent and a clock at its bound are proper ends.

**Fairness.**  Threads are scheduled: the loop thread and every call that was
begun go on (weak fairness of their steps).  Acquiring a mutex is strongly fair
where other threads may take it again and again (`Acquire`, `AddCentre`, `Locks` of
`DBPool`, `LAdd` and `MLock` of `GameServer`), which is what the kernel's
futex queue gives.  A task ends if it is one of `ThreadPool`'s; a handler ends; a
database call returns.  In `EventCentre` time passes for every timer that was
added.  In `Iocp` Windows completes what it was given, and workers take packets.
Nothing is asked of the application (it need not stop, exit or destroy
anything), of spurious wake-ups, of peers, or of the network.  `EverythingSent` states its
own condition: a peer that keeps reading.

## 4. What the code disagrees with

Two statements are refuted by runs of their own (`findings` in `PROJECT.json`
quotes them).  `EV_CANCEL` is not always handled first (`common/net/Event.cpp:283`):
behind another kind it is skipped for ever; `CancelTakesEffect` is what holds, for
an `EV_CANCEL` that reached the front, as long as the loop does not sleep over it.  And `Buffer::WriteBuffer` repeats the start
of a write that spans nodes (`common/net/Buffer.cpp:197`); `BytesInOrder` is what
holds: as long as every write fits behind the last bytes of a node that
nothing was read of yet, and the socket never answers `EAGAIN`, the bytes leave
complete and in order, and what is read arrives in order in any case.

Others are written into the condition of a property that passes:

| Where | What is said, and what happens | Seen in |
|---|---|---|
| `common/thread/ThreadPool.cpp:113` | `assert(!m_tq.empty())`: fails when one thread stops a pool and another runs it again; holds with one controller | `QueueNotEmptyAtTake`, theorem `AssertionHolds` |
| `common/thread/ThreadPool.cpp:30` | the destructor of a running pool joins threads that nobody told to end | `StopReturnsEventually` |
| `common/net/Event.cpp:511`, `Event.h:274` | blocking `Start` returns when the threads have started: it may miss the signal and never return | `StartAnswered` |
| `common/net/Timer.h:18`, `:52` | the heap is ordered by time: an expired entry hides those behind it and the loop sleeps past a timer | `TimeoutRight` (stated for no expired entries) |
| `common/net/Event.cpp:446` | `PushEvent` broadcasts `m_waittintEvsCond`, on which nothing waits in the epoll build: what another thread's `CancelEvent` pushes waits for the next wake-up of the loop, which may never come | `CancelTakesEffect` |
| `common/net/Event.cpp:1261` | `m_peeraddr` is to tell whether the connecter is connected: `getpeername` with a length of 0 (1025) leaves it unset, and the server of the Windows build posts no receive and no send | `StreamsMoveOn` |
| `common/net/Event.cpp` 908-912 | an `AcceptEx` that succeeds at once is completed by the caller and by its packet | `OperationsTracked` |
| `servers/gamesvr/main.cpp:175` | the write callback uses a client that the error callback has erased | `BrokenOnlyBy` |
| `servers/gamesvr/aoi/AOIManager.cpp:154` | "27 grids" around one: the loops give at most 8, the grid and the one before it of each axis | `KnowsWhoIsAround` |
| `servers/gamesvr/aoi/AOIManager.cpp:96` | speaks of an intersection: the code takes `set_union` | module `Aoi` |
| `servers/gamesvr/mine_sweeper/MineSweeperMgr.cpp:84` | the place of a drawn mine is filled from one past the entries left, at the first draw one past the array | `WinsWithLastPoint` |
| `common/log/Logger.cpp:107` | a new file for a new day: the day that is compared is UTC, that of the name local | `LogFilesRight` |
| `common/db/DBPool.h`, `DB_PING_MAX` | pings are counted: the counter is declared inside the loop | module `DBPool` |
| `common/db/DBPool.cpp:95` | a `Connect` of redis that fails reads `DBName[2]` of an array of two (`DBPool.h:18`) | not modelled: `Work` returns |
| `common/db/dbmysql/DBMsql.cpp:35` | success is returned as 0, which the caller takes for failure | `QueryAnswered` (true of no connection) |

## 5. Proofs

The theorems hold for every value of the constants that the named assumptions
(`ConstantsAssumption`, `PoolAssumption`, `PoolsAssumption`, `DBAssumption`,
`IdsAssumption`, `ServerAssumption`, `BufferAssumption`, `SizesAssumption`, and
those of `MCIocp` and `MCSequential`) allow: any number of events, threads, workers,
tasks, requests, timers,
connections, descriptors, entities and mines, any sizes, and any use of them
unless a hypothesis is named.  TLC finds every inductive invariant below true in
the instances of the runs that meet its hypotheses.

Induction over data goes by least counterexample: the lemma `Smallest`
gives the least element of a set of naturals, here the set of ranks at which a
statement fails.  `ShiftExists`, `CallsEnd` and `LoopExists` show that a function
that calls itself exists, which TLA+ does not grant; the first two at arguments of
lower rank, the last for any loop, ending or not.

`EventCentre_proofs`
- `TypeCorrect`: `TypeOK`.  Strengthened to `TypeInv`, which also says that a
  handler runs for an entry of the list and that a call is about an event.
- `MutualExclusion`: `MutexHeld`.  It is not inductive alone: a call that a
  handler makes nests in the loop's lock, and nothing says that the call ends
  before the loop goes on and releases it.  `LockInv` adds that.
- `WakeUpNotMissed`: `NoMissedWakeUp`, from `WakeInv`: the eventfd event stays
  registered and is never cancelled (`WakeStays`); from the loop's test of
  `m_running` to its poll, a cleared `m_running` means that the eventfd is
  readable or the thread in `Exit` is about to write it (`ExitSeen`); and a
  poll without a timeout that meets a timer in the heap has the eventfd to end
  it (`TimerSeen`).
- `NothingDangles` (`NoDangling`), `OneEntryPerKind` (`EntryPerKind`), `EventsCounted`
  (`CountExact`) and `CentreImplementsLife` (`ImplementsLife`) hold for a use of
  the centre that they name.  `HandlersCancel`: timers are not cancelled, IO
  events only by handlers, and a deleted event is not registered again.  The
  server and the client of the repository use it so
  (`servers/gamesvr/main.cpp:147` and `:202`, `client/main.cpp:74` and `:110`).
  `LoopsSuspended`, for the count: only loop timers are suspended.  Without them
  the code breaks the properties: another thread's `CancelEvent` races
  `PushActiveEvent`, which reads `m_pCentre` without the mutex; an event
  registered again meets the `EV_CANCEL` of its first life; a kept timer that
  is cancelled fires again; a suspended one-shot timer is thrown away without a
  count.  The argument is `LifeInv`: an
  attached event has one list entry for each kind in `m_curEv` and a detached one
  at most that many (`ListsInv`); `EV_CANCEL` is the last kind an event ever gets
  (`CancelInv`); an event is registered once, by one thread, and untouched before
  (`RegsInv`); a timer is in the heap or in the list, never in both unless it
  repeats (`TimerInv`).  `EventsCounted` adds `CountInv`, and the refinement is
  proved action by action from `LifeInv`.

`EventCentrePool_proofs`
- `TypeCorrect`: `TypeOK`, for any number of pools.
- `AnnouncedComplete` (`AnnouncedMeansAll`) for a program with one pool, because
  `Work` counts in one static counter for all: until the pool is stopped that
  counter is the number of workers past it, `m_centres` holds those past
  `AddCentre`, and only the last one announces (`PoolInv`).
- `RegisterBalances` (`Balanced`) for one pool, from `LoadInv`: counting what is
  chosen and not yet added, no centre is ahead of another by more than the
  registering threads, and the best of a scan stays within that of those it has
  passed though the others add theirs meanwhile.

`ThreadPool_proofs`
- `TypeCorrect`: `TypeOK`.
- `StopWakesEveryone` and `SignalPerTaskSuffices`, together `SleepersAreRight`
  (`NoneSleepsWrongly`), from `SleepInv`: a worker between its test
  and its wait holds the mutex, so a broadcast cannot fall in between; and the
  workers on their way to the queue are at least as many as the tasks in it, or
  nobody sleeps.  The second needs lemmas on how that set of workers grows and
  shrinks by one (`ComingGrows`, `ComingPlus`, `ComingMinus`).
- `TasksHaveOnePlace` (`ExactlyOnePlace`), from `PlaceInv`: pushers, queue,
  workers and the executed tasks share no task, and the queue has none twice;
  `AppendPlaces` and `TailPlaces` say what a push and a pop do to that.
- `AssertionHolds` (`QueueNotEmptyAtTake`) and `StopWaitsForAll`
  (`StopMeansExited`) under `OneController`, from `OwnerInv`, which follows the
  owner through `Run`, `Stop` and the destructor.

`DBPool_proofs`
- `RequestsHaveOnePlace`: a request is in the queue once, with one connection, or
  answered.  `IInv` adds that a connection has a request only between taking and
  answering it, and that no thread of the pool works before `Start`.
- `Implements`: `Spec => ImplementsService`, from that invariant: `Query` maps to
  `Ask`, the pop to `TakeUp`, the callback to `Answer`, every other step to a
  stutter.
- `LiveIsCounted`: `m_LiveConnNum` is the number of `Work`s between their count up
  and their count down; with it `TypeCorrect` (`TypeOK`).  Both are `LiveInv`:
  `Start` begins threads only where there are none, each `Work` counts itself once up
  and once down, and so `Recover` never misses a negative number of connections.

`GameServer_proofs`
- `NoneStranded` (`StrandedOnlyIfFull`), inductive as it stands.
- `ClientsAreRight` (`ClientsMatch`), from `MapInv`: open connections have
  different descriptors and `m_events` points back (`Descriptors`); where `L` is
  with its connection says whether `m_events` and the centre have it
  (`Accepting`); and a connection that is served, cancelled or about to be handled is in
  `m_events`, and is never served and cancelled at once (`Dealt`).  Without the
  last, a reused descriptor could take the client of another connection.
- `CallbacksFindTheirClient` (`BrokenOnlyBy`), from `MapInv`.
- `TypeCorrect` (`TypeOK`), from `MapInv`, which has the types of what the three above
  need, and `RestTypeOK`, which has the others.

`Connecter_proofs`
- `BytesStayInOrder` (`BytesInOrder`) and `TypeCorrect` (`TypeOK`), from `CInv`.
  `BytesInOrder` is not inductive: that the right bytes would come out now says
  nothing of where the next ones go.  `Holds(b, s, k, o)` does: going round the
  ring from the reader, the first `k` nodes hold the sequence `s` cut at the marks
  `o`, none is empty, only the first has a cursor beyond its start, and all other
  nodes are clear.  `CInv` says that the read buffer holds what was read and is
  not yet given to the callback, and is blank everywhere else (`Received`); that
  it has the room `readv` is about to be asked for (`SpaceReady`); and that, unless a
  write went astray, the write buffer holds what was written and is not sent, its
  last node with bytes being the one that is written (`Queue`, `Unsent`).
- The lemmas say what `Buffer` does for any size of a node.  `LoopExists` and
  `LoopKeeps`: a loop is a function, and if its body keeps a set of states and
  lowers a rank it ends in that set.  `ReserveOK`, `WriteOK` and `ReadOK`:
  `m_useSize` stays the number of used cells, so that the loops of `Buffer.cpp`
  end: while bytes are to be read some node has bytes, and while there is room
  some node has room.  `ReserveHolds`, `WriteHolds`, `MoveWriteHolds`,
  `PeekHolds` and `MoveReadHolds`: what each does to the sequence that is held.
  `WriteHolds` needs that the write fits in its node (`InPlace`): without it the
  code breaks the order, which is the second finding of section 4.

`Iocp_proofs`
- `OperationsAccounted` (`OperationsTracked`) and `ConnecterTypes` (`TypeOK`).
  For the connecter `ConnecterInv`: what a send took is in the write buffer and
  an entry has its kind in `m_curEv` (`Sound`), only the client has a thread that
  posts without the mutex and its connecter is not destroyed, and before it is
  registered a connecter has nothing out (`Sides`), and between posting and setting the flag an operation is out and
  the flag is not set (`Flags`).  For the listener `SlotsInv`: a slot of the array
  is out or queued, not both and not before it was posted, and what is out is
  counted; it holds as long as no `AcceptEx` has completed at once, which is the
  condition `OperationsTracked` states.

`Sequential_proofs`
- `IdsStayUnique` (`IdsUnique`): as long as nothing was released wrongly the bit of
  every living timer is set, so that the lowest clear bit (`Smallest`, by
  well-founded induction on the naturals) is nobody's.  Bytes may have any width.
- `HeapKeepsEntries` (`EntryKept`) and `LaunchKeepsOrder` (`LaunchInOrder`), from
  `HeapInv`: no timer stands in the heap twice and every timer of `m_timerMap` that
  is not spent stands there (`EntryInv`); and until a timer dies, no node is before
  its parent (`OrderInv`).  The lemmas below say what `MinHeap` does: a shift
  rearranges the nodes and loses none (`ShiftRearranges`), one up or down mends an
  order that is broken at one place (`UpOrders`, `DownOrders`), so that `Push`,
  `Pop` and a repeated `Pop` and `Push` keep it (`PushOrdered`, `PopOrdered`,
  `RepushOrdered`) and the root is first (`RootFirst`).
- `LoopWakes`: `TimeoutRight` as long as no entry is overdue by more than
  `INT_MAX + 1` (`NotLongOverdue`).  The hypothesis is a limit of the code:
  `GetNextTimeout` takes the 64 bit difference as an `int`, and a time long past
  becomes one to come.  `INT_MAX` milliseconds are 24 days; the run cannot reach it.
- `LogStaysRight` (`LogFilesRight`), from `LogInv`: the open file is of the day of
  the last line or a later one and as long as `m_curSize` says.
- `SceneKnows` (`KnowsWhoIsAround`), from `SceneInv`: where an entity stands, its
  grid is in `m_grids`.  `GridsByCeil` relates the grids of a location to its
  coordinates, and `Enter`, `Leave` and `Move` change what an entity knows by who is in the
  grids they tell.
- `FloodStaysComplete` (`FloodComplete`) and `WinsRight` (`WinsWithLastPoint`), from
  `SweepInv`: mines are marked, and on the first map a point without number has
  no mine around it.  `OpenPointFloods` says what the recursion of `OpenPoint` opens:
  each call opens a point or is one call less (`CallStep`), so it ends, and whatever is to be
  opened beside an open point is called (`Fair`).  The number of open points then
  decides the win because it counts a subset of the points without mine.

Left to TLC:
- everything under fairness, and with it every liveness property: the prover has
  no rule for `ENABLED`;
- the two disagreements of section 4, which are counterexamples.

## 6. What is not modelled

Data races of the framework (`m_activeEvs` and the timer heap are touched
without the mutex by `Launch`, `m_startedCb` and `m_pCentre` by several threads)
are reduced to the orders in which whole reads and writes can happen; that of
`m_clients` ends the behaviour with anything.  A second `EventLoop` of the same
centre, the registration callback on epoll, a second `Start` of a pool of
centres, socket errors other than `EAGAIN`, `EMFILE` and the end of stream, an
`epoll_ctl` (`Poller.cpp:44`) or a `pthread_create` that fails are left out.
`PushActiveEvent` is one step from its test of the centre to its push, and its mask
`GetEv() & ev` (`Poller.cpp:103`) is left out: what an `UpdateEvent` disables
after epoll has reported it is dropped by the code and handled in the model, so that
`EdgeIsHandled` is about edges whose interest stays.  The push into the heap and the `WakeUp` of `AddTimer` are one step too.  A `Connect` of
redis that fails makes `Work` return, though it reads past `DBName` on its way.  A kept timer
that is cancelled and fires all the same leads to a second `DeleteEvent`; the
runs keep descriptors there, and the hazard is listed.  Of the Windows build
`ConnectComplete` and the start and end of the worker threads are left out.  The
database drivers are the success of their `Connect`; the client program is what
its callbacks do to a `Connecter`; `Select`, `Package` and the helpers have no
model, because no build uses the first and nothing calls the others.
`components` in `PROJECT.json` says so part by part.

## 7. Plan

The order is by weight for the program; the loop, the threads, the pools, timers,
bytes and what is built on them are done.  What is left:

1. `EventCentre`: whether weaker hypotheses than `HandlersCancel` do, such as
   cancels by another thread of an event that is not being queued meanwhile.
2. `EventCentre`: a second `EventLoop` after the first, and the second
   `DeleteEvent` of a kept timer.

Runs are kept few: a component has one run for what holds, and one for a
disagreement only where a comment says otherwise.
