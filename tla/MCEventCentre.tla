--------------------------- MODULE MCEventCentre ---------------------------
(* Small instances of EventCentre: who uses which event, and how.          *)
EXTENDS EventCentre

CONSTANTS a, b, t1, t2, c1

\* Two descriptors and a one-shot timer: handlers and a client register, handlers cancel and update.
IoRegisters == {<<Loop, b>>, <<c1, a>>, <<c1, t1>>}
IoCancels   == {<<Loop, a>>, <<Loop, b>>}
IoUpdates   == {<<Loop, a>>, <<Loop, b>>, <<c1, b>>}

\* Two events of the loop thread: a handler cancels the other one.
TwoRegisters == {<<Loop, a>>, <<Loop, b>>}
CancelOther  == {<<Loop, b>>}

\* A client adds a timer while the loop sleeps, handlers suspend and cancel it;
\* a descriptor is cancelled by a handler or by the client, which also updates it.
LiveRegisters == {<<c1, t1>>, <<Loop, a>>}
TimerSuspends == {<<Loop, t1>>}
LiveCancels   == {<<Loop, t1>>, <<Loop, a>>, <<c1, a>>}

\* Any use: handlers and a client register, cancel, update, drop and reuse.
AnyRegisters == {<<Loop, t1>>, <<c1, a>>}
AnyCancels   == {<<Loop, a>>, <<c1, a>>, <<c1, t1>>}
AnyUpdates   == {<<c1, a>>}
=============================================================================
