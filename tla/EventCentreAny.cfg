CONSTANTS
    a = a
    b = b
    t1 = t1
    t2 = t2
    c1 = c1
    Wake = Wake
    Loop = Loop
    None = None
    Io = {a}
    Timers = {t1}
    LoopTimers = {}
    Kept = {a, t1}
    Reused = {a}
    Clients = {c1}
    Registers <- AnyRegisters
    Cancels <- AnyCancels
    Updates <- AnyUpdates
    Suspends <- TimerSuspends
    Exiters = {c1}
    MaxCur = 2
    MaxRegs = 2
SPECIFICATION Spec
INVARIANTS
    NoMissedWakeUp
CHECK_DEADLOCK FALSE
