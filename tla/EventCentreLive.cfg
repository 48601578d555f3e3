CONSTANTS
    a = a
    b = b
    t1 = t1
    t2 = t2
    c1 = c1
    Wake = Wake
    Loop = Loop
    None = None
    Io = {a}
    Timers = {t1}
    LoopTimers = {t1}
    Kept = {a}
    Reused = {}
    Clients = {c1}
    Registers <- LiveRegisters
    Cancels <- LiveCancels
    Updates <- AnyUpdates
    Suspends <- TimerSuspends
    Exiters = {c1}
    MaxCur = 2
    MaxRegs = 1
SPECIFICATION FairSpec
PROPERTIES
    DueTimerFires
    CancelTakesEffect
    EdgeIsHandled
    ExitStopsLoop
CHECK_DEADLOCK FALSE
