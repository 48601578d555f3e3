CONSTANTS
    a = a
    b = b
    t1 = t1
    t2 = t2
    c1 = c1
    Wake = Wake
    Loop = Loop
    None = None
    Io = {a, b}
    Timers = {}
    LoopTimers = {}
    Kept = {b}
    Reused = {}
    Clients = {}
    Registers <- TwoRegisters
    Cancels <- CancelOther
    Updates = {}
    Suspends = {}
    Exiters = {}
    MaxCur = 3
    MaxRegs = 1
SPECIFICATION FairSpec
PROPERTIES
    EveryCancelDeletes
CHECK_DEADLOCK FALSE
