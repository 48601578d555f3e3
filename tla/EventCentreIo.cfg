CONSTANTS
    a = a
    b = b
    t1 = t1
    t2 = t2
    c1 = c1
    Wake = Wake
    Loop = Loop
    None = None
    Io = {a, b}
    Timers = {t1}
    LoopTimers = {}
    Kept = {b}
    Reused = {}
    Clients = {c1}
    Registers <- IoRegisters
    Cancels <- IoCancels
    Updates <- IoUpdates
    Suspends = {}
    Exiters = {c1}
    MaxCur = 3
    MaxRegs = 1
SPECIFICATION Spec
INVARIANTS
    NoDangling
    CountExact
    EntryPerKind
PROPERTIES
    ImplementsLife
CHECK_DEADLOCK FALSE
