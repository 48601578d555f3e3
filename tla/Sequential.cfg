CONSTANTS
    ta = ta
    tb = tb
    tc = tc
    td = td
    Timers = {ta, tb, tc, td}
    LoopTimers = {ta, tb}
    Kept = {tb}
    Deleted = {ta, tb, tc}
    Suspendable = {tb, td}
    Timeout <- SpreadTimeouts
    IntMax = 7
    MaxTime = 3
    u1 = u1
    u2 = u2
    e1 = e1
    e2 = e2
    l1 = l1
    l2 = l2
    None = None
    Owners = {1, 2, 3, 4, 5}
    Byte2Bit = 2
    InitBytes = 1
    UIntSize = 12
    Entities = {e1, e2}
    SizeX = 6
    SizeZ = 3
    Len0 = 2
    Locations <- SceneLocations
    MaxX = 3
    MaxY = 2
    Mines = {0, 1, 2}
    Beyond <- AnyPoints
    MaxMaps = 1
    Writers = {l1, l2}
    Day = 2
    Offset = 1
    MaxSize = 3
    Lengths = {1, 2}
    LastTick = 4
    MaxFiles = 2
SPECIFICATION SeqSpec
INVARIANTS
    EntryKept
    TimeoutRight
    IdsUnique
    KnowsWhoIsAround
    FloodComplete
    LogFilesRight
PROPERTIES
    LaunchInOrder
    WinsWithLastPoint
CHECK_DEADLOCK FALSE
