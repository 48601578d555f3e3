CONSTANTS
    p1 = p1
    r1 = r1
    r2 = r2
    None = None
    Pools = {p1}
    N = 2
    CbPools = {p1}
    Stopping = {p1}
    Registrars = {r1, r2}
    MaxEvents = 3
SPECIFICATION FairSpec
INVARIANTS
    AnnouncedMeansAll
    Balanced
PROPERTIES
    DestroyHangsOnMissedExit
    StartAnswered
CHECK_DEADLOCK FALSE
