CONSTANTS
    c1 = c1
    c2 = c2
    None = None
    Conns = {c1, c2}
    Limits = {1, 2}
    MaxSends = 1
SPECIFICATION FairSpec
INVARIANTS
    ClientsMatch
    BrokenOnlyBy
    StrandedOnlyIfFull
PROPERTIES
    ServedUnlessMissed
CHECK_DEADLOCK FALSE
