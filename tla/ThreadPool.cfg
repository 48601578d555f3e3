CONSTANTS
    w1 = w1
    w2 = w2
    w3 = w3
    k1 = k1
    k2 = k2
    p1 = p1
    o1 = o1
    o2 = o2
    None = None
    Owner = o1
    Workers = {w1, w2, w3}
    Controllers = {o1}
    Pushers = {p1, w1}
    Tasks = {k1, k2}
    MaxRuns = 2
SPECIFICATION FairSpec
INVARIANTS
    QueueNotEmptyAtTake
    NoneSleepsWrongly
    ExactlyOnePlace
PROPERTIES
    StopReturnsEventually
    QueuedIsExecuted
CHECK_DEADLOCK FALSE
