CONSTANTS
    c1 = c1
    c2 = c2
    q1 = q1
    q2 = q2
    None = None
    Conns = {c1, c2}
    Requests = {q1, q2}
    Drivers = {"redis", "mysql"}
    MaxStarts = 2
    MaxRecovers = 1
SPECIFICATION FairSpec
PROPERTIES
    ImplementsService
    QueryAnswered
    RecoverRestores
    DestroyHangsOnConnection
CHECK_DEADLOCK FALSE
