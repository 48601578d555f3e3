CONSTANTS
    MaxSingleWrite = 1
    WriteSize = 2
    MaxArrived = 3
    Slots = 3
    MaxArriving = 4
    MaxFailures = 1
SPECIFICATION IoSpec
INVARIANTS
    OperationsTracked
PROPERTIES
    StreamsMoveOn
    KeepsAccepting
CHECK_DEADLOCK FALSE
