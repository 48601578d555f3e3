CONSTANTS
    Cap = 2
    MaxIov = 2
    MaxSingleRead = 4
    Space = 2
    MaxBytes = 3
    FirstWrites = {1}
SPECIFICATION Spec
INVARIANTS
    SentInOrder
CHECK_DEADLOCK FALSE
