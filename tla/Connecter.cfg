CONSTANTS
    Cap = 2
    MaxIov = 2
    MaxSingleRead = 4
    Space = 2
    MaxBytes = 6
    FirstWrites = {1, 3}
SPECIFICATION Spec
INVARIANTS
    BytesInOrder
PROPERTIES
    EverythingSent
    CloseNoticed
CHECK_DEADLOCK FALSE
