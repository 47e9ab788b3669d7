\* A file of two blocks, calls of the three kinds, two interventions.
CONSTANTS
    a = a
    b = b
    Block <- MCBlock
    Captured <- MCCaptured
    MaxLength = 3
    MaxMeddles = 2
SPECIFICATION Spec
CHECK_DEADLOCK FALSE
INVARIANTS
    TypeOK
    DeliveredIsAuthentic
    FailClosed
    NoFailureIsLost
