\* A replay whose second stream fails after its parser returned Ok.
CONSTANTS
    a = a
    b = b
    Block <- MCBlock
    Captured <- MCCaptured
    MaxLength = 3
    MaxMeddles = 2
SPECIFICATION Spec
CHECK_DEADLOCK FALSE
INVARIANT
    OwnedIsClosed
