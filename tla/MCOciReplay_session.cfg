\* The four slots of the code, two outside changes and two retries.
CONSTANTS
    N = 4
    MaxDrifts = 2
    MaxRetries = 2
SPECIFICATION FairSpec
CHECK_DEADLOCK FALSE
INVARIANTS
    TypeOK
    CustodyIsKept
    NothingLeftOpen
    SuccessIsClean
PROPERTIES
    DriftIsReported
    AlteredIsReported
    EverySessionReturns
