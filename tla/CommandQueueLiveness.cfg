SPECIFICATION FairSpec
CONSTANTS
    r1 = r1
    r2 = r2
    r3 = r3
    k1 = k1
    k2 = k2
    Request = {r1, r2}
    Closer = {k1, k2}
    None = None
    Coalescing = {TRUE}
INVARIANT CloseJoins
PROPERTIES
    EveryCallerReturns
    EveryCloseReturns
CHECK_DEADLOCK FALSE
