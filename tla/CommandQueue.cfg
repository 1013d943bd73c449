SPECIFICATION Spec
CONSTANTS
    r1 = r1
    r2 = r2
    r3 = r3
    k1 = k1
    k2 = k2
    Request = {r1, r2, r3}
    Closer = {k1}
    None = None
    Coalescing = {TRUE, FALSE}
SYMMETRY Symmetry
INVARIANTS
    SerialExecution
    AnsweredByOwnOrNewer
    OnlyOwnInterruption
    CancelJoins
PROPERTY
    InOrder
CHECK_DEADLOCK FALSE
