SPECIFICATION Spec
CONSTANTS
    l1 = l1
    l2 = l2
    l3 = l3
    Light = {l1, l2}
    Setup <- Pair
    Cycle = {c1, c2}
    Cli = {g1}
    None = None
    Configs <- Modes
    MaxStarts = 2
INVARIANTS
    NoOrphan
    ShutdownJoins
CHECK_DEADLOCK FALSE
