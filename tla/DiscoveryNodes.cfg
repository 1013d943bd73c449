SPECIFICATION Spec
CONSTANTS
    l1 = l1
    l2 = l2
    l3 = l3
    Light = {l1, l2, l3}
    Setup <- Three
    Cycle = {c1, c2}
    Cli = {}
    None = None
    Configs <- Periodic
    MaxStarts = 1
INVARIANT UniqueNodeAddress
CHECK_DEADLOCK FALSE
