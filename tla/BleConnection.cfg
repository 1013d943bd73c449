SPECIFICATION FairLinkSpec
CONSTANTS
    o1 = o1
    o2 = o2
    o3 = o3
    Op = {o1, o2, o3}
    None = None
    Kinds <- Casts
INVARIANTS
    Isolated
    NoLinkLost
    ScanIsolated
PROPERTIES
    NoStrayDisconnect
    AdapterFreed
CHECK_DEADLOCK FALSE
