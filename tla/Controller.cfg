SPECIFICATION FairSpec
CONSTANTS
    l1 = l1
    l2 = l2
    Link = {l1, l2}
    None = None
    MaxSequence = 3
    MaxIvIndex = 1
    Modes = {"cached", "instant", "single"}
INVARIANTS
    TypeOK
    OneLink
    NoLinkForgotten
    ClosedIsQuiet
PROPERTIES
    AwakeForSettings
    LeaseOutlivesWrite
    EveryCommandEnds
    CloseEnds
CHECK_DEADLOCK FALSE
