SPECIFICATION FairSpec
CONSTANTS
    MaxAttempt = 2
    MaxRebind = 3
    Parts = 3
INVARIANTS
    Reassembled
    KeysOnDisk
    BoundOnSuccess
PROPERTY
    StageEnds
CHECK_DEADLOCK FALSE
