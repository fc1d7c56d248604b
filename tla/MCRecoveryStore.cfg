\* The program may stop for good once it has started MaxOpenings times.
CHECK_DEADLOCK FALSE
SPECIFICATION Spec
CONSTANTS
    d1 = d1
    d2 = d2
    b1 = b1
    b2 = b2
    t1 = t1
    t2 = t2
    Ids <- MCIds
    Bases <- MCBases
    Timelines <- MCTimelines
    MaxActive = 2
    MaxSequence = 2
    MaxOpenings = 2
    Faults <- AllFaults
INVARIANTS
    StoreInv
    ReadyRecoverySurvives
    ClearedStaysCleared
PROPERTIES
    CheckpointsAdvance
