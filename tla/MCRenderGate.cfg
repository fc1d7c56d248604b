\* Three callers that ask again and again; nothing is bounded.
SPECIFICATION FairSpec
CONSTANTS
    c1 = c1
    c2 = c2
    c3 = c3
    Callers <- MCCallers
    Priorities <- MCPriorities
INVARIANTS
    TypeOK
    MutualExclusion
    NoLostWakeup
PROPERTIES
    ServedInOrder
    HighestIsServed
