SPECIFICATION RecFairSpec
CONSTANTS
    p1 = p1
    p2 = p2
    Procs = {p1, p2}
    MaxPublished = 3
    ListLimit = 3
    RecallLimit = 2
    RankLimit = 20
    PageSize = 2
    MaxPerAuthor = 1
    MaxFaults = 1
INVARIANTS
    RecTypeOK
    NoVideoTwice
    RepeatsOneBesideNew
    SeenWasServed
PROPERTIES
    EveryRecallableShown
CHECK_DEADLOCK FALSE
