SPECIFICATION ReadSpec
CONSTANTS
    Authors = {a1, a2}
    PageSize = 2
    FetchFactor = 1
    Limits = {1, 2}
    MaxVideos = 3
    MaxChanges = 1
INVARIANTS ReadTypeOK EndMeansComplete NoVideoTwice
CHECK_DEADLOCK FALSE
SYMMETRY Symmetry
