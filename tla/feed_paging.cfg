SPECIFICATION FeedSpec
CONSTANTS
    DB = TRUE
    Names = {n1, n2}
    URLs = {"a"}
    Qualities = {}
    MaxUsers = 2
    MaxVideos = 4
    MaxComments = 0
    Limits <- MCLimits
    DefaultLimit = 2
    MaxLimit = 2
    BrokenReads = TRUE
INVARIANTS FeedTypeOK NewestFirst EndMeansComplete
CHECK_DEADLOCK FALSE
