SPECIFICATION Spec
CONSTANTS
    Authors = {a1}
    Users = {1, 2}
    Workers = {w1, w2}
    BatchSize = 1
    TimelineMax = 1
    MaxRetry = 2
    MaxVideos = 2
INVARIANTS TypeOK FollowersServed InboxKeepsNewest
CHECK_DEADLOCK FALSE
SYMMETRY Symmetry
