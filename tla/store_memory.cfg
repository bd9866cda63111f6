SPECIFICATION Spec
CONSTANTS
    DB = FALSE
    Names = {n1, n2}
    URLs = {"a"}
    Qualities = {q1}
    MaxUsers = 2
    MaxVideos = 2
    MaxComments = 2
INVARIANTS TypeOK LikeCountExact FollowIndexesAgree CommentsIndexed
CHECK_DEADLOCK FALSE
SYMMETRY Symmetry
