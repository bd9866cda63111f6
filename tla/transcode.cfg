SPECIFICATION FairSpec
CONSTANTS
    v1 = v1
    t1 = t1
    t2 = t2
    w1 = w1
    w2 = w2
    Videos = {v1}
    Tasks = {t1, t2}
    VideoOf <- MCVideoOf
    Workers = {w1, w2}
    Resolutions = 2
    Fitting = {1}
    MaxRetry = 2
    MaxCrashes = 1
INVARIANTS TypeOK PublishedURLsPlay StatusTellsOutcome
PROPERTIES LeavesTranscoding
CHECK_DEADLOCK FALSE
