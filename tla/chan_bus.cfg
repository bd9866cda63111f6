SPECIFICATION FairSpec
CONSTANTS
    Publishers = {p1, p2, p3}
    Cap = 2
    Runners = {"select", "absent"}
    Cancels = TRUE
    MaxMsgs = 6
INVARIANTS TypeOK
PROPERTIES PublishReturnsWhileRunning
CHECK_DEADLOCK FALSE
