SPECIFICATION ReconcileSpec
CONSTANTS
    u1 = u1
    u2 = u2
    v1 = v1
    w1 = w1
    r1 = r1
    r2 = r2
    Users = {u1, u2}
    Videos = {v1}
    Workers = {w1}
    Events <- MCEvents
    Failing = FALSE
    MaxCalls = 3
    Reconcilers = {r1, r2}
    Threshold = 1
    MaxTwice = 1
    MaxErrors = 1
INVARIANT ReconcileTypeOK
PROPERTIES RepairLandsOnTable Converges
CHECK_DEADLOCK FALSE
