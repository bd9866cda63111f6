SPECIFICATION Spec
CONSTANTS
    u1 = u1
    u2 = u2
    v1 = v1
    Users = {u1, u2}
    Videos = {v1}
    Events <- MCEvents
    Workers = {w1, w2}
    Failing = TRUE
    MaxCalls = 5
INVARIANTS TypeOK RecordIsNewest CountIsOffByDeepestDeficit
CHECK_DEADLOCK FALSE
SYMMETRY Symmetry
