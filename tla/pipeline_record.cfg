SPECIFICATION Spec
CONSTANTS
    Users = {u1}
    Videos = {v1}
    Procs = {p1, p2}
    MaxOps = 3
    MaxTime = 1
    SvcFaults = {"gate", "crash"}
    MaxFaults = 1
    Consumers = {c1, c2}
    MaxRetry = 2
    BatchSize = 1
    XAddCopies = {0, 1}
    BusFaults = {"stop", "crash", "read"}
    MaxStops = 1
    DBFails = {"upsert", "apply"}
    MaxDBFails = 1
INVARIANTS RecordFollowsGate
CHECK_DEADLOCK FALSE
SYMMETRY Symmetry
