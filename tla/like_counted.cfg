SPECIFICATION FairSpec
CONSTANTS
    Users = {u1, u2}
    Videos = {v1}
    Procs = {p1, p2}
    Wirings = {"none", "wait"}
    Faults = {"gate", "exec", "partial", "incr", "shutdown", "timeout", "crash"}
    MaxOps = 4
    MaxFaults = 2
    MaxTime = 1
INVARIANTS TypeOK Conservation DriftBoundedByFailures
PROPERTIES CountSettles
CHECK_DEADLOCK FALSE
