SPECIFICATION FairSpec
CONSTANTS
    Msgs = {m1, m2}
    Consumers = {c1, c2}
    MaxRetry = 2
    BatchSize = 2
    XAddCopies = {0, 1}
    Faults = {"stop", "crash", "read", "ack"}
    MaxStops = 2
INVARIANTS TypeOK NoneVanishes
PROPERTIES KeepsContract SettlesUndisturbed
CHECK_DEADLOCK FALSE
