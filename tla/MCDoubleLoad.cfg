SPECIFICATION Spec
CONSTANTS
    Consumers = {c1}
    Sweepers = {s1, s2}
    NoOwner = NoOwner
    MaxFence = 2
    MaxRecords = 3
    MaxFaults = 1
    FaultKinds = {"crash"}
    c1 = c1
    s1 = s1
    s2 = s2
INVARIANT
    LoadedOnce
CHECK_DEADLOCK FALSE
