SPECIFICATION FairSpec
CONSTANTS
    Consumers = {c1, c2}
    Sweepers = {s1}
    NoOwner = NoOwner
    MaxFence = 4
    MaxRecords = 4
    MaxFaults = 2
    FaultKinds = {"crash", "stall", "redeliver", "claim", "complete", "produce", "mark", "finish", "sweeper", "lock", "lease"}
    c1 = c1
    c2 = c2
    s1 = s1
INVARIANTS
    
    OwnerWorks
    OnePerformer
PROPERTY
    EventuallyApplied
CHECK_DEADLOCK FALSE
