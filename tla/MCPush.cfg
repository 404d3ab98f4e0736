SPECIFICATION FairSpec
CONSTANTS
    Jobs = {1, 2, 3, 4}
    Pollers = {p1, p2}
    BatchSize = 2
    MaxMisses = 2
    Calls = {1, 2}
    Prints = {1, 2}
    Instances <- MCInstances
    p1 = p1
    p2 = p2
INVARIANTS
    PushedAccounted
    UniqueLive
    TotalCovers
    LocksFollowJobs
PROPERTY
    IndexDrains
CHECK_DEADLOCK FALSE
