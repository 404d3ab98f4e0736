SPECIFICATION FairSpec
CONSTANTS
    Workers = {w1, w2}
    MaxRuns = 8
    Instances <- MCInstances
    w1 = w1
    w2 = w2
INVARIANTS
    NothingVanishes
    LockFollowsJob
    HolderAlone
    RetryBudget
PROPERTY
    EventuallyEnds
CHECK_DEADLOCK FALSE
