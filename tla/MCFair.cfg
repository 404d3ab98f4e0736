SPECIFICATION FairSpec
CONSTANTS
    Tenants = {1, 2}
    MaxLoad = 2
    Weight <- MCWeight
    Unit = 2
    Instances <- MCInstances
    Forwarders = {f1, f2}
    Durations = {2}
    MaxSlots = 3
    f1 = f1
    f2 = f2
INVARIANTS
    NothingLost
    BudgetRespected
    NoMonopoly
    ReclaimedOnce
PROPERTY
    EventuallyForwarded
CHECK_DEADLOCK FALSE
