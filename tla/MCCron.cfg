SPECIFICATION FairSpec
CONSTANTS
    Minutes = 2
    Hours = 3
    Days = 2
    Months = 2
    Weekdays = 3
    YearLimit = 3
    Nodes = {n1, n2}
    Horizon = 6
    MaxSkew = 1
    Instances <- MCInstances
    n1 = n1
    n2 = n2
INVARIANTS
    NextIsFirst
    FiresAreExact
    DispatchedOnce
PROPERTY
    EventuallyDispatched
CHECK_DEADLOCK FALSE
