SPECIFICATION Spec
CONSTANTS
    TTL = 2
    FinishedTTL = 1
    MaxSeq = 3
    PushSizes = {1, 2}
    MaxTime = 3
    TimedSeqs = 2
    MaxTouched = 3
INVARIANTS
    NeverUndercounts
    CountersExact
    GrantOnce
    SuccessMeansDone
    CompleteMeansTouched
    CountsMatch
    AllocatorAhead
PROPERTIES
    TerminalIsFinal
CHECK_DEADLOCK FALSE
