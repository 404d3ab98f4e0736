SPECIFICATION FairSpec
CONSTANTS
    TTL = 1
    FinishedTTL = 1
    Seqs = {1, 2}
    EventOps = {"success", "failed"}
    FlakySeqs = {1}
    MaxPoll = 2
    MaxFaults = 1
INVARIANTS
    ClaimsAnswered
    RunsOnce
PROPERTY
    CalledBack
