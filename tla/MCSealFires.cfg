SPECIFICATION Spec
CONSTANTS
    TTL = 1
    FinishedTTL = 1
    Seqs = {1}
    EventOps = {"success"}
    FlakySeqs = {}
    MaxPoll = 1
    MaxFaults = 0
INVARIANT
    SealFires
