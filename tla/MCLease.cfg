SPECIFICATION LeaseSpec
\* Units of 10/3 seconds: the defaults of config.go and workset/store.go (lease 120 s,
\* raised to 280 s and renewed every 93.3 s; 180 s, 20 s, 40 s, 30 s, 30 s, 60 s; the
\* 5 s floor of the renewals, here rounded up, does not matter).
CONSTANTS
    Lease = 36
    HeartbeatTTL = 54
    HeartbeatEvery = 6
    Grace = 12
    ReclaimEvery = 9
    Buffer = 9
    SafetyBuffer = 18
    MinRenew = 2
    MaxTime = 100
INVARIANT
    NeverLost
CHECK_DEADLOCK FALSE
