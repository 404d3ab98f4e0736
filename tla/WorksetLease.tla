---------------------------- MODULE WorksetLease ----------------------------
(***************************************************************************)
(* The clocks behind SuperFetch: does the payload of a claimed job outlive *)
(* the sweep that reclaims it?  The job's offset is committed at claim, so *)
(* once the consumer is dead the Redis entry is the only copy.  The module *)
(* follows one claimed job through the three timers that decide its fate:  *)
(* the lease renewals and the heartbeats of its consumer, and the reclaim  *)
(* sweeps of the daemon.  Time is discrete; a key exists until its         *)
(* deadline, and a timer that is due fires before time moves on.  A third  *)
(* of the lease is rounded down to whole units: choose units that divide   *)
(* it.                                                                     *)
(***************************************************************************)
EXTENDS Integers

CONSTANTS
    Lease,         \* super_fetch_lease_ttl as configured
    HeartbeatTTL,  \* liveness_ttl
    HeartbeatEvery,
    Grace,         \* super_fetch_orphan_grace
    ReclaimEvery,
    Buffer,        \* the 30s of NewSuperFetchExecutor
    SafetyBuffer,  \* reclaimSafetyBuffer, the 60s of the store
    MinRenew,      \* the 5s of startRenewLoop
    MaxTime        \* bound: the clock

\* What the theorems assume of the settings: intervals are positive, and the two
\* constants of the code are 5s and 30s.
LeaseSettings ==
    /\ Lease \in Nat /\ Grace \in Nat /\ Buffer \in Nat /\ SafetyBuffer \in Nat /\ MaxTime \in Nat
    /\ HeartbeatTTL \in Nat \ {0} /\ HeartbeatEvery \in Nat \ {0}
    /\ ReclaimEvery \in Nat \ {0} /\ MinRenew \in Nat \ {0}
    /\ MinRenew <= Buffer

AtLeast(x, floor) == IF x < floor THEN floor ELSE x

\* The lease the executor renews with, and the one a claim is made with.
LeaseTTL == AtLeast(Lease, HeartbeatTTL + Grace + ReclaimEvery + Buffer)
ClaimTTL == AtLeast(LeaseTTL, HeartbeatTTL + Grace + SafetyBuffer)

RenewEvery == AtLeast(LeaseTTL \div 3, MinRenew)

VARIABLES
    now,
    alive,      \* the consumer runs
    status,     \* of the job: held, completed, reclaimed, lost
    expires,    \* deadline of the entry's lease
    heartbeat,  \* deadline of the consumer's heartbeat key
    nextRenew,
    nextBeat,
    nextSweep,
    left        \* history: how much of the lease the crash left

leaseVars == <<now, alive, status, expires, heartbeat, nextRenew, nextBeat, nextSweep, left>>

\* The claim is at time 0, anywhere between two ticks of each timer.
LeaseInit ==
    /\ now = 0 /\ alive = TRUE /\ status = "held"
    /\ expires = ClaimTTL /\ heartbeat = HeartbeatTTL
    /\ nextRenew \in 1..RenewEvery
    /\ nextBeat \in 1..HeartbeatEvery
    /\ nextSweep \in 1..ReclaimEvery
    /\ left = 0

\* renewLua: a payload that is gone is not renewed.
Renew ==
    /\ alive /\ now = nextRenew
    /\ nextRenew' = now + RenewEvery
    /\ expires' = IF status = "held" /\ now < expires THEN now + LeaseTTL ELSE expires
    /\ UNCHANGED <<now, alive, status, heartbeat, nextBeat, nextSweep, left>>

LeaseTouchConsumer ==
    /\ alive /\ now = nextBeat
    /\ nextBeat' = now + HeartbeatEvery
    /\ heartbeat' = now + HeartbeatTTL
    /\ UNCHANGED <<now, alive, status, expires, nextRenew, nextSweep, left>>

LeaseComplete ==
    /\ alive /\ status = "held"
    /\ status' = "completed"
    /\ UNCHANGED <<now, alive, expires, heartbeat, nextRenew, nextBeat, nextSweep, left>>

LeaseCrash ==
    /\ alive
    /\ alive' = FALSE /\ left' = expires - now
    /\ UNCHANGED <<now, status, expires, heartbeat, nextRenew, nextBeat, nextSweep>>

\* The claim, at time 0, is the score in the index.
Aged     == now - Grace >= 0
Orphaned == Aged /\ now >= heartbeat
Expired  == now >= expires

\* A sweep: an aged index entry without payload is pruned, and its job lost; one
\* whose consumer is dead is produced again.
ReclaimOrphans ==
    /\ now = nextSweep
    /\ nextSweep' = now + ReclaimEvery
    /\ status' = CASE status = "held" /\ Aged /\ Expired -> "lost"
                   [] status = "held" /\ Orphaned /\ ~Expired -> "reclaimed"
                   [] OTHER -> status
    /\ UNCHANGED <<now, alive, expires, heartbeat, nextRenew, nextBeat, left>>

Tick ==
    /\ now < MaxTime
    /\ alive => now < nextRenew /\ now < nextBeat
    /\ now < nextSweep
    /\ now' = now + 1
    /\ UNCHANGED <<alive, status, expires, heartbeat, nextRenew, nextBeat, nextSweep, left>>

LeaseNext == Renew \/ LeaseTouchConsumer \/ LeaseComplete \/ LeaseCrash \/ ReclaimOrphans \/ Tick

LeaseSpec == LeaseInit /\ [][LeaseNext]_leaseVars

-----------------------------------------------------------------------------
\* Type invariant.
LeaseTypeOK ==
    /\ now \in Nat /\ alive \in BOOLEAN
    /\ status \in {"held", "completed", "reclaimed", "lost"}
    /\ expires \in Nat /\ heartbeat \in Nat
    /\ nextRenew \in Nat /\ nextBeat \in Nat /\ nextSweep \in Nat /\ left \in Int

\* "The workset payload lease MUST outlive death-detection plus one reclaim cycle"
\* (daemon/superfetch.go): no sweep ever finds the index entry without its payload.
NeverLost == status # "lost"

\* How long after its crash a consumer's job may wait for the sweep that takes it:
\* the heartbeat key (or the grace) and then one sweep interval.
Detection == AtLeast(HeartbeatTTL, Grace) + ReclaimEvery

\* What the floors do give: a job is lost only if its consumer is dead, and died
\* when less of the lease was left than the wait for the sweep takes.  A running
\* consumer's lease never runs out.
LostOnlyLate == status = "lost" => ~alive /\ left < Detection

\* When a sweep can first take the job from its consumer.
Due == AtLeast(heartbeat, Grace)

\* The strengthening that makes LostOnlyLate inductive: the next sweep comes less
\* than one interval after the job falls due, a running consumer renews in time,
\* and a dead one's job falls due a heartbeat's TTL (or the grace) after the crash.
LeaseInv ==
    /\ LostOnlyLate
    /\ status = "held" =>
         /\ nextSweep < Due + ReclaimEvery
         /\ now <= nextSweep
    /\ status = "held" /\ alive =>
         /\ nextRenew - RenewEvery + LeaseTTL <= expires
         /\ now <= nextRenew
    /\ status = "held" /\ ~alive => Due <= expires - left + AtLeast(HeartbeatTTL, Grace)
    /\ heartbeat <= now + HeartbeatTTL \/ ~alive

=============================================================================
