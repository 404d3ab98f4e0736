------------------------------ MODULE FairLane ------------------------------
(***************************************************************************)
(* One lane of the fair scheduler: the dispatcher moves jobs of an ingest  *)
(* topic into per-tenant ready lists, forwarders check them out in         *)
(* virtual-time order under a concurrency budget and produce them to the   *)
(* ready topic, workers complete the slots, and stale forwards and leases  *)
(* are reclaimed.  Every Redis script is one atomic step; a forwarder is   *)
(* at one script or produce at a time.                                     *)
(*                                                                         *)
(* Scores are in units of 1/Unit, so that a weighted step 1/w is a whole   *)
(* number.  Clocks are abstracted: a lease expires, a reclaim claim        *)
(* expires.  What a worker does with a slot is JobLifecycle.tla; here it   *)
(* renews the lease and completes the slot.  Definitions named Faulty...   *)
(* are deliberate mistakes: no specification uses them.                    *)
(***************************************************************************)
EXTENDS Integers, Sequences, FiniteSets, FiniteSetsExt

CONSTANTS
    Tenants,     \* numbers: ties in the ring are broken by their order
    MaxLoad,     \* bound: jobs of a tenant
    Weight,      \* weight of each tenant
    Unit,        \* a multiple of every weight
    Instances,   \* the settings, load and number of faults looked at
    Forwarders,
    Durations,   \* measured run times, in score units
    MaxSlots     \* bound: checkouts

Jobs  == Tenants \X (1..MaxLoad)
Slots == 1..MaxSlots

\* The fields of Settings that decide (0 stands for no limit), the jobs of each
\* tenant in the ingest topic, and the bound on faults.
Settings ==
    [lane : {"time", "throughput"}, budget : Nat, cap : Nat, weighted : BOOLEAN,
     window : Nat, load : [Tenants -> 0..MaxLoad], faults : Nat]

ASSUME FairLaneAssumption ==
    /\ Tenants \subseteq Nat /\ IsFiniteSet(Tenants) /\ MaxLoad \in Nat
    /\ Weight \in [Tenants -> Nat \ {0}] /\ Unit \in Nat \ {0}
    /\ \A t \in Tenants : Unit % Weight[t] = 0
    /\ Instances \subseteq Settings
    /\ Durations \subseteq Nat /\ MaxSlots \in Nat

NoJob == <<>>

VARIABLES
    settings,    \* of this lane
    ingest,      \* uncommitted records of the ingest topic
    ready,       \* ready list of each tenant
    ring,        \* the ring: tenant -> score, of the tenants in it
    vtime,       \* the vtime hash
    leases,      \* global lease of each slot: none, live, expired
    tenantLeases,\* the tenant's lease of each slot
    slotJob,     \* the payload checked out as each slot
    forwarding,  \* slots in the forwarding buffer
    claimed,     \* slots whose reclaim claim key exists
    fwd,         \* what each forwarder is doing, with which slot
    topic,       \* copies of each slot on the ready topic
    work,        \* what became of each slot at the workers
    dropped,     \* jobs dropped as expired
    rearmed,     \* history: slots whose lease a reclaim re-created
    waited,      \* history: checkouts a debtless newcomer has waited, -1 if none
    reclaims,    \* history: copies of each slot a reclaim produced and went on to confirm
    overtaken,   \* history: slots whose claim key expired under a forwarder
    faults

lists  == <<ready, ring, vtime>>
slots  == <<leases, tenantLeases, slotJob, forwarding>>
others == <<claimed, fwd, topic, work>>
past   == <<rearmed, waited, reclaims, overtaken>>
vars   == <<settings, ingest, lists, slots, others, dropped, past, faults>>

lane == settings.lane
Budget == settings.budget
Cap == settings.cap
Window == settings.window
Pushed(j) == j[2] <= settings.load[j[1]]

Resting == [at |-> "idle", slot |-> 0]

Init ==
    /\ settings \in Instances
    /\ ingest = {j \in Jobs : Pushed(j)}
    /\ ready = [t \in Tenants |-> <<>>] /\ ring = [t \in {} |-> 0] /\ vtime = [t \in Tenants |-> 0]
    /\ leases = [s \in Slots |-> "none"] /\ tenantLeases = [s \in Slots |-> "none"]
    /\ slotJob = [s \in Slots |-> NoJob] /\ forwarding = {} /\ claimed = {}
    /\ fwd = [f \in Forwarders |-> Resting]
    /\ topic = [s \in Slots |-> 0] /\ work = [s \in Slots |-> "none"] /\ dropped = {}
    /\ rearmed = {} /\ waited = [t \in Tenants |-> -1] /\ reclaims = [s \in Slots |-> 0]
    /\ overtaken = {}
    /\ faults = 0

Fault == faults < settings.faults /\ faults' = faults + 1
At(f, pc) == fwd[f].at = pc
Goto(f, pc, s) == fwd' = [fwd EXCEPT ![f] = [at |-> pc, slot |-> s]]
Tenant(s) == slotJob[s][1]
Step(t) == Unit \div Weight[t]
InRing(t) == t \in DOMAIN ring
RingMin == Min({ring[t] : t \in DOMAIN ring})
ZAdd(z, t, score) == [u \in DOMAIN z \cup {t} |-> IF u = t THEN score ELSE z[u]]
ZRem(z, t) == [u \in DOMAIN z \ {t} |-> z[u]]
Gone(z, s) == [z EXCEPT ![s] = "none"]
Purged(z, S) == [s \in Slots |-> IF s \in S /\ z[s] = "expired" THEN "none" ELSE z[s]]

-----------------------------------------------------------------------------
(* The dispatcher: Process and EnqueueLua *)

\* Score at which a tenant joins the ring.
JoinScore(t) ==
    IF DOMAIN ring # {} /\ RingMin > vtime[t] THEN RingMin ELSE vtime[t]

NoDebt(t) ==
    /\ DOMAIN ring = {} \/ vtime[t] <= RingMin
    /\ \A s \in Slots : slotJob[s] # NoJob /\ Tenant(s) = t => tenantLeases[s] = "none"

\* EnqueueLua: refuse when the window is full, else join the ring and append.
Enqueue(j) ==
    LET t == j[1] IN
    /\ Window = 0 \/ Len(ready[t]) < Window
    /\ ring' = IF InRing(t) THEN ring ELSE ZAdd(ring, t, JoinScore(t))
    /\ vtime' = IF InRing(t) THEN vtime ELSE [vtime EXCEPT ![t] = JoinScore(t)]
    /\ ready' = [ready EXCEPT ![t] = Append(@, j)]
    /\ waited' = IF ~InRing(t) /\ NoDebt(t) THEN [waited EXCEPT ![t] = 0] ELSE waited

\* Process: the record is committed once the job is in its ready list; a commit
\* that does not reach the broker leaves it to be dispatched again.
Dispatch(j, committed) ==
    /\ j \in ingest
    /\ \A i \in ingest : i[1] = j[1] => j[2] <= i[2]
    /\ Enqueue(j)
    /\ IF committed THEN ingest' = ingest \ {j} /\ UNCHANGED faults
       ELSE Fault /\ UNCHANGED ingest
    /\ UNCHANGED <<settings, slots, others, dropped, rearmed, reclaims, overtaken>>

\* Process: an expired job is dropped (event, DLT) and its record committed.
DispatchExpired(j) ==
    /\ j \in ingest /\ Fault
    /\ ingest' = ingest \ {j} /\ dropped' = dropped \cup {j}
    /\ UNCHANGED <<settings, lists, slots, others, past>>

-----------------------------------------------------------------------------
(* CheckoutLuaTime, CheckoutLuaCount *)

LeasedTo(t) == {s \in Slots : slotJob[s] # NoJob /\ Tenant(s) = t}
Inflight(t) == Cardinality({s \in LeasedTo(t) : tenantLeases[s] = "live"})
Total == Cardinality({s \in Slots : leases[s] = "live"})
BudgetFull == Budget > 0 /\ Total >= Budget

\* Summed weights of the tenants of a view; of a view without any, ARGV[8] is 0
\* and the script takes the default weight for each active tenant.
SumWeight(view) == Cardinality({p \in view \X (1..Unit) : p[2] <= Weight[p[1]]})

\* A tenant's share of the budget, given the cached view of the active tenants
\* (activeViewCached: any earlier set of them).
EffCap(t, view) ==
    LET active == Max({Cardinality(DOMAIN ring), 1, Cardinality(view)})
        sumW == IF view # {} THEN SumWeight(view) ELSE active
        share == IF Budget = 0 THEN 0
                 ELSE IF settings.weighted THEN Max({1, (Budget * Weight[t]) \div sumW})
                 ELSE (Budget + active - 1) \div active
    IN IF Cap > 0 /\ (share = 0 \/ Cap < share) THEN Cap ELSE share

UnderShare(t, view) == EffCap(t, view) = 0 \/ Inflight(t) < EffCap(t, view)
UnderCap(t) == Cap = 0 \/ Inflight(t) < Cap

\* ZRANGE ring: by score, then by member.
Before(t, u) == ring[t] < ring[u] \/ (ring[t] = ring[u] /\ t <= u)
FirstOf(T) == CHOOSE t \in T : \A u \in T : Before(t, u)

\* The tenant to serve: the first under its share, else the first under the cap.
Candidates(view) ==
    LET fair == {t \in DOMAIN ring : UnderShare(t, view)}
    IN IF fair # {} THEN fair ELSE {t \in DOMAIN ring : UnderCap(t)}

\* Tenants whose lease sets the loop has purged when it stops at t.
Visited(t, view) ==
    IF UnderShare(t, view) THEN {u \in DOMAIN ring : Before(u, t)} ELSE DOMAIN ring

FaultyCharged(t) == vtime

\* The throughput lane charges the tenant at checkout, the time lane when the
\* slot completes.
Charged(t) ==
    IF lane = "throughput" THEN [vtime EXCEPT ![t] = ring[t] + Step(t)] ELSE vtime

PurgedTenants(T) == Purged(tenantLeases, UNION {LeasedTo(t) : t \in T})

\* The next unused slot id.
NextSlot == Cardinality({s \in Slots : slotJob[s] # NoJob}) + 1

Checkout(f, view) ==
    /\ At(f, "idle") /\ ~BudgetFull /\ Candidates(view) # {} /\ NextSlot \in Slots
    /\ LET t == FirstOf(Candidates(view))
           s == NextSlot
       IN /\ ready' = [ready EXCEPT ![t] = Tail(@)]
          /\ vtime' = Charged(t)
          /\ ring' = IF Len(ready[t]) = 1 THEN ZRem(ring, t)
                     ELSE IF lane = "throughput" THEN ZAdd(ring, t, Charged(t)[t]) ELSE ring
          /\ leases' = [Purged(leases, Slots) EXCEPT ![s] = "live"]
          /\ tenantLeases' = [PurgedTenants(Visited(t, view)) EXCEPT ![s] = "live"]
          /\ slotJob' = [slotJob EXCEPT ![s] = Head(ready[t])]
          /\ forwarding' = forwarding \cup {s}
          /\ Goto(f, "checkedOut", s)
          /\ waited' = [u \in Tenants |-> IF u = t \/ waited[u] = -1 \/ ~InRing(u) THEN -1
                                          ELSE waited[u] + 1]
    /\ UNCHANGED <<settings, ingest, claimed, topic, work, dropped, rearmed, reclaims, overtaken,
                   faults>>

\* Nothing to check out: only the purges happen.
CheckoutIdle(f, view) ==
    /\ At(f, "idle")
    /\ \E s \in Slots : leases[s] = "expired" \/ tenantLeases[s] = "expired"
    /\ BudgetFull \/ Candidates(view) = {}
    /\ leases' = Purged(leases, Slots)
    /\ tenantLeases' = IF BudgetFull THEN tenantLeases ELSE PurgedTenants(DOMAIN ring)
    /\ UNCHANGED <<settings, ingest, lists, slotJob, forwarding, others, dropped, past, faults>>

-----------------------------------------------------------------------------
(* The forwarder: forwardJob, handleExpired *)

\* CompleteLuaTimeLease, CompleteLuaCountLease: release the slot; the time lane
\* charges a slot it still knew and puts a tenant with work back into the ring.
CompleteScript(s, inc) ==
    LET t == Tenant(s)
        known == lane = "time" /\ tenantLeases[s] # "none"
    IN /\ leases' = Gone(leases, s) /\ tenantLeases' = Gone(tenantLeases, s)
       /\ vtime' = IF known THEN [vtime EXCEPT ![t] = @ + inc \div Weight[t]] ELSE vtime
       /\ ring' = IF known /\ ready[t] # <<>> THEN ZAdd(ring, t, vtime[t] + inc \div Weight[t])
                  ELSE ring
       /\ UNCHANGED <<ready, slotJob, forwarding>>

\* AbortForwardLuaTime, AbortForwardLuaCount: put the job back and release the
\* slot; the throughput lane also takes the charge back and re-adds the tenant.
AbortScript(s) ==
    LET t == Tenant(s) IN
    IF s \notin forwarding THEN UNCHANGED <<lists, slots, waited>>
    ELSE /\ forwarding' = forwarding \ {s}
         /\ ready' = [ready EXCEPT ![t] = Append(@, slotJob[s])]
         /\ leases' = Gone(leases, s) /\ tenantLeases' = Gone(tenantLeases, s)
         /\ vtime' = IF lane = "throughput" THEN [vtime EXCEPT ![t] = @ - Step(t)] ELSE vtime
         /\ ring' = IF lane = "throughput" THEN ZAdd(ring, t, vtime[t] - Step(t)) ELSE ring
         /\ waited' = [u \in Tenants |-> -1]
         /\ UNCHANGED slotJob

\* forwardJob: produce, then confirm.
Forward(f) ==
    /\ At(f, "checkedOut")
    /\ topic' = [topic EXCEPT ![fwd[f].slot] = @ + 1]
    /\ Goto(f, "confirm", fwd[f].slot)
    /\ UNCHANGED <<settings, ingest, lists, slots, claimed, work, dropped, past, faults>>

\* forwardJob: no ready topic, or the produce failed.
ForwardFails(f) ==
    /\ At(f, "checkedOut") /\ Fault
    /\ Goto(f, "abort", fwd[f].slot)
    /\ UNCHANGED <<settings, ingest, lists, slots, claimed, topic, work, dropped, past>>

\* handleExpired: the job has expired, and is dropped (event, DLT).
Expired(f) ==
    /\ At(f, "checkedOut") /\ Fault
    /\ dropped' = dropped \cup {slotJob[fwd[f].slot]}
    /\ Goto(f, "complete", fwd[f].slot)
    /\ UNCHANGED <<settings, ingest, lists, slots, claimed, topic, work, past>>

FaultyExpiredFails(f) ==
    /\ At(f, "checkedOut") /\ Fault
    /\ Goto(f, "complete", fwd[f].slot)
    /\ UNCHANGED <<settings, ingest, lists, slots, claimed, topic, work, dropped, past>>

\* handleExpired: the drop failed; the entry and its lease are kept.
ExpiredFails(f) ==
    /\ At(f, "checkedOut") /\ Fault
    /\ Goto(f, "idle", 0)
    /\ UNCHANGED <<settings, ingest, lists, slots, claimed, topic, work, dropped, past>>

\* handleExpired: Complete, whose error is ignored.
ExpiredComplete(f, ok) ==
    /\ At(f, "complete")
    /\ IF ok THEN CompleteScript(fwd[f].slot, 0) /\ UNCHANGED faults
       ELSE Fault /\ UNCHANGED <<lists, slots>>
    /\ Goto(f, "confirm", fwd[f].slot)
    /\ UNCHANGED <<settings, ingest, claimed, topic, work, dropped, past>>

\* ConfirmForwardLua.
Confirm(f, ok) ==
    /\ At(f, "confirm")
    /\ IF ok THEN forwarding' = forwarding \ {fwd[f].slot} /\ UNCHANGED faults
       ELSE Fault /\ UNCHANGED forwarding
    /\ Goto(f, "idle", 0)
    /\ UNCHANGED <<settings, ingest, lists, leases, tenantLeases, slotJob, claimed, topic, work,
                   dropped, past>>

\* AbortForward, whose error is ignored.
Abort(f, ok) ==
    /\ At(f, "abort")
    /\ IF ok THEN AbortScript(fwd[f].slot) /\ UNCHANGED faults
       ELSE Fault /\ UNCHANGED <<lists, slots, waited>>
    /\ Goto(f, "idle", 0)
    /\ UNCHANGED <<settings, ingest, claimed, topic, work, dropped, rearmed, reclaims, overtaken>>

\* The process of the forwarder dies and is restarted.
Crash(f) ==
    /\ ~At(f, "idle") /\ Fault
    /\ Goto(f, "idle", 0)
    /\ reclaims' = IF At(f, "reconfirm") THEN [reclaims EXCEPT ![fwd[f].slot] = @ - 1]
                   ELSE reclaims
    /\ UNCHANGED <<settings, ingest, lists, slots, claimed, topic, work, dropped, rearmed,
                   waited, overtaken>>

-----------------------------------------------------------------------------
(* Recovery: ListStaleForwards, ReclaimStaleForward, ReclaimExpiredLeases,   *)
(* ResetVtimeIfQuiescent                                                     *)

FaultyStale(s) == s \in forwarding /\ leases[s] = "expired"

\* The lease is gone, or expired beyond the grace.
Stale(s) == s \in forwarding /\ leases[s] # "live"

\* A forwarder lists the stale entry, with its payload, under claim or not.  (An entry
\* further down its list is one that another forwarder listed.)
ListStale(f, s) ==
    /\ At(f, "idle") /\ Stale(s)
    /\ Goto(f, "listed", s)
    /\ UNCHANGED <<settings, ingest, lists, slots, claimed, topic, work, dropped, past, faults>>

FaultyReclaimClaim(f) ==
    /\ At(f, "listed")
    /\ claimed' = claimed \cup {fwd[f].slot}
    /\ Goto(f, "reclaim", fwd[f].slot)
    /\ UNCHANGED <<settings, ingest, lists, slots, topic, work, dropped, past, faults>>

\* The SETNX of the claim key: only its winner goes on.
ReclaimClaim(f) ==
    /\ At(f, "listed")
    /\ claimed' = claimed \cup {fwd[f].slot}
    /\ IF fwd[f].slot \in claimed THEN Goto(f, "idle", 0) ELSE Goto(f, "reclaim", fwd[f].slot)
    /\ UNCHANGED <<settings, ingest, lists, slots, topic, work, dropped, past, faults>>

ReclaimProduce(f) ==
    /\ At(f, "reclaim")
    /\ topic' = [topic EXCEPT ![fwd[f].slot] = @ + 1]
    /\ reclaims' = [reclaims EXCEPT ![fwd[f].slot] = @ + 1]
    /\ Goto(f, "reconfirm", fwd[f].slot)
    /\ UNCHANGED <<settings, ingest, lists, slots, claimed, work, dropped, rearmed, waited, overtaken,
                   faults>>

ReclaimProduceFails(f) ==
    /\ At(f, "reclaim") /\ Fault
    /\ Goto(f, "abort", fwd[f].slot)
    /\ UNCHANGED <<settings, ingest, lists, slots, claimed, topic, work, dropped, past>>

ReclaimConfirm(f, ok) ==
    /\ At(f, "reconfirm")
    /\ IF ok THEN forwarding' = forwarding \ {fwd[f].slot} /\ UNCHANGED <<faults, reclaims>>
       ELSE /\ Fault /\ UNCHANGED forwarding
            /\ reclaims' = [reclaims EXCEPT ![fwd[f].slot] = @ - 1]
    /\ IF ok THEN Goto(f, "rearm", fwd[f].slot) ELSE Goto(f, "idle", 0)
    /\ UNCHANGED <<settings, ingest, lists, leases, tenantLeases, slotJob, claimed, topic, work,
                   dropped, rearmed, waited, overtaken>>

\* RearmLeaseLua: both leases are (re)created, whatever became of the slot.
Rearm(f) ==
    /\ At(f, "rearm")
    /\ leases' = [leases EXCEPT ![fwd[f].slot] = "live"]
    /\ tenantLeases' = [tenantLeases EXCEPT ![fwd[f].slot] = "live"]
    /\ rearmed' = rearmed \cup {fwd[f].slot}
    /\ waited' = [waited EXCEPT ![Tenant(fwd[f].slot)] = -1]
    /\ Goto(f, "idle", 0)
    /\ UNCHANGED <<settings, ingest, lists, slotJob, forwarding, claimed, topic, work, dropped,
                   reclaims, overtaken, faults>>

\* A forwarder reclaims the slot, or has it on its list from before another one did.
BeingReclaimed(s) ==
    \E f \in Forwarders : /\ fwd[f].slot = s
                          /\ \/ fwd[f].at \in {"reclaim", "reconfirm"}
                             \/ fwd[f].at = "listed" /\ s \notin forwarding

\* The claim key expires, 30s after it was set; under a forwarder too, if it takes that
\* long (a fault).
ClaimExpires(s) ==
    /\ s \in claimed
    /\ claimed' = claimed \ {s}
    /\ IF BeingReclaimed(s) THEN Fault /\ overtaken' = overtaken \cup {s}
       ELSE UNCHANGED <<faults, overtaken>>
    /\ UNCHANGED <<settings, ingest, lists, slots, fwd, topic, work, dropped, rearmed, waited,
                   reclaims>>

ReclaimExpiredLeases ==
    /\ \E s \in Slots : leases[s] = "expired" \/ tenantLeases[s] = "expired"
    /\ leases' = Purged(leases, Slots) /\ tenantLeases' = Purged(tenantLeases, Slots)
    /\ UNCHANGED <<settings, ingest, lists, slotJob, forwarding, others, dropped, past, faults>>

ResetVtimeIfQuiescent ==
    /\ DOMAIN ring = {} /\ Total = 0 /\ forwarding = {}
    /\ vtime # [t \in Tenants |-> 0]
    /\ vtime' = [t \in Tenants |-> 0]
    /\ UNCHANGED <<settings, ingest, ready, ring, slots, others, dropped, past, faults>>

-----------------------------------------------------------------------------
(* The workers *)

Start(s) ==
    /\ topic[s] > 0 /\ work[s] = "none"
    /\ work' = [work EXCEPT ![s] = "running"]
    /\ UNCHANGED <<settings, ingest, lists, slots, claimed, fwd, topic, dropped, past, faults>>

FaultyRevived(z, s) == [z EXCEPT ![s] = "live"]
Revived(z, s) == [z EXCEPT ![s] = IF @ = "none" THEN "none" ELSE "live"]

\* RenewLease: ZADD XX, so that only an existing lease is extended.
Renew(s) ==
    /\ work[s] = "running"
    /\ leases' = Revived(leases, s) /\ tenantLeases' = Revived(tenantLeases, s)
    /\ UNCHANGED <<settings, ingest, lists, slotJob, forwarding, others, dropped, past, faults>>

\* withFairSlot: the slot is completed when the handler returns; an error is ignored.
Finish(s, inc, ok) ==
    /\ work[s] = "running"
    /\ work' = [work EXCEPT ![s] = "done"]
    /\ IF ok THEN CompleteScript(s, inc) /\ UNCHANGED faults
       ELSE Fault /\ UNCHANGED <<lists, slots>>
    /\ UNCHANGED <<settings, ingest, claimed, fwd, topic, dropped, past>>

\* A lease runs out: of a slot its forwarder or worker left behind, or (a fault)
\* of one that waits in the ready topic or whose holder stalls for that long.
Expire(s) ==
    /\ leases[s] = "live"
    /\ IF \/ topic[s] > 0 /\ work[s] # "done"
          \/ \E f \in Forwarders : fwd[f].slot = s
       THEN Fault ELSE UNCHANGED faults
    /\ leases' = [leases EXCEPT ![s] = "expired"]
    /\ tenantLeases' = [tenantLeases EXCEPT ![s] = IF @ = "live" THEN "expired" ELSE @]
    /\ UNCHANGED <<settings, ingest, lists, slotJob, forwarding, others, dropped, past>>

-----------------------------------------------------------------------------

ForwarderStep(f) ==
    \/ \E view \in SUBSET Tenants : Checkout(f, view)
    \/ Forward(f) \/ ExpiredComplete(f, TRUE) \/ Confirm(f, TRUE) \/ Abort(f, TRUE)
    \/ \E s \in Slots : ListStale(f, s)
    \/ ReclaimClaim(f) \/ ReclaimProduce(f) \/ ReclaimConfirm(f, TRUE) \/ Rearm(f)

ForwarderFault(f) ==
    \/ ForwardFails(f) \/ Expired(f) \/ ExpiredFails(f) \/ ExpiredComplete(f, FALSE)
    \/ Confirm(f, FALSE) \/ Abort(f, FALSE) \/ ReclaimProduceFails(f)
    \/ ReclaimConfirm(f, FALSE) \/ Crash(f)

Next ==
    \/ \E j \in Jobs : Dispatch(j, TRUE) \/ Dispatch(j, FALSE) \/ DispatchExpired(j)
    \/ \E f \in Forwarders : ForwarderStep(f) \/ ForwarderFault(f)
    \/ \E s \in Slots : ClaimExpires(s) \/ Start(s) \/ Renew(s) \/ Expire(s)
    \/ \E s \in Slots, inc \in Durations : Finish(s, inc, TRUE) \/ Finish(s, inc, FALSE)
    \/ \E f \in Forwarders, view \in SUBSET Tenants : CheckoutIdle(f, view)
    \/ ReclaimExpiredLeases \/ ResetVtimeIfQuiescent

Spec == Init /\ [][Next]_vars

\* The steps that processes and clocks take of themselves.
Progress ==
    \/ \E j \in Jobs : Dispatch(j, TRUE)
    \/ \E f \in Forwarders : ForwarderStep(f)
    \/ \E s \in Slots : Start(s) \/ Expire(s)
    \/ \E s \in Slots, inc \in Durations : Finish(s, inc, TRUE)

\* The lane as a whole never stops while one of them can be taken, a forwarder that has
\* won a claim goes on, and a claim key expires.
Fairness ==
    /\ WF_vars(Progress)
    /\ \A f \in Forwarders : WF_vars(ReclaimProduce(f) \/ ReclaimConfirm(f, TRUE))
    /\ \A s \in Slots : WF_vars(ClaimExpires(s))

FairSpec == Spec /\ Fairness

-----------------------------------------------------------------------------
(* Properties *)

LeaseStates == {"none", "live", "expired"}

TypeOK ==
    /\ settings \in Instances /\ ingest \subseteq Jobs /\ dropped \subseteq Jobs
    /\ ready \in [Tenants -> Seq(Jobs)] /\ vtime \in [Tenants -> Int]
    /\ DOMAIN ring \subseteq Tenants /\ \A t \in DOMAIN ring : ring[t] \in Int
    /\ leases \in [Slots -> LeaseStates] /\ tenantLeases \in [Slots -> LeaseStates]
    /\ slotJob \in [Slots -> Jobs \cup {NoJob}]
    /\ forwarding \subseteq Slots /\ claimed \subseteq Slots /\ rearmed \subseteq Slots
    /\ overtaken \subseteq Slots
    /\ fwd \in [Forwarders -> [at : {"idle", "checkedOut", "complete", "confirm", "abort",
                                     "listed", "reclaim", "reconfirm", "rearm"},
                               slot : Slots \cup {0}]]
    /\ topic \in [Slots -> Nat] /\ work \in [Slots -> {"none", "running", "done"}]
    /\ waited \in [Tenants -> Nat \cup {-1}] /\ reclaims \in [Slots -> Nat]
    /\ faults \in 0..settings.faults

\* A job whose ingest record is committed is in its ready list, in the forwarding
\* buffer, on the ready topic or dropped as expired: the pops, produces, confirms
\* and aborts of forwarders that fail or crash in between never lose it.
NothingLost ==
    \A j \in Jobs : Pushed(j) =>
        \/ j \in ingest \cup dropped
        \/ \E i \in DOMAIN ready[j[1]] : ready[j[1]][i] = j
        \/ \E s \in Slots : slotJob[s] = j /\ (s \in forwarding \/ topic[s] > 0)

\* The slots in flight, other than those whose lease a reclaim re-created without
\* asking, never exceed GlobalConcurrency, nor a tenant's its cap: a renewal
\* revives no lease that a checkout has already counted as gone.
BudgetRespected ==
    /\ Budget > 0 => Cardinality({s \in Slots \ rearmed : leases[s] = "live"}) <= Budget
    /\ \A t \in Tenants : Cap > 0 =>
         Cardinality({s \in LeasedTo(t) \ rearmed : tenantLeases[s] = "live"}) <= Cap

\* A tenant that joins the throughput ring with no virtual-time debt and nothing
\* in flight is passed over by fewer checkouts than there are tenants: the ring
\* comes round to it before it comes round to another one twice.
NoMonopoly ==
    lane = "throughput" => \A t \in Tenants : waited[t] < Cardinality(Tenants)

\* Of the forwarders that list the same stale forward one re-produces it (else both
\* would, "duplicating the job onto the ready topic", scheduler.go): a slot is reclaimed
\* once, unless the confirm of a reclaim fails, its forwarder dies, or the claim key
\* expires under a forwarder that still reclaims the slot or has it on its list from before
\* it was reclaimed.  The next one to win the key produces the slot again, without looking
\* whether it is still in the buffer.
ReclaimedOnce == \A s \in Slots \ overtaken : reclaims[s] <= 1

\* Every job of the throughput lane reaches the ready topic or is dropped,
\* whatever fails or crashes on the way.
EventuallyForwarded ==
    lane = "throughput" =>
        <>(\A j \in Jobs : Pushed(j) =>
               j \in dropped \/ \E s \in Slots : slotJob[s] = j /\ topic[s] > 0)

====
