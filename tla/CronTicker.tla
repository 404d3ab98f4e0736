----------------------------- MODULE CronTicker -----------------------------
(***************************************************************************)
(* The recurring scheduler: nodes that tick under a leader lease, claim    *)
(* the due instants of a schedule in its fire ledger, enqueue a job for    *)
(* each and mark it dispatched, recover fires a crashed tick left pending, *)
(* and prune the ledger.  Schedules are independent rows: one is modelled, *)
(* with the uniqueness lock its jobs share when its handler is uniq.       *)
(*                                                                         *)
(* Row ages are abstracted: a pending row grows older than the recovery    *)
(* grace.  A tick that finds nothing to do is left out, and the period of  *)
(* the recovery sweep: each tick sweeps.                                   *)
(* Definitions named Faulty... are deliberate mistakes: no specification   *)
(* uses them.                                                              *)
(***************************************************************************)
EXTENDS CronExpr

CONSTANTS
    Nodes,
    Horizon,     \* bound: the last minute looked at
    MaxSkew,     \* bound: how far a node's clock is ahead
    Instances    \* the schedule, configuration and number of faults looked at

\* The schedule, whether its handler is uniq, MisfireGrace, MaxBackfill, and the
\* bounds on time and faults.
Settings ==
    [expr : Exprs, zone : Zones, policy : Policies, uniq : BOOLEAN, grace : Nat,
     maxBackfill : Nat \ {0}, until : 0..(Horizon - MaxSkew), faults : Nat]

ASSUME CronTickerAssumption == Horizon \in Nat /\ MaxSkew \in 0..Horizon /\ Instances \subseteq Settings

None == -1
Times == 0..Horizon
\* Stale: pending past the recovery grace.
Statuses == {"none", "pending", "stale", "dispatched"}

VARIABLES
    settings,
    clock,
    row,       \* the schedule's row: exists, enabled, next_run_at
    ledger,    \* the status of each instant's row in the fire ledger
    leader,    \* the node whose token the leader lock holds, or None
    node,      \* what each node's tick is doing
    lock,      \* the uniqueness lock: the instant whose job id it holds, or None
    jobs,      \* copies of each instant's job that are queued or running
    enqueued,  \* history: copies of each instant's job ever enqueued
    claims,    \* history: how often each instant was claimed
    edited,    \* history: the schedule was written, disabled or deleted
    excused,   \* history: a node crashed or stalled, or an outcome was not recorded
    overlap,   \* history: two nodes recovered a fire at a time
    faults

vars == <<settings, clock, row, ledger, leader, node, lock, jobs, enqueued, claims, edited, excused, overlap, faults>>

Resting == [at |-> "idle", now |-> 0, queue |-> {}]
Tables == [x \in {<<i.expr, i.zone>> : i \in Instances} |-> NextTable(x[1], x[2], Horizon)]
NextRuns == Tables[<<settings.expr, settings.zone>>]

Init ==
    /\ settings \in Instances
    /\ clock = 0
    /\ row = [exists |-> TRUE, enabled |-> TRUE, next |-> NextRuns[0]]
    /\ ledger = [t \in Times |-> "none"] /\ leader = None
    /\ node = [n \in Nodes |-> Resting]
    /\ lock = None
    /\ jobs = [t \in Times |-> 0] /\ enqueued = jobs /\ claims = jobs
    /\ edited = FALSE /\ excused = FALSE /\ overlap = FALSE /\ faults = 0

Fault == faults < settings.faults /\ faults' = faults + 1

-----------------------------------------------------------------------------
(* A tick *)

Due(now) == row.exists /\ row.enabled /\ row.next <= now

FaultyRecoverable == {t \in Times : row.exists /\ ledger[t] \in {"pending", "stale"}}

\* RecoverPending: rows past the grace whose schedule still exists.
Recoverable == {t \in Times : row.exists /\ ledger[t] = "stale"}

\* Prune: dispatched rows past the retention, which exceeds any skew.
Prunable(now) == {t \in Times : ledger[t] = "dispatched" /\ t + MaxSkew < now}

\* SET NX of the leader lock; the tick's now is read, on a clock that may be ahead.
Acquire(n, skew) ==
    /\ node[n].at = "idle" /\ leader = None
    /\ IF skew = 0 THEN UNCHANGED faults ELSE Fault
    /\ Due(clock + skew) \/ Recoverable # {}
    /\ leader' = n
    /\ node' = [node EXCEPT ![n] = [at |-> "plan", now |-> clock + skew, queue |-> {}]]
    /\ UNCHANGED <<settings, clock, row, ledger, lock, jobs, enqueued, claims, edited, excused, overlap>>

\* INSERT IGNORE: the instants that had no row.
Claimed(fires) == {t \in fires : ledger[t] = "none"}

Plan(n) == PlanFires(settings.policy, NextRuns, row.next, node[n].now, settings.grace,
                     settings.maxBackfill)

\* ClaimAndAdvance, one transaction: rows for the planned instants, the new
\* next_run_at, and the newly inserted instants for this tick to enqueue.
ClaimAndAdvance(n) ==
    /\ node[n].at = "plan"
    /\ IF Due(node[n].now)
       THEN LET new == Claimed(Plan(n).fires)
            IN /\ ledger' = [t \in Times |-> IF t \in new THEN "pending" ELSE ledger[t]]
               /\ claims' = [t \in Times |-> claims[t] + (IF t \in new THEN 1 ELSE 0)]
               /\ row' = [row EXCEPT !.next = Plan(n).next]
               /\ node' = [node EXCEPT ![n] = [@ EXCEPT !.at = "dispatch", !.queue = new]]
       ELSE /\ node' = [node EXCEPT ![n].at = "dispatch"]
            /\ UNCHANGED <<ledger, claims, row>>
    /\ UNCHANGED <<settings, clock, leader, lock, jobs, enqueued, edited, excused, overlap, faults>>

\* The commit fails, or is applied and reported failed: the tick enqueues nothing.
ClaimFails(n, landed) ==
    /\ node[n].at = "plan" /\ Due(node[n].now) /\ Fault
    /\ LET new == IF landed THEN Claimed(Plan(n).fires) ELSE {}
       IN /\ ledger' = [t \in Times |-> IF t \in new THEN "pending" ELSE ledger[t]]
          /\ claims' = [t \in Times |-> claims[t] + (IF t \in new THEN 1 ELSE 0)]
          /\ row' = IF landed THEN [row EXCEPT !.next = Plan(n).next] ELSE row
    /\ node' = [node EXCEPT ![n].at = "dispatch"]
    /\ UNCHANGED <<settings, clock, leader, lock, jobs, enqueued, edited, excused, overlap>>

\* The plan fails: a poison schedule is disabled.
DisablePoison(n) ==
    /\ node[n].at = "plan" /\ Due(node[n].now) /\ Fault
    /\ row' = [row EXCEPT !.enabled = FALSE] /\ edited' = TRUE
    /\ node' = [node EXCEPT ![n].at = "dispatch"]
    /\ UNCHANGED <<settings, clock, ledger, leader, lock, jobs, enqueued, claims, excused, overlap>>

Enqueuing(n) == node[n].at \in {"dispatch", "recover"} /\ node[n].queue # {}
Head(n) == Min(node[n].queue)
Sending(n) == [node EXCEPT ![n].at = IF @ = "dispatch" THEN "produce" ELSE "reproduce"]
Marking(n) == [node EXCEPT ![n].at = IF @ \in {"dispatch", "produce"} THEN "mark" ELSE "remark"]
Continue(n) ==
    node' = [node EXCEPT ![n] =
                [@ EXCEPT !.at = IF @ \in {"produce", "mark"} THEN "dispatch" ELSE "recover",
                          !.queue = @ \ {Head(n)}]]

\* EnqueueJob of the next fire: the uniqueness claim.  A duplicate is taken for done.
ClaimUniq(n) ==
    /\ Enqueuing(n)
    /\ IF settings.uniq /\ lock # None
       THEN node' = Marking(n) /\ UNCHANGED lock
       ELSE node' = Sending(n) /\ lock' = IF settings.uniq THEN Head(n) ELSE lock
    /\ UNCHANGED <<settings, clock, row, ledger, leader, jobs, enqueued, claims, edited, excused, overlap, faults>>

Producing(n) == node[n].at \in {"produce", "reproduce"}
Enqueued(t) ==
    /\ jobs' = [jobs EXCEPT ![t] = @ + 1]
    /\ enqueued' = [enqueued EXCEPT ![t] = @ + 1]

ProduceFire(n) ==
    /\ Producing(n)
    /\ Enqueued(Head(n))
    /\ node' = Marking(n)
    /\ UNCHANGED <<settings, clock, row, ledger, leader, lock, claims, edited, excused, overlap, faults>>

\* The produce fails (it may have landed): the lock is released, the row left pending.
ProduceFails(n, landed) ==
    /\ Producing(n) /\ Fault
    /\ IF landed THEN Enqueued(Head(n)) ELSE UNCHANGED <<jobs, enqueued>>
    /\ lock' = IF lock = Head(n) THEN None ELSE lock
    /\ Continue(n)
    /\ excused' = (excused \/ landed)
    /\ UNCHANGED <<settings, clock, row, ledger, leader, claims, edited, overlap>>

\* MarkDispatched; after its attempts fail the row is left pending.
Mark(n, fails) ==
    /\ node[n].at \in {"mark", "remark"}
    /\ IF fails THEN Fault ELSE UNCHANGED faults
    /\ ledger' = IF fails \/ ledger[Head(n)] = "none" THEN ledger
                 ELSE [ledger EXCEPT ![Head(n)] = "dispatched"]
    /\ Continue(n)
    /\ excused' = (excused \/ fails)
    /\ UNCHANGED <<settings, clock, row, leader, lock, jobs, enqueued, claims, edited, overlap>>

Held(t) == \E n \in Nodes : t \in node[n].queue

FaultyRecover(n) ==
    /\ node[n].at = "dispatch" /\ node[n].queue = {}
    /\ node' = [node EXCEPT ![n].at = "recover"]
    /\ UNCHANGED <<settings, clock, row, ledger, leader, lock, jobs, enqueued, claims, edited, excused, overlap, faults>>

\* The queue is empty: recover, after the dispatch; prune and release, after that.
Recover(n) ==
    /\ node[n].at = "dispatch" /\ node[n].queue = {}
    /\ node' = [node EXCEPT ![n] = [@ EXCEPT !.at = "recover", !.queue = Recoverable]]
    /\ overlap' = (overlap \/ \E m \in Nodes : node[m].at \in {"recover", "reproduce", "remark"}
                                           /\ node[m].queue \cap Recoverable # {})
    /\ UNCHANGED <<settings, clock, row, ledger, leader, lock, jobs, enqueued, claims, edited, excused, faults>>

PruneAndRelease(n, prune) ==
    /\ node[n].at = "recover" /\ node[n].queue = {}
    /\ prune => Prunable(node[n].now) # {}
    /\ ledger' = [t \in Times |-> IF prune /\ t \in Prunable(node[n].now) THEN "none"
                                  ELSE ledger[t]]
    /\ leader' = IF leader = n THEN None ELSE leader
    /\ node' = [node EXCEPT ![n] = Resting]
    /\ UNCHANGED <<settings, clock, row, lock, jobs, enqueued, claims, edited, excused, overlap, faults>>

-----------------------------------------------------------------------------
(* Around the ticks *)

\* A worker ends a copy of an instant's job; the lock is released by job id.
Finish(t) ==
    /\ jobs[t] > 0
    /\ jobs' = [jobs EXCEPT ![t] = @ - 1]
    /\ lock' = IF lock = t THEN None ELSE lock
    /\ UNCHANGED <<settings, clock, row, ledger, leader, node, enqueued, claims, edited, excused, overlap, faults>>

\* A node dies in a tick.
Crash(n) ==
    /\ node[n].at # "idle" /\ Fault
    /\ node' = [node EXCEPT ![n] = Resting] /\ excused' = TRUE
    /\ UNCHANGED <<settings, clock, row, ledger, leader, lock, jobs, enqueued, claims, edited, overlap>>

\* The leader lock's TTL runs out: after a crash, or under a tick that is still going.
LeaderExpires ==
    /\ leader # None
    /\ IF node[leader].at = "idle" THEN UNCHANGED faults ELSE Fault
    /\ leader' = None
    /\ UNCHANGED <<settings, clock, row, ledger, node, lock, jobs, enqueued, claims, edited, excused, overlap>>

\* A pending row outgrows the recovery grace, perhaps under a tick that holds it.
GrowStale(t) ==
    /\ ledger[t] = "pending"
    /\ ledger' = [ledger EXCEPT ![t] = "stale"]
    /\ IF Held(t) THEN Fault /\ excused' = TRUE ELSE UNCHANGED <<faults, excused>>
    /\ UNCHANGED <<settings, clock, row, leader, node, lock, jobs, enqueued, claims, edited, overlap>>

Advance ==
    /\ clock < settings.until
    /\ clock' = clock + 1
    /\ UNCHANGED <<settings, row, ledger, leader, node, lock, jobs, enqueued, claims, edited, excused, overlap, faults>>

\* The schedule is written: next_run_at is recomputed from the present.
Upsert ==
    /\ row.exists /\ Fault
    /\ row' = [row EXCEPT !.enabled = TRUE, !.next = NextRuns[clock]] /\ edited' = TRUE
    /\ UNCHANGED <<settings, clock, ledger, leader, node, lock, jobs, enqueued, claims, excused, overlap>>

SetEnabled(enabled) ==
    /\ row.exists /\ row.enabled # enabled /\ Fault
    /\ row' = [row EXCEPT !.enabled = enabled] /\ edited' = TRUE
    /\ UNCHANGED <<settings, clock, ledger, leader, node, lock, jobs, enqueued, claims, excused, overlap>>

Delete ==
    /\ row.exists /\ Fault
    /\ row' = [row EXCEPT !.exists = FALSE] /\ edited' = TRUE
    /\ UNCHANGED <<settings, clock, ledger, leader, node, lock, jobs, enqueued, claims, excused, overlap>>

Tick(n) ==
    \/ Acquire(n, 0) \/ ClaimAndAdvance(n) \/ ClaimUniq(n) \/ ProduceFire(n) \/ Mark(n, FALSE)
    \/ Recover(n) \/ \E prune \in BOOLEAN : PruneAndRelease(n, prune)

TickFault(n) ==
    \/ \E skew \in 1..MaxSkew : Acquire(n, skew)
    \/ \E landed \in BOOLEAN : ClaimFails(n, landed) \/ ProduceFails(n, landed)
    \/ DisablePoison(n) \/ Mark(n, TRUE) \/ Crash(n)

Progress ==
    \/ \E n \in Nodes : Tick(n)
    \/ LeaderExpires \/ Advance
    \/ \E t \in Times : Finish(t) \/ (~Held(t) /\ GrowStale(t))

NextStep ==
    \/ Progress
    \/ \E n \in Nodes : TickFault(n)
    \/ \E t \in Times : Held(t) /\ GrowStale(t)
    \/ Upsert \/ Delete \/ \E enabled \in BOOLEAN : SetEnabled(enabled)

Spec == Init /\ [][NextStep]_vars
Fairness == WF_vars(Progress)
FairSpec == Spec /\ Fairness

-----------------------------------------------------------------------------
(* Properties *)

TypeOK ==
    /\ settings \in Settings /\ clock \in Times
    /\ row.next \in Nat /\ ledger \in [Times -> Statuses]
    /\ leader \in Nodes \cup {None} /\ lock \in Times \cup {None}
    /\ \A t \in Times : {jobs[t], enqueued[t], claims[t]} \subseteq Nat
    /\ \A n \in Nodes : node[n].queue \subseteq Times

\* The scan for the next instant, with its jumps over months, days and hours, ends at
\* the first instant that matches, in zones whose clocks change too (Expr.Next).  The
\* exception is an expression that restricts days or months in a zone that skips a
\* midnight: a jump from that day keeps its shifted clock and passes the hours before it.
NextIsFirst ==
    \/ SkipsMidnight(settings.zone) /\ ~EveryDay(settings.expr)
    \/ NextRuns[clock] = First(settings.expr, settings.zone, clock)

\* Only instants of the expression fire, and with the backfill policy every one before
\* next_run_at has its row, through caps, outages and crashes, as long as the schedule
\* is not edited (PlanFires, ClaimAndAdvance).
FiresAreExact ==
    \A t \in Times :
        LET matches == Matches(settings.expr, Wall(settings.zone, t))
        IN /\ claims[t] > 0 => matches
           /\ settings.policy = "backfill" /\ ~edited /\ 0 < t /\ t < row.next /\ matches
                => claims[t] = 1

\* A split brain does not dispatch twice: unless a node dies or stalls past the recovery
\* grace, or an enqueue is not recorded, or two recoveries overlap, each instant is
\* enqueued at most once, whatever the leader lock, clock skew and edits do (INSERT
\* IGNORE; RecoverPending's grace).
DispatchedOnce == ~excused /\ ~overlap => \A t \in Times : enqueued[t] <= 1

\* Every claimed fire is marked dispatched in the end, while its schedule exists
\* (recover; the fairness is that some node ticks).
EventuallyDispatched ==
    <>[](\A t \in Times : ledger[t] \in {"pending", "stale"} => ~row.exists)

====
