# kafka-batch-go in TLA+

A verification project for kafka-batch-go (`src/`): a client library that pushes
jobs, alone or in batches, a control daemon that counts completions, dispatches
callbacks and runs schedules, and execution workers, all talking through Kafka
topics and Redis. The code gets its guarantees from three mechanisms: Redis Lua
scripts (atomic), Kafka consumer groups (at-least-once delivery, commits that are
high-water marks) and periodic sweeps that repair what a crash left behind. Each
module takes one of them, or one meeting point of several, and every operator and
action is translated from the Go and Lua source named in `PROJECT.json` ("map").

## The system and its parts

| part | source | state | operations | modules |
|---|---|---|---|---|
| batch ledger | `pkg/store` | per batch: a hash (status, total, counters, callback stamps), three bitmaps (touched, ok, failed), a seq allocator, index sets, `kafka_batch:counts` | create, add jobs, seal, completion event, cancel, claim, invoke marker, mark finished, expiry | `BatchScripts`, `BatchLedger` |
| client | `pkg/client`, `pkg/uniq` | a batch handle, uniqueness locks | create, push (claim, reserve, produce, index, roll back), seal, produce the callback of a seal | `BatchLedger`, `BatchCallbacks`, `ClientPush` |
| event processor, callback consumer, reconciler | `pkg/control/event`, `pkg/control/callback`, `pkg/reconciler` | one poll of events, one message | apply scripts, find replays, produce or dead-letter callbacks; claim, invoke; finish stuck batches | `BatchCallbacks` |
| super fetch executor, working set | `pkg/daemon/superfetch.go`, `pkg/workset` | per job: payload with lease, index entry, fence, reclaim markers; per consumer: heartbeat, claims in flight | claim, perform, renew, complete, list orphans, reclaim, finish | `SuperFetch`, `WorksetLease` |
| group consumers | `pkg/daemon` consumers, partition engine, watermark, killswitch | cursors, marks, pauses, trackers | poll, dispatch, mark, pause, defer, rebalance | `GroupConsumer`, `Delivery` |
| job and retry processors | `pkg/control/job`, `pkg/control/retry`, `pkg/daemon/produce.go` | records, outputs | check, take the fair slot, run, emit the event, retry, dead-letter | `JobLifecycle` |
| fair lanes | `pkg/fairness` | ready lists, ring of virtual times, leases, forwarding buffer | enqueue, checkout, forward, confirm, abort, complete, reclaim | `FairLane` |
| scheduled jobs | `pkg/schedule` | index of delayed jobs | claim due, read, produce, park, ack, reclaim | `ScheduleIndex` |
| cron | `pkg/cron` | schedule rows, fire ledger, leader lock | tick, plan, claim, enqueue, recover, prune, edit | `CronExpr`, `CronTicker`, `CronScan` |
| alerts, failures, health, config | others | rules, records, settings | reporting and parsing | none |

A job's life crosses most of them: the client claims its uniqueness lock, reserves
a seq in its batch and produces it, at once or through the schedule index; a fair
lane holds it until its tenant's turn; a worker claims it into the working set, lets
Kafka forget it, runs it and emits an event, a retry or a dead letter; the event
processor applies the event's script, which may hand out the right to dispatch a
callback; the callback message is consumed at least once and invoked at most once;
the reconciler looks for batches on which this failed.

What is hard here is at the seams: a script's answer is acted on after the script;
marks of a partition cover everything below them; a lease, a heartbeat and a sweep
run on clocks of their own; a call may fail and still take effect; keys of one batch
expire separately. `PROJECT.json` lists these places, with their lines, as hazards.

## Modules

`BatchScripts` has the Lua scripts as operators on one batch's keys. Redis runs a
script atomically, so each is one step wherever it is used. Bitmaps are sets of
seqs, stamps are members of `claims` and `invoked`, deadlines are numbers per key.

`BatchLedger` is one batch under all its writers: `Create`/`Index` (the two round
trips of `CreateBatch`), `Reserve`, `Produce`, `RollBack` (`PushJob` and its error
path, with a produce that failed although the message is durable), `Seal`,
`Event` (any op of any produced job, any number of times), `Cancel`, and `Tick`,
which expires keys at their own deadlines. `grants`, `ran`, `succeeded`,
`scrubbed` and `lapsed` are history variables.

`BatchCallbacks` splits the same scripts over processes: the client (`Sl*`, push),
the event processor (`Ep*`: poll, apply, replay, produce, dead-letter, commit,
fail), the callback consumer (`Cc*`) and the reconciler (`Rc*`). Each script, read
and produce is a step, so a crash or a failed call can fall between any two.

`SuperFetch` follows one job: its Kafka records, its entry in the working set, the
consumers that claim and perform it, heartbeats, and sweepers that re-produce it,
one step per Redis round trip. `WorksetLease` is the same entry on a clock: the
phases of the renew loop, the heartbeat loop and the sweep, with the code's
formulas for their periods.

`GroupConsumer` is one member of a consumer group and one partition, with any of
the four executors (`mode`): the serial loop of `runConsumerLoop` and
`processRetryRecords`, the super fetch executor, the watermark executor and the
partition engine. Actions are the poll loop (`Poll`, `Collect`, then the
executor's steps), the goroutines beside it (`Perform`, `WorkerTake`,
`WorkerDone`, `TimerFires`, `AutoCommit`), the killswitch of a topic or of a single
partition (`killed`, with the two pauses `partPaused` and `fetchPaused` it shares
with deferrals and the engine's full channel) and the group (`Assign`, `Revoke`,
`Evict`, `Elsewhere`, `Crash`). The Kafka client is external and modelled by how the
code uses it: a high-water mark per partition, ignored for a partition the member
does not hold; commits of marks by a timer and on revoke; `SetOffsets`. `forsaken`
is a history variable of the four places where the code lets later marks pass a
record it has not handled. `Delivery` is the abstract specification all four
executors are to implement: records are handled at least once before the
committed offset passes them.

`JobLifecycle` is one job from its topic to its end: each check of the job
processor, the fair slot and its three ways to be refused, the handler, the outcome
and each of its productions, the commit, and the retry consumer. A topic says how many
there are of each record: a record comes back after a crash or a failed produce, as a
copy behind its slot's holder, or as a retry. The uniqueness lock is freed by an outcome, unless the
release fails (its error is discarded), and by its TTL (`LockEnds`). `past` collects the
history its properties need.

`FairLane` is one lane: the dispatcher, forwarders at one script or produce at a
time, workers reduced to renewing and completing slots, and the sweeps for stale
forwards and expired leases. Both lanes (time and throughput) are its instances, with
weights, caps and a budget. Scores are whole numbers of `1/Unit`.

`ScheduleIndex` is the index of delayed jobs in either store with the pollers that
drain it; `ClientPush` extends it with the push calls that write it. Every push
operation of the client is a call with its jobs: claim, reserve, produce chunk by
chunk, index, release what did not go out.

`CronExpr` has the scan for the next instant and the misfire policies as functions on
a small calendar whose units are constants, with zones whose clocks change.
`CronTicker` has the nodes: leader lock, plan and claim in one transaction, enqueue
and mark for each fire, recovery, pruning, edits of the schedule. `CronScan` has the
loop of `Expr.Next` one iteration a step.

`MC...` modules hold the instances for TLC. `BatchLedgerProofs`,
`BatchCallbacksProofs`, `SuperFetchProofs` (with the theorems of `WorksetLease`),
`GroupConsumerProofs`, `JobLifecycleProofs`, `FairLaneProofs`, `FairTurnProofs` and
`ClientPushProofs` hold the theorems. Definitions named `Faulty...` are deliberate mistakes that show that a
property can fail; no specification uses them.

How the modules compose: `BatchLedger` and `BatchCallbacks` both extend
`BatchScripts`, so that what is proved of a script's effect holds wherever the
script is a step. `ClientPush` and `ScheduleIndex` are one system, checked together;
so are `CronExpr` and `CronTicker`. `GroupConsumer`'s `Claim` is `SuperFetch`'s
`Dispatch` seen from the partition; `SuperFetch`'s `Redeliver` is what `Rewind`,
`Revoke` and `Crash` of `GroupConsumer` cause seen from the job. `JobLifecycle` takes
from both executors only what they give back, a redelivered record; what it does with
a slot is one `Start` and `Finish` of `FairLane`. `WorksetLease` has the timing
that `SuperFetch` leaves out: when a renewed lease, or a dead consumer's, runs out
(`LeaseLost`). A lease nobody renews runs out in `SuperFetch` itself (`LeaseEnds`).

## Runs

Passing runs, with the instance each one uses:

| run | module, cfg | instance | what it shows |
|---|---|---|---|
| `ledger` | `BatchLedger`, `MCLedger` | 3 seqs, pushes of 1 or 2 that may fail and roll back, events of all three ops any number of times; with 2 seqs also 3 ticks against TTLs of 2 and 1 | counters equal the bitmaps (`CountersExact`) and never fall behind them (`NeverUndercounts`); each callback is granted once (`GrantOnce`), success only when all jobs succeeded or were lost to a seal's bit (`SuccessMeansDone`), complete only when all were touched (`CompleteMeansTouched`); terminal statuses are final (`TerminalIsFinal`); `kafka_batch:counts` and the indexes follow the status (`CountsMatch`); no seq is handed out twice while the allocator lives (`AllocatorAhead`) |
| `callbacks` | `BatchCallbacks`, `MCCallbacks` | 2 jobs, one of which may fail or be redelivered, polls of 2, one fault (crash, failed call, redelivery, cancel) anywhere | every stamped claim is on its way, has run, is parked, or was lost in a named way (`ClaimsAnswered`); a callback runs once (`RunsOnce`); every sealed batch whose jobs end, well or badly, is called back, but for the named losses (`CalledBack`) |
| `superfetch` | `SuperFetch`, `MCSuperFetch` | 2 consumers, 1 sweeper, 4 generations and records, any 2 faults of all eleven kinds, lost answers to claims and lost leases among them | until a lease runs out Redis owns the job before Kafka forgets it (`RedisOwns`); a running owner is at work (`OwnerWorks`); one performer (`OnePerformer`); a job that stays owned is applied (`EventuallyApplied`) |
| `consumer` | `GroupConsumer`, `MCConsumer` | 4 records, polls of 1 or 2, a window of 2, a channel of 1, any 2 faults, all four executors | nothing stays behind the cursor (`NothingStranded`), no slot leaks (`SlotsBalanced`), the consumer implements `Delivery` (`AtLeastOnce`), the partition drains unless it was revoked while paused (`Drains`) |
| `job` | `MCJobLifecycle`, `MCJob` | 15 kinds of uniq job: in a batch or not, fair or not, both execution modes; with a deadline, a cancelled batch, an unknown handler, an operator's cancel or skip; 2 workers, 1 or 2 faults | the end of a job is durable when its last record goes (`NothingVanishes`); within its TTL its lock is held until it ends, and free afterwards unless the release failed or the retry consumer ended it (`LockFollowsJob`); a record does not run beside its slot's holder (`HolderAlone`); attempts are bounded (`RetryBudget`); every job ends (`EventuallyEnds`) |
| `fair` | `MCFairLane`, `MCFair` | 2 tenants of weights 2 and 1, 2 forwarders, 3 slots; 3 jobs against a budget of 2 without faults; 2 jobs under a budget or a cap of 1 with one fault; one job with two faults in each lane | no job is lost between list, buffer and topic (`NothingLost`); budget and caps hold (`BudgetRespected`); a newcomer is passed over by fewer checkouts than there are tenants (`NoMonopoly`); a stale forward is reclaimed by one forwarder while the claim key lasts (`ReclaimedOnce`); every job of the throughput lane is forwarded (`EventuallyForwarded`) |
| `push` | `MCClientPush`, `MCPush` | 2 calls of up to 2 jobs, of every operation of the client, sharing fingerprints, 2 pollers, both stores, chunks of 1 or 2, 1 to 3 faults | pushed jobs are accounted for (`PushedAccounted`); duplicates are never live together (`UniqueLive`); the batch's total covers its jobs and is exact in the end (`TotalCovers`); locks follow jobs (`LocksFollowJobs`); the index drains (`IndexDrains`) |
| `cron` | `MCCronTicker`, `MCCron` | 2 nodes, hours of 2 minutes, days of 3 hours, a clock skew of 1, 5 settings with each policy and up to 2 faults; 128 more expressions and zones for the scan, one of them a zone whose clocks skip a midnight | the scan ends at the first match, but for expressions with days in that zone (`NextIsFirst`); only instants of the expression fire and backfill skips none (`FiresAreExact`); each is enqueued once unless two recoveries overlap or a node died before its mark (`DispatchedOnce`); claimed fires are dispatched (`EventuallyDispatched`) |

Runs that find a disagreement between the code and what the repository says of it:

| run | property | behaviour |
|---|---|---|
| `seal_fires` | `SealFires` | an empty batch is sealed (the same happens when all jobs finished before): the seal stamps both claims and produces the callback without `preclaimed`; the consumer loses the claim and skips |
| `double_load` | `LoadedOnce` | two sweepers list one orphan; the first re-produces and finishes it, and its marker goes with the entry; the second then wins the lock and re-produces it again, though "two reconcilers do not double-push" (`workset/store.go:578`) |
| `lease` | `NeverLost` | with the defaults the lease is raised to 280 s and renewed every 93.3 s; a consumer that dies just before a renewal leaves 186.7 s, the heartbeat takes 180 s to lapse and the sweep comes up to 30 s later: the payload is gone, though the floor was to make that impossible (`daemon/superfetch.go:74-80`) |
| `cron_scan` | `ScanAdvances` | at the second occurrence of an hour repeated when clocks go back, in a zone west of UTC, a mismatch of the hour moves the candidate to where it was: the scan does not end, though `cron/parser.go:190-192` says that it "advances to the next valid instant" |

### Why the bounds are enough

The interesting cases need few actors. A seal's bit falls on a live job with two
seqs and one roll-back; three seqs leave one more outstanding. Two jobs are the
least for which one poll carries the events that finish a batch and another that
does not; one fault cuts any step off from the next (with two the run outgrows its
time). A re-claimed entry, a stale sweep and a late consumer need two consumers, one
sweeper and three generations; a second sweeper is needed for `double_load` alone, and
the theorems have any number. The clock of `lease` counts in units of 10/3 s, which
divide the default lease and its renewal interval. For `GroupConsumer`, a gap, a
completion behind it, a record in hand and one not yet polled need four offsets; two
faults allow a failure followed by a rebalance or a crash. A job's records never meet those of
another job, and two workers are enough for a holder and a late copy. Shares between
tenants need two tenants with a choice of order, and a reclaim race two forwarders.
Two calls and two jobs of one fingerprint are the least for a lock to change hands;
overlapping leases need two pollers. A split brain needs two nodes. The calendar is
small so that a scan crosses hours, days, months, years and a clock change within a
few dozen minutes.

Bounds on counters (`MaxFaults`, `settings.faults`, `MaxFence`, `MaxRecords`,
`MaxTime`, `MaxSeq`, `MaxPoll`, `MaxSlots`, `MaxRuns`, `Horizon`) are guards of the
actions that count. In the ledger the clock only runs while at most `TimedSeqs` seqs
are out, which keeps expiry and the third seq from multiplying.

Deadlock is checked in `callbacks` and `consumer`, which always have a next poll or
sweep. In the other runs there are places where nothing is left to do: a finished
batch, an applied job, a drained lane or index, the end of the clock.

### Fairness

`CalledBack` assumes weak fairness of the client's push and seal, of the workers,
of the event processor, the callback consumer and the reconciler as whole loops,
never of a single error path. Of a job it assumes only that it ends, with success or
failure (`JobEnds`): none is assumed to succeed. Consumers of a group are supervised and
restarted (`runConsumerSupervised` and its siblings), and the reconciler runs on a ticker.
`EventuallyApplied` assumes that a running consumer keeps working, that sweepers
tick, that a dead consumer's heartbeat lapses, entries age and unrenewed leases and
locks run out (time passes).
`Drains` assumes that the poll loop, workers, timers and commits run, that the
broker assigns the partition and that an evicted member learns of it; the
killswitch is assumed off infinitely often. `EventuallyForwarded`, `IndexDrains`,
`EventuallyDispatched` and `EventuallyEnds` each assume weak fairness of one
disjunction, `Progress`: the system as a whole does not stop while some loop of it
(forwarders, pollers, ticks, workers, the passage of time) has a step to take; which
loop takes it is left open. `EventuallyForwarded` assumes besides that the claim key of
a reclaim expires (it has a TTL). Every such loop is a ticker or a supervised consumer.
Faults are never fair and are bounded, so all of these say what happens once faults
stop.

## Proofs

All theorems hold for every value of the constants that the modules' named
assumptions admit (positive TTLs, numbers for bounds, `NoOwner` no consumer, jobs that
are not shared by two calls). Each has an inductive invariant. TLC checked those it can
evaluate on the instance of the run before they were proved; the ones that count over
sets TLC cannot enumerate (`CostInv` and what rests on it) were checked only through the
properties they imply. Most leaves without arithmetic name Zenon, which settles them at once;
the others go to the SMT solver.

- `BatchLedgerProofs`: `TypeCorrect`, `CountsCorrect`, `TerminalStays`, `GrantedOnce`,
  `CountersCorrect`, `SuccessIsEarned`, `CompleteIsEarned`, `AllocatorStaysAhead` and
  `CountersStayAhead`, for every number of jobs, push size and retention. `CountsMatch`
  (the status counts hold exactly one unit, at the batch's status, and the index sets
  agree) is not inductive: `CreateBatch` writes the hash and, in a second round trip,
  the indexes, and a transition in between would move a unit that is not there.
  `CountsInv` adds that a batch that is not indexed yet is untouched. Each script has an
  effect lemma (what `Counted`, `Settled`, `BatchDoneJob`, `Locked`, `SealBatch`,
  `Expire` do to status, counts, claims and bitmaps); the step proofs only use those.
  The claims compare two counters, so none of the callback properties is inductive
  alone. `DoneInv` connects the counters to jobs: a bit is that of a job whose event was
  delivered (`BitsInv`); no seq is out twice while the allocator's key lives
  (`FreshInv`); what was granted is what is claimed, and success implies complete implies
  any (`GrantsInv`); `total` covers the jobs that are out, but for those whose roll-back
  was mistaken (`TotalInv`). When `touched_count` or `completed_count` reaches `total`,
  the outstanding jobs are then, while the bitmaps are intact, at most the mistaken
  roll-backs (`FewOutstanding`, `DueMeansDone`).
- `BatchCallbacksProofs`: `InvokedOnce` (`RunsOnce`) and `StampsAnswered`
  (`ClaimsAnswered`), for every number of jobs, poll size and number of faults.
  `CallbackInv` follows the right to run a callback from process to process: a kind has
  run, or is about to, as often as its marker was set or failed open (`Bounded`); until
  the reconciler finishes the batch, what is on the road was granted by a script, and
  complete runs under one marker (`GrantInv`); a preclaimed message is stamped, and has
  run if its marker is set (`StampInv`); and every stamp is answered by a run, a parked
  message, a carrier, or a named loss (`AnswerInv`). The steps of the four processes fall into six kinds (carry on, grant,
  take, pass the marker, release, quiet), each with one lemma.
- `SuperFetchProofs`: `SuperFetchTypeCorrect`, `RedisAlwaysOwns`, `OneAtATime` and
  `OwnerAlwaysWorks`, for any number of consumers and sweepers and every kind of fault.
  The exemptions are in the properties: a lease that ran out on an entry nobody renews
  (`expired`), a heartbeat or a lease that lapsed on a consumer that kept it (`late`), a
  claim whose answer was lost (`unanswered`). `OwnershipInv` relates, until something is
  `late`, the entry to the fence counter, each performer to the entry, and each sweeper
  in flight, as well as the produced marker, to a generation whose owner is gone and
  which, from the mark on, is backed: applied, or in Kafka again, or superseded by a
  newer generation, or of a job whose lease ran out. The third is why a slow sweeper may
  finish long after somebody else claimed the job. Of `WorksetLease` it proves
  `LeaseTypeCorrect` and `LeaseLostOnlyLate`: for every setting of the timers a running
  consumer's lease is renewed in time, and a dead one's job is lost only if less of the
  lease was left at its death than `Detection`, the larger of heartbeat TTL and grace
  plus one sweep interval. The `lease` run shows that this happens with the defaults.
- `GroupConsumerProofs`: `ConsumerStrandsNothing`, `ConsumerDelivers` (each step is a
  step of `Delivery` or leaves its variables alone) and `ConsumerSlotsBalance`, for every
  partition length, poll size, window, channel and number of faults, and each executor.
  That the committed offset passes only settled records (handled or forsaken) depends on
  everything that may become a mark: `DeliveryInv` says of the mark not yet committed, of
  the record in the loop's hand, of the watermark tracker's expected offset and of the
  engine worker's batch that all records below are settled, and of records behind the
  cursor that they are settled or in hand (`NothingStranded`). The engine needs besides
  that its batches are in order, and that one waits outside the channel only while the
  partition is paused.
- `JobLifecycleProofs`: `JobTypeCorrect`, `HolderStaysAlone`, `NothingEverVanishes`,
  `BudgetHolds` and `LockAlwaysFollows`, for every number of workers, retries and faults.
  `EndInv` says that the end is durable or there is a record, on a topic or in a hand,
  that leads to it (`Token`); `HolderInv` that a holder has its lease and nobody else is
  in the slot. `RetryBudget` needs counting: every record is charged the attempts that
  are left to it, a run pays one, a retry is charged less than the run it follows, and a
  copy brings a budget of its own (`CostInv`, summed over topics and hands). The same
  account with every record charged one shows that a job without copies has one record
  at a time, on which the part of `LockInv` about records that may still run rests; the
  part about a job that has not ended holds with copies too.
- `FairLaneProofs`: `NothingIsLost` and `BudgetIsRespected`; `FairTurnProofs`:
  `NewcomersServed` and `ReclaimedOnlyOnce`; for every number of tenants, forwarders and
  jobs, every weight, cap and budget. `BaseInv` has the shape of lists, ring and slots:
  which tenants are in the ring, that slots are handed out in order. Every step either
  hands out no slot (`Calm`) or serves one tenant (`Served`), and the four invariants use
  little more: leases are added below the limits (`BudgetInv`); a job is in its list, in
  the buffer, in the topic or in a hand that knows where it is (`LostInv`); a newcomer
  has nothing in flight, no tenant of the ring is before its time, and each checkout that
  passes it over puts one more tenant ahead of it (`WaitInv`); a reclaim is made under
  the claim key, or the key expired under somebody who has the slot on its list
  (`ReclaimInv`).
- `ClientPushProofs`: `ReportedStays` (`PushedAccounted`), `LockedOnce` (`UniqueLive`),
  `NoLockLeft` (`LocksFollowJobs`) and `TotalExact` (`TotalCovers`), for every set of calls
  and pollers, chunk size and number of faults. `ClientInv` says where each job of a call
  is while the call claims, reserves, produces, indexes or rolls back, that a job is in
  the index of one store at most, and that a lock is held by the job that claimed it.
  `TotalInv` counts: the total is that of the jobs reserved and not rolled back, and each
  step changes both alike (`CountStep`).

Only model-checked:

- the cron modules (`NextIsFirst`, `FiresAreExact`, `DispatchedOnce`). The scan and the
  misfire policies are recursive functions, and all three properties need what they
  return for every expression, which takes an induction over data; `DispatchedOnce` too,
  because a pruned row is not claimed again only if no plan goes back behind
  `next_run_at`;
- everything temporal (`CalledBack`, `EventuallyApplied`, `Drains`,
  `EventuallyForwarded`, `IndexDrains`, `EventuallyDispatched`, `EventuallyEnds`): liveness
  under fairness is outside the prover's reach. The refinement of `Delivery` is a safety
  property, and is proved.

## Known limits of the code that the properties step around

Each of these is visible in the models: an exemption in a property, or a history
variable, names it.

Batches and callbacks:

- After a rolled-back push the seal's bit (offset `total`, `store/lua.go:263`) is that
  of a live job: its completion is cleared, a redelivered event is counted again, and
  the batch may succeed with a job outstanding (`Intact` in `SuccessMeansDone`).
- After the allocator key expired on its own, seqs are handed out again
  (`lapsed` in `AllocatorAhead`).
- A second seal of a finished batch re-creates expired bitmaps and late events are
  counted again; the runs seal once.
- When the read after the scripts fails (`store/redis.go:223`) the claims are stamped
  and the redelivered events are duplicates: the callback is not produced (`dropped`
  in `ClaimsAnswered` and `CalledBack`).
- A reconciler that marks a batch and dies before it produces the callback leaves it to
  the next sweep; if a late event has claimed on_complete by then, the sweep prunes the
  batch from its index and on_success never runs (`RcLost`, `dropped` in `CalledBack`).
- The reconciler finishes a batch on counters it read earlier and claims success
  only: a late event may still claim complete and run it again (`RunsOnce`).
- A consumer that dies between the invoke marker and the callback drops it
  (`dropped` in `CalledBack`); the code documents this.

Execution:

- The `lease` and `double_load` runs, above.
- A claim that landed although the call failed is not renewed, because only a claim
  known to be won is (`daemon/superfetch.go:413`). The comment at
  `daemon/superfetch.go:388-391` counts on redelivery to resume it "by fence", but the
  record may go to another consumer, which is told that the job is held and acks it as a
  duplicate: the lease runs out and the job is lost (`expired` in `RedisOwns`,
  `unanswered` in `OwnerWorks`).
- A stalled owner performs beside its successor (`late` in `OnePerformer`).
- `forsaken`: a batch whose handler failed in the partition engine
  (`partition_engine.go:317`); a rebalance that aborts a dispatch before the watermark
  tracker is seeded (`watermark.go:172`); a killswitch released in the middle of a
  poll's records; a deferred record whose partition is fetched again because a
  partition-level killswitch was released. Later marks pass these records.
- A killswitch on one partition of a topic pauses the fetch of the partition alone, but
  one on partition 0 is taken for the topic's (`consumption_fetch_pause.go:27`).
- The watermark tracker survives a revoke; if another member committed past its
  expected offset meanwhile, its window stays blocked until a restart (`Drains`
  leaves the watermark executor out).
- A partition revoked while its fetch is paused (deferred, or behind a full channel)
  comes back paused. `retry_fetch_pause.go:202` says that the client clears the pause of
  a revoked partition, `partition_engine.go:434-436` leaves it paused on purpose, and
  nothing resumes it but a new client (`unresumed` in `Drains`).

Jobs, locks and lanes:

- The uniqueness lock is released before the outcome is durable: after a crash in
  between, or when one of several copies has ended the job, the others run without it
  (`past.copies` in `LockFollowsJob`). An error of the release is discarded
  (`job/processor.go:334`, `daemon/expired.go:89`) and the lock stays to its TTL
  (`past.kept`). The TTL is not renewed, so a job that takes longer loses its lock
  (`past.lockEnded`). Jobs the retry consumer ends, and jobs the pollers drop or park,
  keep theirs until its TTL, as do the jobs a bulk push had claimed when a duplicate
  makes it fail under `raise`.
- The acknowledgement of an operator's cancel removes it before the outcome is committed
  (`job/processor.go:87`): a crash in between forgets the cancel.
- Under watermark execution a redelivered fair job that finds its dead holder's key is
  dropped, unless it is an uncounted job of a batch (`job/processor.go:198`;
  `past.dropped` in `NothingVanishes`).
- `AbortForwardLuaTime` leaves the tenant out of the ring: its job waits until another
  one of the tenant is enqueued (`EventuallyForwarded` is stated for the other lane).
- The claim key of a reclaim lasts 30 s, while a forwarder works through its list of
  stale forwards one by one (`fairness/forwarder.go:206-221`) and does not look at the
  buffer again after it has won the key (`fairness/scheduler.go:308-319`): one that comes
  to an entry late produces it a second time (`overtaken` in `ReclaimedOnce`).
- A reclaimed forward re-creates the lease of its slot even if the slot has completed
  (`rearmed` in `BudgetRespected`); a slot that waits in the ready topic longer than its
  lease starts without one.
- An index write or a produce that took effect and was reported failed leaves a job
  that runs although it was rolled back (`doubt`).

Cron:

- Two nodes that recover the same stale row at a time both enqueue it (`overlap` in
  `DispatchedOnce`), though `cron/lock.go:24-27` calls a split brain harmless and
  `cron/parser.go:9-11` says that a lock flap "can never double-enqueue a fire instant".
- Where clocks skip a midnight, time.Date gives an instant an hour off, and AddDate
  (`cron/parser.go:205,209`) keeps that: east of UTC the next day starts at 01:00 and its
  first hour is passed over (`NextIsFirst` excepts expressions with days or months in
  such a zone); west of UTC the jump gives the day before and the scan stands still, as
  in `cron_scan`.
- A fire skipped as a duplicate is marked dispatched; an edit drops the instant that was due; pending rows of a deleted schedule
  stay; the scan that finds no match within its years fires off-schedule.

## Not modelled

- Alerts: thresholds on sampled measurements, which no other part reads.
- Priority gating: which topic yields to which is a comparison of measured lags;
  `GroupConsumer`'s empty polls already allow a topic to go unfetched for any time.
- Several partitions that share one watermark window, more than 100 orphans in one
  sweep, several batches at once (they meet only in `kafka_batch:counts`), the routing of
  tenants to partitions and the cached list of active tenants.
- The reconciler's recount of the status counts and its lock; the merge of the Redis
  and MySQL killswitch snapshots (the switch may flip at any step).
- Payloads that do not parse, the text syntax of cron expressions, message formats,
  configuration, metrics, health endpoints and failure records: no decision that a
  property is about depends on them.

`PROJECT.json` lists every part with its status.
