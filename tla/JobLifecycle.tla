---------------------------- MODULE JobLifecycle ----------------------------
(***************************************************************************)
(* A job from its topic to its end: the job processor's checks, the fair   *)
(* slot, the handler, the outcome and its side effects, and the retry      *)
(* consumer.  Jobs are independent, so one is modelled; what is many is    *)
(* its records, since a record comes back after a crash or a failed        *)
(* produce, as a copy under its holder, or as a retry.                     *)
(*                                                                         *)
(* The executors (SuperFetch, GroupConsumer) are reduced to what they give *)
(* back: a record that was not committed is redelivered, by watermark      *)
(* execution as it was and by SuperFetch with the reclaim mark.  Delays    *)
(* are left out: a retry is due at any time.  Definitions named Faulty...  *)
(* are deliberate mistakes: no specification uses them.                    *)
(***************************************************************************)
EXTENDS Integers, FiniteSets

CONSTANTS
    Workers,
    MaxRuns,     \* bound: where the count of runs stops
    Instances    \* the kinds of job and the number of faults looked at

\* A job of a batch or not, on a fair lane or not, uniq or not, of a handler this
\* worker has or not, with a deadline or not; its retries; the execution mode; what
\* the operator does to its retries; whether its batch is cancelled.
Settings ==
    [batch : BOOLEAN, fair : BOOLEAN, uniq : BOOLEAN, handler : BOOLEAN, expires : BOOLEAN,
     maxRetries : Nat, mode : {"superfetch", "watermark"}, operator : {"none", "cancel", "skip"},
     cancels : BOOLEAN, faults : Nat]

ASSUME JobLifecycleAssumption == MaxRuns \in Nat /\ Instances \subseteq Settings

\* A job message: the attempt, batch_counted, whether it carries a fair slot, the
\* reclaim mark, whether it was deferred behind a slot's holder, and whether its
\* offset is under the operator's skip watermark.
Records == [attempt : Nat, counted : BOOLEAN, slot : BOOLEAN, reclaim : BOOLEAN,
            deferred : BOOLEAN, skip : BOOLEAN]

\* What an outcome publishes: a completion event, the job on its retry topic, the job
\* on the dead-letter topic.
Events == {"executed", "success", "failed"}
Outputs == Events \cup {"retry", "dlt"}

VARIABLES
    settings,
    jobs, retries,   \* the records of the job topic and of the retry topic
    hand,            \* what each worker is doing
    retrier,         \* the record whose outcome the retry consumer has yet to commit
    lock,            \* the uniqueness lock is held
    dedup, lease,    \* the slot's execution key; its lease
    durable,         \* what is on the events topic and the dead-letter topic
    recorded,        \* the batch's bitmap has the job's bit
    batchCancelled, known,   \* the batch is cancelled; this process's cache has it
    cancelSet,       \* the job id is in the operator's cancel set
    expired,
    past             \* history, see Init

vars == <<settings, jobs, retries, hand, retrier, lock, dedup, lease, durable, recorded,
          batchCancelled, known, cancelSet, expired, past>>
redis == <<lock, dedup, lease, cancelSet>>
around == <<settings, recorded, batchCancelled, known, expired>>

\* A topic: how many there are of each record it holds.
NoRecords == [r \in {} |-> 0]
With(topic, r) ==
    [s \in DOMAIN topic \cup {r} |->
        IF s \notin DOMAIN topic THEN 1 ELSE IF s = r THEN topic[s] + 1 ELSE topic[s]]
Without(topic, r) ==
    [s \in {t \in DOMAIN topic : t # r \/ topic[t] > 1} |->
        IF s = r THEN topic[s] - 1 ELSE topic[s]]

None == [at |-> "none"]
Idle == [at |-> "idle"]
First == [attempt |-> 0, counted |-> FALSE, slot |-> settings.fair, reclaim |-> FALSE,
          deferred |-> FALSE, skip |-> FALSE]

\* past: the runs of the handler; the copies of a record made by redelivery; how the
\* job ended; whether a copy was dropped as a duplicate by watermark execution, whether
\* a slot's holder had no lease or was not alone, whether the job ended in the retry consumer,
\* whether a release of the lock failed or its TTL ran out, whether the operator acted.
Init ==
    /\ settings \in Instances
    /\ jobs = With(NoRecords, First) /\ retries = NoRecords
    /\ hand = [w \in Workers |-> Idle] /\ retrier = None
    /\ lock = settings.uniq /\ dedup = FALSE /\ lease = settings.fair
    /\ durable = {} /\ recorded = FALSE /\ batchCancelled = FALSE /\ known = FALSE
    /\ cancelSet = FALSE /\ expired = FALSE
    /\ past = [runs |-> 0, copies |-> 0, ends |-> {}, dropped |-> FALSE, lapsed |-> FALSE,
               inRetry |-> FALSE, kept |-> FALSE, lockEnded |-> FALSE, cancelled |-> FALSE,
               faults |-> 0]

\* A fault, recorded with what else happened.
Faulted(p) == past.faults < settings.faults /\ past' = [p EXCEPT !.faults = @ + 1]

-----------------------------------------------------------------------------
(* Outcomes *)

IfBatch(event) == IF settings.batch THEN {event} ELSE {}

\* The worker has an outcome: what to publish, and the retry record.
Decided(w, outs, again) ==
    hand' = [hand EXCEPT ![w] = [at |-> "apply", rec |-> @.rec, outs |-> outs, again |-> again]]

Ended(how) == [past EXCEPT !.ends = @ \cup {how}]

Kept(how) == [Ended(how) EXCEPT !.kept = TRUE]

\* A terminal outcome: releaseUniq comes before anything is published.  Its error is
\* discarded, and the lock left to its TTL.
Terminal(w, outs, how) ==
    /\ Decided(w, outs, None)
    /\ \/ lock' = FALSE /\ past' = Ended(how)
       \/ lock /\ lock' = lock /\ Faulted(Kept(how))

FaultyRetried(r) == [r EXCEPT !.counted = settings.batch, !.slot = FALSE, !.deferred = FALSE]

\* buildRetryPayload: one attempt more, the batch touched, the slot's metadata gone.
Retried(r) == [r EXCEPT !.attempt = @ + 1, !.counted = settings.batch, !.slot = FALSE,
                        !.deferred = FALSE]

FaultyHandleFailure(w, retryable) ==
    LET r == hand[w].rec
    IN IF retryable /\ r.attempt < settings.maxRetries
       THEN /\ Decided(w, {"retry"} \cup IF r.counted THEN {} ELSE IfBatch("executed"), Retried(r))
            /\ lock' = FALSE
            /\ UNCHANGED past
       ELSE Terminal(w, {"dlt"} \cup IfBatch("failed"), "failed")

\* handleFailure: a retry while the budget lasts, keeping the lock; else the end.
HandleFailure(w, retryable) ==
    LET r == hand[w].rec
    IN IF retryable /\ r.attempt < settings.maxRetries
       THEN /\ Decided(w, {"retry"} \cup IF r.counted THEN {} ELSE IfBatch("executed"), Retried(r))
            /\ UNCHANGED <<lock, past>>
       ELSE Terminal(w, {"dlt"} \cup IfBatch("failed"), "failed")

-----------------------------------------------------------------------------
(* The job processor *)

Deliver(w, r) ==
    /\ hand[w] = Idle /\ r \in DOMAIN jobs
    /\ jobs' = Without(jobs, r)
    /\ hand' = [hand EXCEPT ![w] = [at |-> "check", rec |-> r]]
    /\ UNCHANGED <<retries, retrier, redis, durable, around, past>>

\* The checks, in order: each action's guard says the earlier ones passed.
SkipsBatch == settings.batch /\ known
Checking(w) == hand[w].at = "check"

SkipCancelledBatch(w) ==
    /\ Checking(w) /\ SkipsBatch
    /\ Terminal(w, {}, "batch")
    /\ UNCHANGED <<jobs, retries, retrier, dedup, lease, durable, around, cancelSet>>

\* The cancel set is acknowledged here, before the outcome is published.
SkipCancelledRetry(w) ==
    /\ Checking(w) /\ ~SkipsBatch /\ cancelSet
    /\ Terminal(w, IfBatch("failed"), "cancelled")
    /\ cancelSet' = FALSE
    /\ UNCHANGED <<jobs, retries, retrier, dedup, lease, durable, around>>

\* releaseFairSlotIfHeld, BuildDrop.
DropExpired(w) ==
    /\ Checking(w) /\ ~SkipsBatch /\ ~cancelSet /\ expired
    /\ lease' = (lease /\ ~hand[w].rec.slot)
    /\ Terminal(w, {"dlt"} \cup IfBatch("failed"), "failed")
    /\ UNCHANGED <<jobs, retries, retrier, dedup, durable, around, cancelSet>>

Ready(w) == Checking(w) /\ ~SkipsBatch /\ ~cancelSet /\ ~expired

UnknownHandler(w) ==
    /\ Ready(w) /\ ~settings.handler
    /\ Terminal(w, {"dlt"} \cup IfBatch("failed"), "failed")
    /\ UNCHANGED <<jobs, retries, retrier, dedup, lease, durable, around, cancelSet>>

InSlot(w) == hand[w].at = "run" /\ hand[w].via # "plain"

Running(w, via) ==
    /\ hand' = [hand EXCEPT ![w] = [at |-> "run", rec |-> @.rec, via |-> via]]
    /\ past' = [past EXCEPT !.runs = IF @ < MaxRuns THEN @ + 1 ELSE @,
                            !.lapsed = @ \/ (via = "slot" /\ (~lease \/ \E v \in Workers : InSlot(v)))]

\* Without a slot, or with the slot's key claimed: a reclaimed record clears it first.
KeyHeld(r) == r.slot /\ dedup /\ ~r.reclaim

Start(w) ==
    LET r == hand[w].rec
    IN /\ Ready(w) /\ settings.handler /\ ~KeyHeld(r)
       /\ dedup' = (dedup \/ r.slot)
       /\ Running(w, IF r.slot THEN "slot" ELSE "plain")
       /\ UNCHANGED <<jobs, retries, retrier, lock, lease, durable, around, cancelSet>>

\* The claim fails: taken for a failure of the handler.
ClaimSlotError(w) ==
    LET r == hand[w].rec
    IN /\ Ready(w) /\ settings.handler /\ r.slot
       /\ past.faults < settings.faults
       /\ IF r.attempt < settings.maxRetries
          THEN /\ Decided(w, {"retry"} \cup IfBatch("executed"), Retried(r))
               /\ UNCHANGED lock /\ Faulted(past)
          ELSE /\ Decided(w, {"dlt"} \cup IfBatch("failed"), None)
               /\ \/ lock' = FALSE /\ Faulted(Ended("failed"))
                  \/ lock /\ lock' = lock /\ Faulted(Kept("failed"))
       /\ dedup' \in {dedup /\ ~r.reclaim, TRUE}
       /\ UNCHANGED <<jobs, retries, retrier, lease, durable, around, cancelSet>>

Skipped(w) == Ready(w) /\ settings.handler /\ KeyHeld(hand[w].rec)
Duplicate(r) == ~settings.batch \/ r.counted \/ recorded

\* handleFairSkip: a duplicate is dropped; behind a live lease the record is deferred
\* to the retry topic, slot kept; without a lease it is run.
FairDrop(w) ==
    /\ Skipped(w) /\ Duplicate(hand[w].rec)
    /\ Decided(w, {}, None)
    /\ past' = [past EXCEPT !.dropped = @ \/ settings.mode = "watermark"]
    /\ UNCHANGED <<jobs, retries, retrier, redis, durable, around>>

FairDefer(w) ==
    /\ Skipped(w) /\ ~Duplicate(hand[w].rec) /\ lease
    /\ Decided(w, {"retry"}, [hand[w].rec EXCEPT !.deferred = TRUE])
    /\ UNCHANGED <<jobs, retries, retrier, redis, durable, around, past>>

FaultyFairRerun(w) ==
    /\ Skipped(w) /\ ~Duplicate(hand[w].rec)
    /\ Running(w, "orphan")
    /\ UNCHANGED <<jobs, retries, retrier, redis, durable, around>>

FairRerun(w) ==
    /\ Skipped(w) /\ ~Duplicate(hand[w].rec) /\ ~lease
    /\ Running(w, "orphan")
    /\ UNCHANGED <<jobs, retries, retrier, redis, durable, around>>

\* The handler returns; Complete ends the lease of a claimed slot.
Succeed(w) ==
    /\ hand[w].at = "run"
    /\ Terminal(w, IfBatch("success"), "success")
    /\ lease' = (lease /\ hand[w].via # "slot")
    /\ UNCHANGED <<jobs, retries, retrier, dedup, durable, around, cancelSet>>

Fail(w, retryable) ==
    /\ hand[w].at = "run"
    /\ HandleFailure(w, retryable)
    /\ lease' = (lease /\ hand[w].via # "slot")
    /\ UNCHANGED <<jobs, retries, retrier, dedup, durable, around, cancelSet>>

-----------------------------------------------------------------------------
(* Side effects and redelivery *)

\* What of an outcome reaches its topics; an event may be parked on the dead-letter
\* topic instead, where it can be recovered.
Published(outs, again) ==
    /\ durable' = durable \cup (outs \ {"retry"})
    /\ retries' = IF "retry" \in outs THEN With(retries, again) ELSE retries

Apply(w) ==
    /\ hand[w].at = "apply"
    /\ Published(hand[w].outs, hand[w].again)
    /\ hand' = [hand EXCEPT ![w] = [at |-> "commit", rec |-> @.rec]]
    /\ UNCHANGED <<jobs, retrier, redis, around, past>>

\* The record comes back.
Redelivered(r) ==
    jobs' = With(jobs, [r EXCEPT !.reclaim = @ \/ settings.mode = "superfetch"])
Copied == [past EXCEPT !.copies = @ + 1]

FaultyApplyFails(w, landed) ==
    /\ hand[w].at = "apply" /\ hand[w].outs # {}
    /\ Published(landed, hand[w].again)
    /\ hand' = [hand EXCEPT ![w] = [at |-> "commit", rec |-> @.rec]]
    /\ Faulted(past)
    /\ UNCHANGED <<jobs, retrier, redis, around>>

\* Some of it lands, at most: the record is not committed.
ApplyFails(w, landed) ==
    /\ hand[w].at = "apply" /\ hand[w].outs # {}
    /\ Published(landed, hand[w].again)
    /\ Redelivered(hand[w].rec)
    /\ hand' = [hand EXCEPT ![w] = Idle]
    /\ Faulted(Copied)
    /\ UNCHANGED <<retrier, redis, around>>

\* SuperFetch applies the outcome again before it gives up.
ApplyAgain(w, landed) ==
    /\ settings.mode = "superfetch" /\ hand[w].at = "apply" /\ hand[w].outs # {}
    /\ Published(landed, hand[w].again)
    /\ Faulted(Copied)
    /\ UNCHANGED <<jobs, hand, retrier, redis, around>>

Commit(w) ==
    /\ hand[w].at = "commit"
    /\ hand' = [hand EXCEPT ![w] = Idle]
    /\ UNCHANGED <<jobs, retries, retrier, redis, durable, around, past>>

\* The worker dies, or an error ends the processing of the record.
Crash(w) ==
    /\ hand[w] # Idle
    /\ Redelivered(hand[w].rec)
    /\ hand' = [hand EXCEPT ![w] = Idle]
    /\ Faulted(Copied)
    /\ UNCHANGED <<retries, retrier, redis, durable, around>>

\* The record is redelivered under its holder: a rebalance, or a lost working-set lease.
Redeliver(w) ==
    /\ hand[w] # Idle
    /\ Redelivered(hand[w].rec)
    /\ Faulted(Copied)
    /\ UNCHANGED <<retries, hand, retrier, redis, durable, around>>

\* The forwarder takes the slot's forward for lost: it renews the lease and sends again.
Reforward ==
    /\ settings.fair
    /\ jobs' = With(jobs, First) /\ lease' = TRUE
    /\ Faulted(Copied)
    /\ UNCHANGED <<retries, hand, retrier, lock, dedup, durable, around, cancelSet>>

-----------------------------------------------------------------------------
(* The retry consumer: one record at a time, committed after its outcome *)

Handling(r) == retrier = None /\ r \in DOMAIN retries
Skips(r) == r.skip \/ cancelSet
ToCommit(r) == retrier' = [at |-> "commit", rec |-> r]

\* ShouldSkip: the cancel set is acknowledged after the event is durable.
RetrySkip(r) ==
    /\ Handling(r) /\ Skips(r)
    /\ durable' = durable \cup IfBatch("failed")
    /\ cancelSet' = FALSE
    /\ past' = [Ended("cancelled") EXCEPT !.inRetry = TRUE]
    /\ ToCommit(r)
    /\ UNCHANGED <<jobs, retries, hand, lock, dedup, lease, around>>

RetryExpired(r) ==
    /\ Handling(r) /\ ~Skips(r) /\ expired
    /\ durable' = durable \cup {"dlt"} \cup IfBatch("failed")
    /\ past' = [Ended("failed") EXCEPT !.inRetry = TRUE]
    /\ ToCommit(r)
    /\ UNCHANGED <<jobs, retries, hand, redis, around>>

FaultyRetryDispatch(r) ==
    /\ Handling(r) /\ ~Skips(r) /\ ~expired
    /\ r.deferred => ~dedup
    /\ jobs' = With(jobs, [r EXCEPT !.deferred = FALSE])
    /\ ToCommit(r)
    /\ UNCHANGED <<retries, hand, redis, durable, around, past>>

\* A deferred record waits for the lease its slot had: dispatched under the lease, it
\* would be deferred again.
RetryDispatch(r) ==
    /\ Handling(r) /\ ~Skips(r) /\ ~expired
    /\ r.deferred => ~lease
    /\ jobs' = With(jobs, [r EXCEPT !.deferred = FALSE])
    /\ ToCommit(r)
    /\ UNCHANGED <<retries, hand, redis, durable, around, past>>

\* Part of the outcome fails, or is reported failed: the record stays.
RetryFails(r) ==
    /\ Handling(r)
    /\ \/ /\ Skips(r) \/ expired
          /\ durable' = durable \cup IfBatch("failed")
          /\ Faulted(past)
          /\ UNCHANGED jobs
       \/ /\ ~Skips(r) /\ ~expired
          /\ jobs' = With(jobs, [r EXCEPT !.deferred = FALSE])
          /\ Faulted(Copied)
          /\ UNCHANGED durable
    /\ UNCHANGED <<retries, hand, retrier, redis, around>>

RetryCommit ==
    /\ retrier # None
    /\ retries' = Without(retries, retrier.rec)
    /\ retrier' = None
    /\ UNCHANGED <<jobs, hand, redis, durable, around, past>>

RetryCrash ==
    /\ retrier # None
    /\ retrier' = None
    /\ Faulted(Copied)
    /\ UNCHANGED <<jobs, retries, hand, redis, durable, around>>

-----------------------------------------------------------------------------
(* Around the job *)

\* The events consumer counts a durable event.
RecordEvent ==
    /\ ~recorded /\ durable \cap Events # {}
    /\ recorded' = TRUE
    /\ UNCHANGED <<settings, jobs, retries, hand, retrier, redis, durable, batchCancelled, known, expired, past>>

\* The slot's lease ends: nobody renews it, or its holder stalls.
LeaseEnds ==
    /\ lease
    /\ lease' = FALSE
    /\ IF \E w \in Workers : hand[w].at = "run" /\ hand[w].via = "slot"
       THEN Faulted([past EXCEPT !.lapsed = TRUE]) ELSE UNCHANGED past
    /\ UNCHANGED <<jobs, retries, hand, retrier, lock, dedup, durable, around, cancelSet>>

\* The key of the slot is not renewed: it may end under a long run.
KeyEnds ==
    /\ dedup
    /\ dedup' = FALSE
    /\ UNCHANGED <<jobs, retries, hand, retrier, lock, lease, durable, around, cancelSet, past>>

\* The TTL of the uniqueness lock, which nobody renews.
LockEnds ==
    /\ lock
    /\ lock' = FALSE
    /\ past' = [past EXCEPT !.lockEnded = TRUE]
    /\ UNCHANGED <<jobs, retries, hand, retrier, dedup, lease, durable, around, cancelSet>>

Expire ==
    /\ settings.expires /\ ~expired
    /\ expired' = TRUE
    /\ UNCHANGED <<settings, jobs, retries, hand, retrier, redis, durable, recorded, batchCancelled, known, past>>

CancelBatch ==
    /\ settings.cancels /\ settings.batch /\ ~batchCancelled
    /\ batchCancelled' = TRUE
    /\ UNCHANGED <<settings, jobs, retries, hand, retrier, redis, durable, recorded, known, expired, past>>

\* currentIDs fetches the cancelled batches, once its snapshot is old.
RefreshCache ==
    /\ known # batchCancelled
    /\ known' = batchCancelled
    /\ UNCHANGED <<settings, jobs, retries, hand, retrier, redis, durable, recorded, batchCancelled, expired, past>>

\* The operator deletes the retry, or every retry up to the last offset.
OperatorCancel ==
    /\ settings.operator = "cancel" /\ ~past.cancelled /\ retries # NoRecords
    /\ cancelSet' = TRUE /\ past' = [past EXCEPT !.cancelled = TRUE]
    /\ UNCHANGED <<jobs, retries, hand, retrier, lock, dedup, lease, durable, around>>

\* Once, so that no record has the mark yet.
SetSkipWatermarks ==
    /\ settings.operator = "skip" /\ ~past.cancelled /\ retries # NoRecords /\ retrier = None
    /\ retries' = [s \in {[r EXCEPT !.skip = TRUE] : r \in DOMAIN retries} |->
                      retries[[s EXCEPT !.skip = FALSE]]]
    /\ past' = [past EXCEPT !.cancelled = TRUE]
    /\ UNCHANGED <<jobs, hand, retrier, redis, durable, around>>

Process(w) ==
    \/ \E r \in DOMAIN jobs : Deliver(w, r)
    \/ SkipCancelledBatch(w) \/ SkipCancelledRetry(w) \/ DropExpired(w) \/ UnknownHandler(w)
    \/ Start(w) \/ FairDrop(w) \/ FairDefer(w) \/ FairRerun(w)
    \/ Succeed(w) \/ (\E retryable \in BOOLEAN : Fail(w, retryable))
    \/ Apply(w) \/ Commit(w)

ProcessRetry ==
    \/ \E r \in DOMAIN retries : RetrySkip(r) \/ RetryExpired(r) \/ RetryDispatch(r)
    \/ RetryCommit

Disturbed ==
    \/ \E w \in Workers :
        \/ ClaimSlotError(w) \/ Crash(w) \/ Redeliver(w)
        \/ hand[w].at = "apply" /\ \E landed \in SUBSET hand[w].outs : ApplyFails(w, landed) \/ ApplyAgain(w, landed)
    \/ \E r \in DOMAIN retries : RetryFails(r)
    \/ RetryCrash \/ Reforward

Progress ==
    \/ \E w \in Workers : Process(w)
    \/ ProcessRetry
    \/ RecordEvent \/ LeaseEnds \/ RefreshCache

Next ==
    \/ Progress
    \/ Disturbed
    \/ KeyEnds \/ LockEnds \/ Expire \/ CancelBatch \/ OperatorCancel \/ SetSkipWatermarks

Spec == Init /\ [][Next]_vars
Fairness == WF_vars(Progress)
FairSpec == Spec /\ Fairness

-----------------------------------------------------------------------------
(* Properties *)

\* The records that are under no skip watermark: only those of the retry topic can be.
Recs == {r \in Records : r.attempt <= settings.maxRetries}
Unmarked == {r \in Recs : r.skip = FALSE}
IsTopic(t, R) == t \in [DOMAIN t -> Nat \ {0}] /\ DOMAIN t \subseteq R

IsHand(h) ==
    /\ h.at \in {"idle", "check", "run", "apply", "commit"}
    /\ h.at = "idle" => h = Idle
    /\ h.at # "idle" => h.rec \in Unmarked
    /\ h.at = "run" => h.via \in {"slot", "plain", "orphan"}
    /\ h.at = "apply" => h.outs \subseteq Outputs /\ ("retry" \in h.outs => h.again \in Unmarked)

Pasts == [runs : Nat, copies : Nat, ends : SUBSET {"success", "failed", "cancelled", "batch"},
          dropped : BOOLEAN, lapsed : BOOLEAN, inRetry : BOOLEAN, kept : BOOLEAN, lockEnded : BOOLEAN,
          cancelled : BOOLEAN, faults : Nat]

TypeOK ==
    /\ settings \in Settings
    /\ IsTopic(jobs, Unmarked) /\ IsTopic(retries, Recs)
    /\ past.cancelled \/ IsTopic(retries, Unmarked)
    /\ hand = [w \in Workers |-> hand[w]] /\ \A w \in Workers : IsHand(hand[w])
    /\ retrier # None => retrier.at = "commit" /\ retrier.rec \in DOMAIN retries
    /\ durable \subseteq Outputs \ {"retry"}
    /\ {lock, dedup, lease, recorded, batchCancelled, known, cancelSet, expired} \subseteq BOOLEAN
    /\ past \in Pasts

\* Records whose outcome is still to come.
Waiting == IF retrier = None THEN retries ELSE Without(retries, retrier.rec)
Queued == jobs # NoRecords \/ Waiting # NoRecords
Live == Queued \/ \E w \in Workers : hand[w] # Idle

\* When no record of a job is left, its end is on a durable topic: a batch's job has a
\* success or failed event, and a job that failed is on the dead-letter topic, whatever
\* crashes, redeliveries and partial produces there were (applyJobSideEffects,
\* applyRetryOutcome; duplicates dropped under watermark execution excepted).
NothingVanishes ==
    ~Live /\ ~past.dropped /\ ~batchCancelled =>
        /\ past.ends # {}
        /\ settings.batch => durable \cap {"success", "failed"} # {}
        /\ past.ends = {"failed"} => "dlt" \in durable

\* Within its TTL the uniqueness lock is held until the job ends, through retries and
\* whatever is redelivered, and, if nothing was, as long as a record of the job may run;
\* once it has ended the lock is free, unless the release failed or the end came in the
\* retry consumer, which leaves it to the TTL (handleFailure, releaseUniq).
LockFollowsJob ==
    /\ settings.uniq /\ ~past.lockEnded
         /\ \/ past.ends = {}
            \/ /\ past.copies = 0 /\ ~past.inRetry
               /\ Queued \/ \E w \in Workers : hand[w].at \in {"check", "run"}
       => lock
    /\ past.ends # {} /\ ~past.inRetry /\ ~past.kept => ~lock

\* A record that finds its slot's key held does not run beside the holder, as long as
\* the holder keeps its lease and its key (handleFairSkip's second case).
HolderAlone ==
    ~past.lapsed /\ ~expired =>
        ~\E v, w \in Workers : InSlot(v) /\ InSlot(w) /\ hand[v].via = "slot" /\ hand[w].via = "orphan"

\* The handler runs at most once per attempt of each redelivered copy (buildRetryPayload;
\* a deferral is not an attempt).
RetryBudget == past.runs <= (settings.maxRetries + 1) * (past.copies + 1)

\* Every job ends: no record of it is left (the workers and the retry consumer go on).
EventuallyEnds == <>[]~Live

====
