---------------------------- MODULE BatchLedger -----------------------------
(***************************************************************************)
(* One batch, from CreateBatch to its last completion event: the clients   *)
(* that fill and seal it (pkg/client), the completion events the daemon    *)
(* applies in any order and any number of times (events are delivered at   *)
(* least once), a cancel, and the expiry of the batch's keys.              *)
(***************************************************************************)
EXTENDS BatchScripts

CONSTANTS
    MaxSeq,    \* bound: seqs ever handed out
    PushSizes, \* how many jobs one AddJobs reserves
    MaxTime,   \* bound: ticks of the clock
    TimedSeqs, \* bound: seqs handed out in a behaviour in which the clock ticks
    MaxTouched \* bound: no seal once touched_count is past it (only a seal or an
               \* expiry lets touched_count pass the number of jobs)

ASSUME BoundsAssumption ==
    /\ MaxSeq \in Nat /\ MaxTime \in Nat /\ MaxTouched \in Nat
    /\ TimedSeqs \in 0..MaxSeq
    /\ PushSizes \subseteq Nat \ {0}

Seqs == 1..MaxSeq

VARIABLES
    b,          \* the batch's keys in Redis
    now,        \* the clock
    reserved,   \* seqs reserved by a client that has not yet produced the job
    jobs,       \* seqs whose job message is durable in Kafka
    ambiguous,  \* rollbacks of pushes whose job turned out to be durable
    ran,        \* history: seqs one of whose events was delivered
    succeeded,  \* history: seqs one of whose success events was delivered
    grants,     \* history: how often the scripts granted the dispatch of each kind
    scrubbed,   \* history: a seal cleared the bit of a counted seq
    lapsed      \* history: a bitmap or the allocator expired before the hash

clientVars == <<reserved, jobs, ambiguous>>
history    == <<ran, succeeded, grants, scrubbed, lapsed>>
vars       == <<b, now, clientVars, history>>

Grant(kinds) == grants' = [k \in Kinds |-> grants[k] + (IF k \in kinds THEN 1 ELSE 0)]

Init ==
    /\ b = NoLedger /\ now = 0
    /\ reserved = {} /\ jobs = {} /\ ambiguous = 0
    /\ ran = {} /\ succeeded = {}
    /\ grants = [k \in Kinds |-> 0] /\ scrubbed = FALSE /\ lapsed = FALSE

\* Client.CreateBatch: with a populate block the batch starts unsealed.
Create(sealed) ==
    /\ b = NoLedger /\ now = 0
    /\ b' = CreateBatch(b, sealed, now)
    /\ UNCHANGED <<now, clientVars, history>>

\* The second round trip of RedisStore.CreateBatch.  A client that dies before
\* it leaves a batch in no index; one that returns from it may push.
Index ==
    /\ Live(b) /\ b.idx = {} /\ b.cnt["running"] = 0 /\ b.status = "running"
    /\ b' = IndexBatch(b)
    /\ UNCHANGED <<now, clientVars, history>>

Created == b.cnt # NoLedger.cnt

\* Batch.reserve: AddJobs(n) on a batch that still takes jobs.
Reserve(n) ==
    /\ Created /\ ~Closed(b)
    /\ b.seq + n <= IF now = 0 THEN MaxSeq ELSE TimedSeqs
    /\ b' = AddJobs(b, n, now)
    /\ reserved' = reserved \cup Window(b, n)
    /\ UNCHANGED <<now, jobs, ambiguous, history>>

\* PushJob's produceJob succeeds.
Produce(s) ==
    /\ s \in reserved
    /\ reserved' = reserved \ {s}
    /\ jobs' = jobs \cup {s}
    /\ UNCHANGED <<b, now, ambiguous, history>>

\* PushJob's error path: AddJobs(-1), its result ignored.  A produce that timed
\* out may have reached the log all the same (durable).
RollBack(s, durable) ==
    /\ s \in reserved
    /\ reserved' = reserved \ {s}
    /\ jobs' = IF durable THEN jobs \cup {s} ELSE jobs
    /\ ambiguous' = IF durable /\ ~Closed(b) THEN ambiguous + 1 ELSE ambiguous
    /\ b' = IF Closed(b) THEN b ELSE AddJobs(b, -1, now)
    /\ UNCHANGED <<now, history>>

\* Batch.Seal, by the creating client or by one that re-attached; repeatable.
Seal ==
    /\ Created /\ b.touchedN <= MaxTouched
    /\ b' = SealBatch(b, now)
    /\ Grant(SealGrants(b))
    /\ scrubbed' = (scrubbed \/ \E m \in Bitmaps : b[m] # b'[m])
    /\ UNCHANGED <<now, clientVars, ran, succeeded, lapsed>>

\* RecordCompletionsBatch applies one event of job s.
Event(s, op) ==
    /\ s \in jobs
    /\ b' = BatchDoneJob(b, s, op, now)
    /\ Grant(DoneJobGrants(b, s, op, now))
    /\ ran' = ran \cup {s}
    /\ succeeded' = IF op = "success" THEN succeeded \cup {s} ELSE succeeded
    /\ UNCHANGED <<now, clientVars, scrubbed, lapsed>>

Cancel ==
    /\ Created /\ b.status = "running"
    /\ b' = CancelBatch(b)
    /\ UNCHANGED <<now, clientVars, history>>

\* Time passes and Redis drops the keys that are due.
Tick ==
    /\ now < MaxTime /\ Live(b) /\ b.seq <= TimedSeqs
    /\ now' = now + 1
    /\ b' = Expire(b, now + 1)
    /\ lapsed' = (lapsed \/ \E k \in Keys \ {"hash"} : b.exp[k] # 0 /\ b'.exp[k] = 0)
    /\ UNCHANGED <<clientVars, ran, succeeded, grants, scrubbed>>

Next ==
    \/ \E sealed \in BOOLEAN : Create(sealed)
    \/ Index
    \/ \E n \in PushSizes : Reserve(n)
    \/ \E s \in Seqs : Produce(s)
    \/ \E s \in Seqs, durable \in BOOLEAN : RollBack(s, durable)
    \/ Seal
    \/ \E s \in Seqs, op \in Ops : Event(s, op)
    \/ Cancel
    \/ Tick

Spec == Init /\ [][Next]_vars

-----------------------------------------------------------------------------
\* Type invariant: the shape of the keys in Redis and of the clients' state.
TypeOK ==
    /\ b \in Ledger
    /\ now \in 0..MaxTime
    /\ reserved \subseteq Seqs /\ jobs \subseteq Seqs
    /\ ambiguous \in Nat
    /\ ran \subseteq Seqs /\ succeeded \subseteq Seqs
    /\ grants \in [Kinds -> Nat]
    /\ scrubbed \in BOOLEAN /\ lapsed \in BOOLEAN

\* The bitmaps still hold every bit that was set: no seal cleared one and none
\* expired before the hash.
Intact == Live(b) /\ ~scrubbed /\ ~lapsed

\* batchDoneJobLua never loses a completion: whatever order and however often
\* events arrive, whatever a seal clears and whatever expires, each counter of
\* the hash is at least the number of bits set in its bitmap.
NeverUndercounts ==
    Live(b) => /\ Cardinality(b.touch) <= b.touchedN
               /\ Cardinality(b.ok) <= b.completedN
               /\ Cardinality(b.fail) <= b.failedN

\* "Swap the count instead of double-counting, so completed+failed never exceeds
\* touched": while the bitmaps are intact each counter is exactly the number of
\* seqs in its bitmap, no seq is both ok and failed, and both are touched.
CountersExact ==
    Intact => /\ b.touchedN = Cardinality(b.touch)
              /\ b.completedN = Cardinality(b.ok)
              /\ b.failedN = Cardinality(b.fail)
              /\ b.ok \cap b.fail = {}
              /\ b.ok \cup b.fail \subseteq b.touch
              /\ b.completedN + b.failedN <= b.touchedN

\* Completions, the early on_complete path and seals racing each other hand out
\* the dispatch of each callback at most once.
GrantOnce ==
    \A k \in Kinds : grants[k] <= 1

\* on_success is dispatched only when no job of the batch is outstanding.  Each
\* push that was rolled back although its message reached Kafka lets one job
\* escape, and nothing else does: jobs still being pushed are waited for, and
\* once the callback is claimed no job can be added.
SuccessMeansDone ==
    Intact /\ "success" \in b.claims
        => Cardinality((jobs \cup reserved) \ succeeded) <= ambiguous

\* on_complete is dispatched only when every job ran at least once, with the
\* same allowance.
CompleteMeansTouched ==
    Intact /\ "complete" \in b.claims
        => Cardinality((jobs \cup reserved) \ ran) <= ambiguous

\* kafka_batch:counts and the indexes follow the status through completions,
\* seals and cancels racing each other: each transition moves exactly one unit.
CountsMatch ==
    Live(b) /\ Created =>
        /\ \A s \in Statuses : b.cnt[s] = IF s = b.status THEN 1 ELSE 0
        /\ b.idx = {IF b.status \in Terminal THEN "done" ELSE b.status}

\* Until CreateBatch returned to its caller nothing has happened to the batch.
Untouched ==
    /\ b.status \in {"none", "running"} /\ b.idx = {} /\ b.claims = {} /\ b.invoked = {}
    /\ b.total = 0 /\ b.seq = 0 /\ b.touchedN = 0 /\ b.completedN = 0 /\ b.failedN = 0
    /\ b.touch = {} /\ b.ok = {} /\ b.fail = {}
    /\ reserved = {} /\ jobs = {}
    /\ grants = [k \in Kinds |-> 0]

\* Inductive strengthening of CountsMatch: a batch that is not indexed yet is
\* untouched, so no transition can run ahead of the unit that Index adds.
CountsInv == CountsMatch /\ (~Created => Untouched)

\* The allocator is past every seq in use: no seq is handed out twice while the
\* allocator's key lives.
AllocatorAhead ==
    Live(b) /\ ~lapsed => \A s \in jobs \cup reserved \cup b.touch : s <= b.seq

\* No script moves a batch out of a terminal or cancelled status; only its
\* expiry does.
TerminalIsFinal ==
    [][b.status \in Terminal \cup {"cancelled"} => b'.status \in {b.status, "none"}]_vars

=============================================================================
