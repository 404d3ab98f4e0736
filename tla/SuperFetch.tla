----------------------------- MODULE SuperFetch -----------------------------
(***************************************************************************)
(* SuperFetch: a consumer claims a job in the Redis working set, lets      *)
(* Kafka forget its record, and only then performs it; a sweeper re-       *)
(* produces the jobs of consumers whose heartbeat is gone.  The working    *)
(* set's keys are per job, so the module follows ONE job: its records in   *)
(* Kafka (the original and the reclaimed copies), its entry, its place in  *)
(* the claimed_at index, its reclaim lock and its produced marker.         *)
(*                                                                         *)
(* Time is abstracted to what it makes possible: an entry comes of age     *)
(* (the grace has passed), a heartbeat key lapses, a reclaim lock expires, *)
(* the lease of an entry nobody renews runs out.  That a renewed lease     *)
(* runs out, or a dead consumer's before a sweep finds it, is a fault;     *)
(* WorksetLease.tla says when it happens.  Definitions named Faulty... are *)
(* deliberate mistakes: no specification uses them, they are there to see  *)
(* the properties fail.                                                    *)
(***************************************************************************)
EXTENDS Integers, FiniteSets

CONSTANTS
    Consumers,   \* member ids; a restarted process has a new one
    Sweepers,    \* daemons running the reclaim scheduler
    NoOwner,     \* not a consumer
    MaxFence,    \* bound: ownership generations
    MaxRecords,  \* bound: records ever produced
    MaxFaults,   \* bound: faults
    FaultKinds   \* which faults happen, of the kinds in AllFaults

AllFaults ==
    {"crash", "stall", "redeliver", "claim", "complete", "produce", "mark",
     "finish", "sweeper", "lock", "lease"}

ASSUME SuperFetchAssumption ==
    /\ NoOwner \notin Consumers
    /\ MaxFence \in Nat \ {0} /\ MaxRecords \in Nat \ {0} /\ MaxFaults \in Nat
    /\ FaultKinds \subseteq AllFaults

Records == 1..MaxRecords
Fences  == 1..MaxFence

VARIABLES
    up,        \* consumers whose process runs
    live,      \* consumers whose heartbeat key exists
    pending,   \* records Kafka will deliver
    marked,    \* records each consumer marked and whose commit is not out yet
    produced,  \* number of records ever produced
    entry,     \* the job's entry; owner NoOwner when there is none
    indexed,   \* the job is in the claimed_at index
    lock,      \* the reclaiming key exists
    marker,    \* the fence in the produced marker, 0 when there is none
    fences,    \* number of fences generated
    task,      \* what each consumer is doing with the job (inFlight and perform)
    sweep,     \* each sweeper's progress with the job
    applied,   \* history: the outcome of a perform has been applied
    loads,     \* history: how often each fence's entry was re-produced and so marked
    unanswered,\* history: fences of claims that landed and whose answer was lost
    expired,   \* history: the lease of an entry its owner does not renew ran out
    late,      \* history: a heartbeat or a lease lapsed on a consumer that kept it
    faults

past == <<loads, unanswered, expired, late>>
vars == <<up, live, pending, marked, produced, entry, indexed, lock, marker, fences,
          task, sweep, applied, loads, unanswered, expired, late, faults>>

NoEntry == [owner |-> NoOwner, fence |-> 0, aged |-> FALSE]
NoTask  == [pc |-> "none", fence |-> 0]
Resting == [pc |-> "idle", e |-> NoEntry]

Init ==
    /\ up = Consumers /\ live = Consumers
    /\ pending = {1} /\ marked = [c \in Consumers |-> {}] /\ produced = 1
    /\ entry = NoEntry /\ indexed = FALSE /\ lock = FALSE /\ marker = 0 /\ fences = 0
    /\ task = [c \in Consumers |-> NoTask] /\ sweep = [s \in Sweepers |-> Resting]
    /\ applied = FALSE /\ loads = [f \in Fences |-> 0] /\ faults = 0
    /\ unanswered = {} /\ expired = FALSE /\ late = FALSE

Fault(kind) == kind \in FaultKinds /\ faults < MaxFaults /\ faults' = faults + 1

-----------------------------------------------------------------------------
(* claimLua *)

FaultyHeld(c) == entry.owner \notin {NoOwner, c} /\ ~entry.aged

\* Another consumer owns the job: it is alive, or not yet stealable.
Held(c) ==
    /\ entry.owner \notin {NoOwner, c}
    /\ entry.owner \in live \/ ~entry.aged

\* The entry after c's claim: c's own claim is resumed, a dead one stolen.
Claimed(c) ==
    IF Held(c) \/ entry.owner = c THEN entry
    ELSE [owner |-> c, fence |-> fences + 1, aged |-> FALSE]

\* The script, run by c.
ClaimScript(c) ==
    /\ fences < MaxFence
    /\ entry' = Claimed(c)
    /\ fences' = IF Held(c) \/ entry.owner = c THEN fences ELSE fences + 1
    /\ indexed' = (indexed \/ ~Held(c))
    /\ live' = IF Held(c) THEN live ELSE live \cup {c}

-----------------------------------------------------------------------------
(* A consumer: DispatchClaimsAndAcks, then perform *)

Mark(c, r) ==
    /\ pending' = pending \ {r}
    /\ marked' = [marked EXCEPT ![c] = @ \cup {r}]

\* The claim is won (or resumed), the record marked, the perform started; a
\* lost claim is acked as a duplicate.
Dispatch(c, r) ==
    /\ c \in up /\ r \in pending /\ task[c] = NoTask
    /\ ClaimScript(c)
    /\ Mark(c, r)
    /\ task' = IF Held(c) THEN task
               ELSE [task EXCEPT ![c] = [pc |-> "perform", fence |-> Claimed(c).fence]]
    /\ unanswered' = IF Held(c) THEN unanswered ELSE unanswered \ {Claimed(c).fence}
    /\ UNCHANGED <<up, produced, lock, marker, sweep, applied, loads, expired, late, faults>>

\* The claim's outcome is unknown, though the script may have run: the record is
\* rewound, not marked.
DispatchError(c, r, landed) ==
    /\ c \in up /\ r \in pending /\ task[c] = NoTask /\ Fault("claim")
    /\ IF landed
         THEN /\ ClaimScript(c)
              /\ unanswered' = IF Held(c) THEN unanswered
                               ELSE unanswered \cup {Claimed(c).fence}
         ELSE UNCHANGED <<entry, fences, indexed, live, unanswered>>
    /\ UNCHANGED <<up, pending, marked, produced, lock, marker, task, sweep, applied, loads,
                   expired, late>>

\* A redelivered record of a job in flight in this process.
DispatchDuplicate(c, r) ==
    /\ c \in up /\ r \in pending /\ task[c] # NoTask
    /\ Mark(c, r)
    /\ UNCHANGED <<up, live, produced, entry, indexed, lock, marker, fences, task, sweep,
                   applied, past, faults>>

\* The commit of the marked offsets reaches the broker.
Commit(c) ==
    /\ c \in up /\ marked[c] # {}
    /\ marked' = [marked EXCEPT ![c] = {}]
    /\ UNCHANGED <<up, live, pending, produced, entry, indexed, lock, marker, fences, task,
                   sweep, applied, past, faults>>

\* A rebalance before the commit: the marked records are delivered again.
Redeliver(c) ==
    /\ c \in up /\ marked[c] # {} /\ Fault("redeliver")
    /\ pending' = pending \cup marked[c]
    /\ marked' = [marked EXCEPT ![c] = {}]
    /\ UNCHANGED <<up, live, produced, entry, indexed, lock, marker, fences, task, sweep,
                   applied, past>>

FaultyPerform(c) ==
    /\ task[c].pc = "perform"
    /\ task' = [task EXCEPT ![c] = NoTask]
    /\ UNCHANGED <<up, live, pending, marked, produced, entry, indexed, lock, marker, fences,
                   sweep, applied, past, faults>>

\* Process and its retries; an abort of the process is Crash.
Perform(c) ==
    /\ task[c].pc = "perform"
    /\ task' = [task EXCEPT ![c].pc = "apply"]
    /\ UNCHANGED <<up, live, pending, marked, produced, entry, indexed, lock, marker, fences,
                   sweep, applied, past, faults>>

\* Apply produces the event, the retry or the dead letter, fenced or not.
Apply(c) ==
    /\ task[c].pc = "apply"
    /\ task' = [task EXCEPT ![c].pc = "complete"]
    /\ applied' = TRUE
    /\ UNCHANGED <<up, live, pending, marked, produced, entry, indexed, lock, marker, fences,
                   sweep, past, faults>>

\* completeLua: a lost fence leaves everything alone.
Complete(c) ==
    /\ task[c].pc = "complete"
    /\ task' = [task EXCEPT ![c] = NoTask]
    /\ LET mine == entry.owner = c /\ entry.fence = task[c].fence
       IN  /\ entry' = IF mine THEN NoEntry ELSE entry
           /\ indexed' = (indexed /\ ~(mine \/ entry = NoEntry))
    /\ UNCHANGED <<up, live, pending, marked, produced, lock, marker, fences, sweep, applied,
                   past, faults>>

\* Complete gives up after five errors.
CompleteError(c) ==
    /\ task[c].pc = "complete" /\ Fault("complete")
    /\ task' = [task EXCEPT ![c] = NoTask]
    /\ UNCHANGED <<up, live, pending, marked, produced, entry, indexed, lock, marker, fences,
                   sweep, applied, past>>

\* The process dies, or drains without finishing: its uncommitted records are
\* redelivered to others, its entry stays for the sweepers.
Crash(c) ==
    /\ c \in up /\ Fault("crash")
    /\ up' = up \ {c}
    /\ task' = [task EXCEPT ![c] = NoTask]
    /\ pending' = pending \cup marked[c]
    /\ marked' = [marked EXCEPT ![c] = {}]
    /\ UNCHANGED <<live, produced, entry, indexed, lock, marker, fences, sweep, applied, past>>

\* The heartbeat key of a dead consumer lapses (or is deleted by its drain).
Lapse(c) ==
    /\ c \in live \ up
    /\ live' = live \ {c}
    /\ UNCHANGED <<up, pending, marked, produced, entry, indexed, lock, marker, fences, task,
                   sweep, applied, past, faults>>

\* A running consumer misses its heartbeats for the key's TTL, and resumes them.
Stall(c) ==
    /\ c \in live \cap up /\ Fault("stall")
    /\ live' = live \ {c} /\ late' = TRUE
    /\ UNCHANGED <<up, pending, marked, produced, entry, indexed, lock, marker, fences, task,
                   sweep, applied, loads, unanswered, expired>>

TouchConsumer(c) ==
    /\ c \in up \ live
    /\ live' = live \cup {c}
    /\ UNCHANGED <<up, pending, marked, produced, entry, indexed, lock, marker, fences, task,
                   sweep, applied, past, faults>>

\* The grace since the claim has passed.
Age ==
    /\ entry # NoEntry /\ ~entry.aged
    /\ entry' = [entry EXCEPT !.aged = TRUE]
    /\ UNCHANGED <<up, live, pending, marked, produced, indexed, lock, marker, fences, task,
                   sweep, applied, past, faults>>

\* The entry's owner runs, and renews other leases only: registerRenew is called
\* for a claim known to be won, and ended with its perform.
Unrenewed == entry.owner \in up /\ task[entry.owner].fence # entry.fence

\* The lease of such an entry runs out: the payload is gone, the index stays.  The
\* lease is longer than the grace.
LeaseEnds ==
    /\ entry.aged /\ Unrenewed
    /\ entry' = NoEntry /\ expired' = TRUE
    /\ UNCHANGED <<up, live, pending, marked, produced, indexed, lock, marker, fences, task,
                   sweep, applied, loads, unanswered, late, faults>>

\* The renewals of a running consumer fail for a whole lease, or the lease a dead
\* one left is over before a sweep.
LeaseLost ==
    /\ entry.aged /\ ~Unrenewed /\ Fault("lease")
    /\ entry' = NoEntry /\ late' = TRUE
    /\ UNCHANGED <<up, live, pending, marked, produced, indexed, lock, marker, fences, task,
                   sweep, applied, loads, unanswered, expired>>

-----------------------------------------------------------------------------
(* A sweeper: ListOrphans, then reclaimOne *)

sweepOnly == <<up, live, pending, marked, produced, entry, indexed, lock, marker, fences,
               task, applied, past, faults>>

Go(s, pc) ==
    sweep' = [sweep EXCEPT ![s] = IF pc = "idle" THEN Resting ELSE [pc |-> pc, e |-> @.e]]

\* ListOrphans, pass 1: the aged entry is read.
SwGet(s) ==
    /\ sweep[s].pc = "idle" /\ indexed /\ entry.aged
    /\ sweep' = [sweep EXCEPT ![s] = [pc |-> "exists", e |-> entry]]
    /\ UNCHANGED sweepOnly

\* It has no payload any more.
SwMissing(s) ==
    /\ sweep[s].pc = "idle" /\ indexed /\ entry = NoEntry
    /\ Go(s, "prune")
    /\ UNCHANGED sweepOnly

\* The entries without payload are removed from the index, looked at again or not.
SwPrune(s) ==
    /\ sweep[s].pc = "prune"
    /\ indexed' = FALSE
    /\ Go(s, "idle")
    /\ UNCHANGED <<up, live, pending, marked, produced, entry, lock, marker, fences, task,
                   applied, past, faults>>

\* ListOrphans, pass 2: is its owner alive?
SwExists(s) ==
    /\ sweep[s].pc = "exists"
    /\ Go(s, IF sweep[s].e.owner \in live THEN "idle" ELSE "begin")
    /\ UNCHANGED sweepOnly

\* BeginReclaim: SET NX.
SwBegin(s) ==
    /\ sweep[s].pc = "begin"
    /\ Go(s, IF lock THEN "idle" ELSE "check")
    /\ lock' = TRUE
    /\ UNCHANGED <<up, live, pending, marked, produced, entry, indexed, marker, fences, task,
                   applied, past, faults>>

\* ProducedFence: a marker of this generation means finish only, an older one is
\* cleared.
SwCheck(s) ==
    /\ sweep[s].pc = "check"
    /\ Go(s, IF marker = sweep[s].e.fence THEN "finish" ELSE "produce")
    /\ marker' = IF marker = sweep[s].e.fence THEN marker ELSE 0
    /\ UNCHANGED <<up, live, pending, marked, produced, entry, indexed, lock, fences, task,
                   applied, past, faults>>

NewRecord == produced < MaxRecords /\ produced' = produced + 1 /\ pending' = pending \cup {produced + 1}

SwProduce(s) ==
    /\ sweep[s].pc = "produce"
    /\ NewRecord
    /\ Go(s, "mark")
    /\ UNCHANGED <<up, live, marked, entry, indexed, lock, marker, fences, task, applied, past,
                   faults>>

\* The marker cannot be read, or the produce fails, durable or not: AbortReclaim
\* deletes the lock.
SwProduceError(s, durable) ==
    /\ sweep[s].pc \in {"check", "produce"} /\ Fault("produce")
    /\ IF durable THEN sweep[s].pc = "produce" /\ NewRecord ELSE UNCHANGED <<produced, pending>>
    /\ lock' = FALSE
    /\ Go(s, "idle")
    /\ UNCHANGED <<up, live, marked, entry, indexed, marker, fences, task, applied, past>>

SwMark(s) ==
    /\ sweep[s].pc = "mark"
    /\ marker' = sweep[s].e.fence
    /\ loads' = [loads EXCEPT ![sweep[s].e.fence] = @ + 1]
    /\ Go(s, "finish")
    /\ UNCHANGED <<up, live, pending, marked, produced, entry, indexed, lock, fences, task,
                   applied, unanswered, expired, late, faults>>

\* MarkProduced fails five times: the sweeper tries to finish all the same.
SwMarkError(s) ==
    /\ sweep[s].pc = "mark" /\ Fault("mark")
    /\ Go(s, "finish")
    /\ UNCHANGED <<up, live, pending, marked, produced, entry, indexed, lock, marker, fences,
                   task, applied, past>>

FaultySwFinish(s) ==
    /\ sweep[s].pc = "finish"
    /\ entry' = NoEntry /\ indexed' = FALSE /\ marker' = 0 /\ lock' = FALSE
    /\ Go(s, "idle")
    /\ UNCHANGED <<up, live, pending, marked, produced, fences, task, applied, past, faults>>

\* finishReclaimLua: another generation's entry is left alone, and so is the
\* marker; a missing entry is as good as a matching one.
SwFinish(s) ==
    /\ sweep[s].pc = "finish"
    /\ LET other == entry # NoEntry /\ entry.fence # sweep[s].e.fence
       IN  /\ entry' = IF other THEN entry ELSE NoEntry
           /\ indexed' = (indexed /\ other)
           /\ marker' = IF other THEN marker ELSE 0
    /\ lock' = FALSE
    /\ Go(s, "idle")
    /\ UNCHANGED <<up, live, pending, marked, produced, fences, task, applied, past, faults>>

\* The script fails: lock and marker stay.
SwFinishError(s) ==
    /\ sweep[s].pc = "finish" /\ Fault("finish")
    /\ Go(s, "idle")
    /\ UNCHANGED <<up, live, pending, marked, produced, entry, indexed, lock, marker, fences,
                   task, applied, past>>

\* The daemon dies at any step.
SwCrash(s) ==
    /\ sweep[s].pc # "idle" /\ Fault("sweeper")
    /\ Go(s, "idle")
    /\ UNCHANGED <<up, live, pending, marked, produced, entry, indexed, lock, marker, fences,
                   task, applied, past>>

FaultyLockExpires ==
    /\ lock /\ Fault("lock")
    /\ lock' = FALSE
    /\ UNCHANGED <<up, live, pending, marked, produced, entry, indexed, marker, fences, task,
                   sweep, applied, past>>

\* The lock's TTL: it outlives a sweeper that died, and a slow sweeper outlives it.
LockExpires ==
    /\ lock
    /\ \/ /\ \A s \in Sweepers : sweep[s].pc \notin {"check", "produce", "mark", "finish"}
          /\ faults' = faults
       \/ Fault("lock")
    /\ lock' = FALSE
    /\ UNCHANGED <<up, live, pending, marked, produced, entry, indexed, marker, fences, task,
                   sweep, applied, past>>

-----------------------------------------------------------------------------
Work(c) ==
    \/ \E r \in Records : Dispatch(c, r) \/ DispatchDuplicate(c, r)
    \/ Commit(c) \/ Perform(c) \/ Apply(c) \/ Complete(c) \/ TouchConsumer(c)

Sweep(s) ==
    \/ SwGet(s) \/ SwMissing(s) \/ SwPrune(s) \/ SwExists(s) \/ SwBegin(s) \/ SwCheck(s)
    \/ SwProduce(s) \/ SwMark(s) \/ SwFinish(s)

Next ==
    \/ \E c \in Consumers : Work(c) \/ Lapse(c)
    \/ \E s \in Sweepers : Sweep(s)
    \/ Age \/ LockExpires \/ LeaseEnds \/ LeaseLost
    \/ \E c \in Consumers : Crash(c) \/ Stall(c) \/ Redeliver(c) \/ CompleteError(c)
    \/ \E c \in Consumers, r \in Records, landed \in BOOLEAN : DispatchError(c, r, landed)
    \/ \E s \in Sweepers : SwMarkError(s) \/ SwFinishError(s) \/ SwCrash(s)
    \/ \E s \in Sweepers, durable \in BOOLEAN : SwProduceError(s, durable)

Spec == Init /\ [][Next]_vars

\* Running consumers poll and perform, sweepers tick, and time passes.
FairSpec ==
    /\ Spec
    /\ \A c \in Consumers : WF_vars(Work(c)) /\ WF_vars(Lapse(c))
    /\ \A s \in Sweepers : WF_vars(Sweep(s))
    /\ WF_vars(Age) /\ WF_vars(LockExpires) /\ WF_vars(LeaseEnds)

-----------------------------------------------------------------------------
Entries == [owner : Consumers \cup {NoOwner}, fence : 0..MaxFence, aged : BOOLEAN]
Tasks   == [pc : {"none", "perform", "apply", "complete"}, fence : 0..MaxFence]
Sweeps  == [pc : {"idle", "prune", "exists", "begin", "check", "produce", "mark", "finish"}, e : Entries]

\* Type invariant.
TypeOK ==
    /\ up \subseteq Consumers /\ live \subseteq Consumers
    /\ pending \subseteq Records /\ marked \in [Consumers -> SUBSET Records]
    /\ produced \in Records
    /\ entry \in Entries /\ indexed \in BOOLEAN
    /\ lock \in BOOLEAN /\ marker \in 0..MaxFence /\ fences \in 0..MaxFence
    /\ task \in [Consumers -> Tasks] /\ sweep \in [Sweepers -> Sweeps]
    /\ applied \in BOOLEAN /\ loads \in [Fences -> Nat] /\ faults \in 0..MaxFaults
    /\ unanswered \subseteq 0..MaxFence /\ expired \in BOOLEAN /\ late \in BOOLEAN

\* Until an outcome is applied, Kafka still has a record to deliver or the working
\* set has an entry a sweep will find.
Owned == applied \/ pending # {} \/ (entry # NoEntry /\ indexed)

\* "Durability: Redis owns the job before Kafka forgets it" (daemon/superfetch.go):
\* the job is owned, whoever crashes when and whichever call fails, until a lease
\* runs out or a heartbeat lapses on a running consumer.
RedisOwns == expired \/ late \/ Owned

\* An entry of a running consumer that Kafka has forgotten is one that consumer
\* is at work on, so that its lease is renewed and it will be completed; but for
\* the claim whose answer was lost and whose record another consumer acked as a
\* duplicate.
OwnerWorks ==
    entry.owner \in up /\ pending = {} /\ ~applied /\ entry.fence \notin unanswered
      => task[entry.owner] # NoTask

\* Of the running consumers at most one performs the job at a time, redeliveries,
\* steals and reclaims notwithstanding, as long as heartbeats and leases are kept.
OnePerformer ==
    late \/ \A c, d \in up :
      task[c].pc \in {"perform", "apply"} /\ task[d].pc \in {"perform", "apply"} => c = d

\* Some record of the job, or an entry of another generation, survives the
\* deletion of the entry of fence f.
Backed(f) == expired \/ applied \/ pending # {} \/ (entry # NoEntry /\ entry.fence # f)

\* The entry is well formed: it is in the index (until a lease runs out: a sweep
\* may then prune the index entry of a new claim), and of a fence given out.
EntryInv ==
    /\ entry.owner = NoOwner => entry = NoEntry
    /\ entry # NoEntry => (expired \/ indexed) /\ entry.fence # 0
    /\ entry.fence <= fences

\* Who performs owns the entry, by the fence it has; who completes has applied.
TaskInv(c) ==
    /\ task[c].pc \in {"perform", "apply"} =>
         c \in up /\ entry.owner = c /\ entry.fence = task[c].fence
    /\ task[c].pc = "complete" => applied
    /\ task[c].pc = "none" => task[c] = NoTask

\* What a sweeper holds is a generation of the entry; past the liveness check its
\* owner is gone for good, so that nobody resumes it and nobody is told it is
\* held; what it is about to delete is backed.  It prunes only when a lease ran out.
SweepInv(s) ==
    /\ sweep[s].pc = "prune" => expired
    /\ sweep[s].pc \notin {"idle", "prune"} =>
         /\ sweep[s].e.fence \in 1..fences
         /\ entry.fence = sweep[s].e.fence => entry.owner = sweep[s].e.owner /\ entry.aged
         /\ sweep[s].pc # "exists" => sweep[s].e.owner \notin live
         /\ sweep[s].pc \in {"mark", "finish"} => Backed(sweep[s].e.fence)

\* The same of the generation in the produced marker.
MarkerInv ==
    marker # 0 =>
      /\ marker <= fences
      /\ entry.fence = marker => entry.owner \notin live /\ entry.aged
      /\ Backed(marker)

\* The job is owned until a lease runs out, which alone leaves an index entry
\* without payload.
OwnedInv ==
    /\ expired \/ Owned
    /\ indexed /\ entry = NoEntry => expired

\* What a sweeper is about to delete is an orphan whose job Kafka has again.
InCharge ==
    /\ up \subseteq live
    /\ EntryInv
    /\ \A c \in Consumers : TaskInv(c)
    /\ \A s \in Sweepers : SweepInv(s)
    /\ MarkerInv
    /\ OwnedInv

\* The strengthening that makes RedisOwns and OnePerformer inductive.
OwnershipInv == late \/ InCharge

\* "BeginReclaim takes a short NX lock so two reconcilers do not double-push"
\* (workset/store.go): a generation of the entry is re-produced and marked at most
\* once.
LoadedOnce ==
    \A f \in Fences : loads[f] <= 1

\* A job whose record was delivered is eventually applied, also when consumers
\* and sweepers die on it: as long as it is owned and a consumer is left, its
\* outcome comes.
EventuallyApplied == []Owned => <>(applied \/ up = {})

=============================================================================
