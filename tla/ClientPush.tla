---------------------------- MODULE ClientPush ----------------------------
(***************************************************************************)
(* The push calls of the client library, beside the schedule index they    *)
(* write: a call claims uniqueness locks for its jobs, reserves room in    *)
(* its batch, produces the jobs chunk by chunk (to their topic, or to the  *)
(* scheduled topic and then the index) and on an error rolls back what was *)
(* not produced.  Single pushes are calls with one job.                    *)
(*                                                                         *)
(* Jobs are numbers, in the order of the payloads of their call.  Workers  *)
(* (JobLifecycle.tla) only end a job and release its lock here.            *)
(* Definitions named Faulty... are deliberate mistakes: no specification   *)
(* uses them.                                                              *)
(***************************************************************************)
EXTENDS ScheduleIndex

CONSTANTS
    Calls,
    Prints,      \* payload fingerprints
    Instances    \* the calls, configuration and number of faults looked at

\* A call: its jobs, whether they are scheduled, whether they are of the batch.
CallType == [jobs : SUBSET Jobs, at : BOOLEAN, batch : BOOLEAN]

\* The calls by handler type.
EnqueueJob(j)        == [jobs |-> {j}, at |-> FALSE, batch |-> FALSE]
EnqueueJobAt(j)      == [jobs |-> {j}, at |-> TRUE,  batch |-> FALSE]
EnqueueManyJobs(S)   == [jobs |-> S,   at |-> FALSE, batch |-> FALSE]
EnqueueManyJobsAt(S) == [jobs |-> S,   at |-> TRUE,  batch |-> FALSE]
PushJob(j)           == [jobs |-> {j}, at |-> FALSE, batch |-> TRUE]
PushJobAt(j)         == [jobs |-> {j}, at |-> TRUE,  batch |-> TRUE]
PushManyJobs(S)      == [jobs |-> S,   at |-> FALSE, batch |-> TRUE]
PushManyJobsAt(S)    == [jobs |-> S,   at |-> TRUE,  batch |-> TRUE]

\* The same by worker class name.
Enqueue(j)       == EnqueueJob(j)
EnqueueAt(j)     == EnqueueJobAt(j)
EnqueueMany(S)   == EnqueueManyJobs(S)
EnqueueManyAt(S) == EnqueueManyJobsAt(S)
Push(j)          == PushJob(j)
PushAt(j)        == PushJobAt(j)
PushMany(S)      == PushManyJobs(S)
PushManyAt(S)    == PushManyJobsAt(S)

\* The calls made; the fingerprint of each job; ProduceChunkSize; UniqOnDuplicate
\* = "raise"; the index stores looked at; the bound on faults.
Settings ==
    [calls : [Calls -> CallType], fp : [Jobs -> Prints], chunk : Nat \ {0}, raise : BOOLEAN,
     stores : SUBSET {"redis", "mysql"}, faults : Nat]

ASSUME ClientPushAssumption ==
    /\ Jobs \subseteq Nat \ {0} /\ IsFiniteSet(Jobs)
    /\ Instances \subseteq Settings

\* Each payload gets an id of its own.
ASSUME DistinctJobs ==
    \A s \in Instances : \A c, d \in Calls :
        c # d => s.calls[c].jobs \cap s.calls[d].jobs = {}

None == 0

VARIABLES
    settings,
    lock,      \* the job id each fingerprint's lock holds, or None
    push,      \* each call
    total,     \* total_jobs of the batch
    finished,  \* jobs a worker has ended
    doubt,     \* history: jobs whose outcome was misreported or whose lock was lost
    lost,      \* history: a caller died, or a rollback's write failed
    faults

clientVars == <<settings, lock, push, total, finished, doubt, lost, faults>>
vars == <<indexVars, clientVars>>

Fp(j) == settings.fp[j]

Init ==
    /\ IndexInit
    /\ settings \in Instances /\ store \in settings.stores
    /\ lock = [f \in Prints |-> None]
    /\ push = [c \in Calls |-> [at |-> "claim", todo |-> settings.calls[c].jobs, plan |-> {},
                                skipped |-> FALSE, reserved |-> FALSE, chunk |-> {},
                                rest |-> {}, sent |-> {}, ok |-> {}]]
    /\ total = 0 /\ finished = {} /\ doubt = {} /\ lost = FALSE /\ faults = 0

Fault == faults < settings.faults /\ faults' = faults + 1

\* Payloads are taken in order.
First(j, S) == j \in S /\ \A i \in S : j <= i

-----------------------------------------------------------------------------
(* Uniqueness locks: Claim, ClaimMany, ReleaseLock *)

\* SET NX of the next payload's key; a duplicate is not planned.
Claim(c) ==
    /\ push[c].at = "claim"
    /\ \E j \in push[c].todo :
       LET free == lock[Fp(j)] = None
       IN /\ First(j, push[c].todo)
          /\ lock' = IF free THEN [lock EXCEPT ![Fp(j)] = j] ELSE lock
          /\ push' = [push EXCEPT ![c] =
                        [push[c] EXCEPT !.todo = @ \ {j}, !.plan = IF free THEN @ \cup {j} ELSE @,
                                        !.skipped = @ \/ ~free]]
    /\ UNCHANGED <<indexVars, settings, total, finished, doubt, lost, faults>>

\* Redis fails: the whole call is planned without locks.
ClaimFailsOpen(c) ==
    /\ push[c].at = "claim" /\ push[c].todo # {} /\ Fault
    /\ push' = [push EXCEPT ![c] = [push[c] EXCEPT !.todo = {}, !.plan = @ \cup push[c].todo]]
    /\ doubt' = doubt \cup push[c].todo
    /\ UNCHANGED <<indexVars, settings, lock, total, finished, lost>>

FaultyReleased(j) == [lock EXCEPT ![Fp(j)] = None]

\* releaseLua: the key is deleted only while it holds this job's id.
Released(j) == IF lock[Fp(j)] = j THEN [lock EXCEPT ![Fp(j)] = None] ELSE lock

-----------------------------------------------------------------------------
(* The call: bulkUniqClaims, planPushes, reserve, produceInChunks,         *)
(* scheduleMessages, rollbackPlans                                         *)

ChunkOf(S) == {j \in S : Cardinality({i \in S : i <= j}) <= settings.chunk}

Go(c, at) == push' = [push EXCEPT ![c] = [push[c] EXCEPT !.at = at]]

\* The first chunk is taken up, with everything planned still to be produced.
Started(r) == [r EXCEPT !.at = "produce", !.chunk = ChunkOf(r.plan), !.rest = r.plan]

\* The call failed: what was not produced is rolled back.
RollingBack(r) == [r EXCEPT !.at = "release", !.todo = r.plan \ r.ok]

\* All payloads are claimed or skipped.  With "raise" a duplicate fails the call,
\* whatever it had claimed.
Planned(c) ==
    /\ push[c].at = "claim" /\ push[c].todo = {}
    /\ push' = [push EXCEPT ![c] =
         IF push[c].skipped /\ settings.raise THEN [push[c] EXCEPT !.at = "failed"]
         ELSE IF push[c].plan = {} THEN [push[c] EXCEPT !.at = "returned"]
         ELSE IF settings.calls[c].batch THEN [push[c] EXCEPT !.at = "reserve"]
         ELSE Started(push[c])]
    /\ UNCHANGED <<indexVars, settings, lock, total, finished, doubt, lost, faults>>

\* AddJobs(n): a cancelled batch rejects it, and the locks are released.
Reserve(c) ==
    /\ push[c].at = "reserve"
    /\ IF cancelled
       THEN /\ push' = [push EXCEPT ![c] = RollingBack(push[c])]
            /\ UNCHANGED total
       ELSE /\ push' = [push EXCEPT ![c] = Started([push[c] EXCEPT !.reserved = TRUE])]
            /\ total' = total + Cardinality(push[c].plan)
    /\ UNCHANGED <<indexVars, settings, lock, finished, doubt, lost, faults>>

\* AddJobs fails, with or without having counted the jobs.
ReserveFails(c, counted) ==
    /\ push[c].at = "reserve" /\ ~cancelled /\ Fault
    /\ push' = [push EXCEPT ![c] = RollingBack(push[c])]
    /\ total' = IF counted THEN total + Cardinality(push[c].plan) ELSE total
    /\ lost' = (lost \/ counted)
    /\ UNCHANGED <<indexVars, settings, lock, finished, doubt>>

\* Deliveries complete in any order; the count is taken for a prefix of the chunk.
FaultyFlagged(r, S) ==
    LET rest == r.rest \ r.chunk
        n == Cardinality(S)
        next == [r EXCEPT !.ok = @ \cup {j \in r.chunk : Cardinality({i \in r.chunk : i <= j}) <= n},
                          !.rest = rest, !.chunk = ChunkOf(rest), !.sent = {}]
    IN IF S # r.chunk THEN RollingBack(next)
       ELSE [next EXCEPT !.at = IF rest = {} THEN "returned" ELSE "produce"]

\* The flags of the chunk's delivered records S are set.  An incomplete chunk
\* fails the call; else the next chunk starts, or the call returns.
Flagged(r, S) ==
    LET rest == r.rest \ r.chunk
        next == [r EXCEPT !.ok = @ \cup S, !.rest = rest, !.chunk = ChunkOf(rest), !.sent = {}]
    IN IF S # r.chunk THEN RollingBack(next)
       ELSE [next EXCEPT !.at = IF rest = {} THEN "returned" ELSE "produce"]

Landed(S) == [j \in Jobs |-> IF j \in S THEN topic[j] + 1 ELSE topic[j]]

\* ProduceManySync of a chunk to the jobs' topic; the records in S are delivered.
\* (landed: records reported failed that are in the topic all the same.)
ProduceChunk(c, S, landed) ==
    /\ push[c].at = "produce" /\ ~settings.calls[c].at
    /\ IF S = push[c].chunk THEN UNCHANGED faults ELSE Fault
    /\ topic' = Landed(S \cup landed)
    /\ push' = [push EXCEPT ![c] = Flagged(push[c], S)]
    /\ doubt' = doubt \cup landed
    /\ UNCHANGED <<store, index, due, poll, dlt, dropped, cancelled>>
    /\ UNCHANGED <<settings, lock, total, finished, lost>>

\* The same to the scheduled topic; nothing fires until the index is written.
ScheduleChunk(c, S) ==
    /\ push[c].at = "produce" /\ settings.calls[c].at
    /\ IF S = push[c].chunk THEN UNCHANGED faults ELSE Fault
    /\ push' = [push EXCEPT ![c] = IF S = {} THEN Flagged(push[c], {})
                                   ELSE [push[c] EXCEPT !.at = "index", !.sent = S]]
    /\ UNCHANGED <<indexVars, settings, lock, total, finished, doubt, lost>>

\* writeScheduleIndex: the entries of the delivered records.
WriteIndex(c) ==
    /\ push[c].at = "index"
    /\ entry' = Scheduled(push[c].sent)
    /\ push' = [push EXCEPT ![c] = Flagged(push[c], push[c].sent)]
    /\ UNCHANGED <<store, due, misses, poll, fates, cancelled>>
    /\ UNCHANGED <<settings, lock, total, finished, doubt, lost, faults>>

\* A write that was applied is reported failed, and is retried.
WriteIndexAgain(c) ==
    /\ push[c].at = "index" /\ Fault
    /\ entry' = Scheduled(push[c].sent)
    /\ UNCHANGED <<store, due, misses, poll, fates, cancelled>>
    /\ UNCHANGED <<settings, lock, push, total, finished, doubt, lost>>

\* The retries are used up: the chunk is rolled back, the earlier ones are not.
WriteIndexFails(c, landed) ==
    /\ push[c].at = "index" /\ Fault
    /\ entry' = IF landed THEN Scheduled(push[c].sent) ELSE entry
    /\ push' = [push EXCEPT ![c] = RollingBack(push[c])]
    /\ doubt' = doubt \cup {j \in push[c].sent : landed \/ entry[j] # "none" \/ Settled(j)}
    /\ UNCHANGED <<store, due, misses, poll, fates, cancelled>>
    /\ UNCHANGED <<settings, lock, total, finished, lost>>

\* releaseUniq of the next job rolled back; an error is ignored.
ReleaseNext(c, fails) ==
    /\ push[c].at = "release"
    /\ IF fails THEN Fault ELSE UNCHANGED faults
    /\ \E j \in push[c].todo :
        /\ First(j, push[c].todo)
        /\ lock' = IF fails THEN lock ELSE Released(j)
        /\ push' = [push EXCEPT ![c] = [push[c] EXCEPT !.todo = @ \ {j}]]
    /\ lost' = (lost \/ fails)
    /\ UNCHANGED <<indexVars, settings, total, finished, doubt>>

FaultyUnreserve(c, fails) ==
    /\ push[c].at = "release" /\ push[c].todo = {}
    /\ IF fails THEN Fault ELSE UNCHANGED faults
    /\ total' = IF ~push[c].reserved \/ fails \/ cancelled THEN total
                ELSE total - Cardinality(push[c].plan)
    /\ lost' = (lost \/ (push[c].reserved /\ (fails \/ cancelled)))
    /\ Go(c, "failed")
    /\ UNCHANGED <<indexVars, settings, lock, finished, doubt>>

\* AddJobs(-n) of what was not produced.  Its result is ignored, whether it failed
\* or a batch cancelled meanwhile rejected it.
Unreserve(c, fails) ==
    /\ push[c].at = "release" /\ push[c].todo = {}
    /\ IF fails THEN Fault ELSE UNCHANGED faults
    /\ total' = IF ~push[c].reserved \/ fails \/ cancelled THEN total
                ELSE total - Cardinality(push[c].plan \ push[c].ok)
    /\ lost' = (lost \/ (push[c].reserved /\ (fails \/ cancelled)))
    /\ Go(c, "failed")
    /\ UNCHANGED <<indexVars, settings, lock, finished, doubt>>

\* The caller dies in the middle of a call.
ClientCrash(c) ==
    /\ push[c].at \notin {"returned", "failed"} /\ Fault
    /\ Go(c, "failed") /\ lost' = TRUE
    /\ UNCHANGED <<indexVars, settings, lock, total, finished, doubt>>

-----------------------------------------------------------------------------
(* Around the client *)

\* A worker ends a job that is on its topic, and releases its lock.
Finish(j) ==
    /\ topic[j] > 0 /\ j \notin finished
    /\ finished' = finished \cup {j}
    /\ lock' = Released(j)
    /\ UNCHANGED <<indexVars, settings, push, total, doubt, lost, faults>>

\* The lock's TTL runs out under a live job.
LockExpires(f) ==
    /\ lock[f] # None /\ Fault
    /\ lock' = [lock EXCEPT ![f] = None]
    /\ doubt' = doubt \cup {lock[f]}
    /\ UNCHANGED <<indexVars, settings, push, total, finished, lost>>

Call(c) ==
    \/ Claim(c) \/ Planned(c) \/ Reserve(c)
    \/ ProduceChunk(c, push[c].chunk, {}) \/ ScheduleChunk(c, push[c].chunk) \/ WriteIndex(c)
    \/ ReleaseNext(c, FALSE) \/ Unreserve(c, FALSE)

CallFault(c) ==
    \/ ClaimFailsOpen(c)
    \/ \E counted \in BOOLEAN : ReserveFails(c, counted)
    \/ \E S \in SUBSET push[c].chunk : S # push[c].chunk /\ ScheduleChunk(c, S)
    \/ \E S \in SUBSET push[c].chunk : \E landed \in SUBSET (push[c].chunk \ S) :
        S # push[c].chunk /\ ProduceChunk(c, S, landed)
    \/ WriteIndexAgain(c)
    \/ \E landed \in BOOLEAN : WriteIndexFails(c, landed)
    \/ ReleaseNext(c, TRUE) \/ Unreserve(c, TRUE)
    \/ ClientCrash(c)

AllFound == [j \in Jobs |-> "found"]

Poll(p) ==
    \/ ClaimDue(p) \/ Read(p, AllFound) \/ Ack(p, TRUE) \/ Reclaim(p)
    \/ \E j \in Jobs : \/ DropLost(p, j) \/ DropCancelled(p, j) \/ Produce(p, j)
                       \/ ReadMiss(p, j, misses[p][j] + 1 >= MaxMisses)

PollFault(p) ==
    \/ \E read \in [Jobs -> Reads] :
        /\ \A j \in Jobs \ poll[p].left : read[j] = "found"
        /\ read # AllFound /\ Read(p, read)
    \/ ReadError(p) \/ Ack(p, FALSE) \/ PollerCrash(p)
    \/ \E j \in Jobs : \/ ReadMiss(p, j, FALSE) /\ misses[p][j] + 1 >= MaxMisses
                       \/ RouteError(p, j, TRUE) \/ RouteError(p, j, FALSE)
                       \/ ProduceError(p, j, TRUE) \/ ProduceError(p, j, FALSE)

Time == \E j \in Jobs : ComesDue(j) \/ (~Held(j) /\ LeaseEnds(j))

Quiet == UNCHANGED clientVars
Disturbed == Fault /\ UNCHANGED <<settings, lock, push, total, finished, doubt, lost>>

Progress ==
    \/ \E c \in Calls : Call(c)
    \/ (\E p \in Pollers : Poll(p)) /\ Quiet
    \/ Time /\ Quiet
    \/ \E j \in Jobs : Finish(j)

Next ==
    \/ Progress
    \/ \E c \in Calls : CallFault(c)
    \/ (\E p \in Pollers : PollFault(p)) /\ Disturbed
    \/ (\E j \in Jobs : Held(j) /\ LeaseEnds(j)) /\ Disturbed
    \/ Cancel /\ Disturbed
    \/ \E f \in Prints : LockExpires(f)

Spec == Init /\ [][Next]_vars
Fairness == WF_vars(Progress)
FairSpec == Spec /\ Fairness

-----------------------------------------------------------------------------
(* Properties *)

TypeOK ==
    /\ IndexTypeOK
    /\ settings \in Settings /\ lock \in [Prints -> Jobs \cup {None}]
    /\ total \in Nat /\ finished \subseteq Jobs
    /\ doubt \subseteq Jobs /\ lost \in BOOLEAN /\ faults \in Nat
    /\ \A c \in Calls :
        /\ push[c].at \in {"claim", "reserve", "produce", "index", "release",
                           "returned", "failed"}
        /\ push[c].ok \subseteq push[c].plan /\ push[c].plan \subseteq settings.calls[c].jobs

\* A job that can still run, or has been given up or ended.
Live(j) == (topic[j] > 0 \/ entry[j] # "none") /\ j \notin finished
Fired(j) == entry[j] # "none" \/ Settled(j)

\* A job the client reports as pushed is never lost: it is in the index, on its
\* topic, parked, or was dropped with its batch or by retention, whatever fails and
\* however the pollers' leases overlap (flags of scheduleMessages; Tick, Ack).
PushedAccounted == \A c \in Calls : \A j \in push[c].ok : Fired(j)

\* Two jobs with one fingerprint are never live at a time, save a job whose outcome
\* was misreported or whose lock was lost: only definite failures release, and a job
\* that lost its lock never takes away its successor's (rollbackPlans; releaseLua).
UniqueLive ==
    \A i, j \in Jobs \ doubt : i # j /\ Fp(i) = Fp(j) => ~(Live(i) /\ Live(j))

\* The batch's total covers every job of it that went out, at all times, so that the
\* batch does not complete early, and is exact once the calls are over, so that it waits
\* for no job that was rolled back (reserve, rollbackPlans; excused: a misreported
\* outcome, a dead caller).  A parked or dropped job has gone out all the same.
TotalCovers ==
    LET N == Cardinality({j \in Jobs : Fired(j) /\ \E c \in Calls :
                                            settings.calls[c].batch /\ j \in settings.calls[c].jobs})
    IN /\ doubt = {} => N <= total
       /\ doubt = {} /\ ~lost /\ (\A c \in Calls : push[c].at \in {"returned", "failed"})
            => N = total

\* When the calls are over, a lock is held only for a job that is live or was given
\* up by the pollers: a rolled-back push leaves nothing locked (rollbackPlans,
\* planPushes; excused: a job in doubt, a dead caller, and "raise", which keeps what
\* the failed call had claimed).
LocksFollowJobs ==
    ~lost /\ ~settings.raise
        /\ (\A c \in Calls : push[c].at \in {"returned", "failed"})
        => \A f \in Prints : lock[f] # None => Live(lock[f]) \/ lock[f] \in doubt \cup dlt \cup dropped

\* Every entry of the index is dispatched, parked or dropped in the end, and the
\* index empties for good (Tick, Reclaim; the fairness is that a poller runs).
IndexDrains == <>[](\A j \in Jobs : entry[j] = "none")

====
