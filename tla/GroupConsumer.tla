--------------------------- MODULE GroupConsumer ----------------------------
(***************************************************************************)
(* One member of a consumer group (pkg/daemon) and one partition: the poll *)
(* loop, the four ways a poll is worked through, the pauses, and the       *)
(* group: rebalances, evictions, automatic commits, the members that own   *)
(* the partition in between, and the member's crash.                       *)
(*                                                                         *)
(* mode is the executor the consumer was started with:                     *)
(*   serial      runConsumerLoop and processRetryRecords: in offset order, *)
(*               a failed or not yet due record pauses the partition       *)
(*   superfetch  SuperFetchExecutor: claim into the working set, then mark *)
(*   watermark   WatermarkExecutor: a pool, commits the contiguous prefix  *)
(*   engine      partitionEngine: batches handed to the partition's worker *)
(*                                                                         *)
(* The Kafka client is external.  Its marks are a high-water mark (head),  *)
(* committed when it differs from what was committed last (acked);         *)
(* SetOffsets moves cursor, head and acked; a member that owns a partition *)
(* keeps its cursor over a rebalance that leaves it the partition.         *)
(***************************************************************************)
EXTENDS Integers, FiniteSets

CONSTANTS
    N,           \* offsets in the partition
    Modes,       \* the executors to start with
    MaxPoll,     \* bound: records of one poll
    Window,      \* slots of the watermark executor
    Buffer,      \* capacity of the engine's worker channel
    MaxFaults    \* bound: failures, rebalances, crashes and pauses

Executors == {"serial", "superfetch", "watermark", "engine"}

ASSUME ConsumerAssumption ==
    /\ N \in Nat /\ MaxFaults \in Nat
    /\ MaxPoll \in Nat \ {0} /\ Window \in Nat \ {0} /\ Buffer \in Nat \ {0}
    /\ Modes \subseteq Executors

VARIABLES
    mode,      \* the executor
    committed, \* the group's committed offset
    owned,     \* the broker takes this member for the partition's owner
    assigned,  \* the member takes itself for it
    cursor,    \* next offset to fetch
    head,      \* offset after the last marked record
    acked,     \* what the client last committed or was set to
    killed,    \* the consumption killswitch: "off", or on for the topic or the partition
    partPaused,  \* the member paused the partition for the killswitch
    fetchPaused, \* PauseFetchPartitions is in force, whoever asked for it
    deferred,  \* deferredPaused: the offset the partition was paused at, or None
    timers,    \* running timers of deferred pauses
    pc,        \* the poll loop: at "poll", at "collect" or at "process"
    lo, hi,    \* the polled records not yet worked through: lo..hi-1
    queue,     \* engine: the worker's channel
    waiting,   \* engine: the batch a full channel keeps out, as a set
    current,   \* engine: the batch the worker handles, as a set
    expected,  \* watermark: next offset to commit, or None
    done,      \* watermark: completed offsets waiting for the prefix
    pending,   \* watermark: dispatched offsets not yet committed or failed
    slots,     \* watermark: slots of the window in use
    handled,   \* history: offsets whose record was handled
    forsaken,  \* history: offsets that later marks may pass unhandled
    unresumed, \* history: the partition was revoked under a pause nothing will end
    faults     \* history: faults so far

kafka   == <<cursor, head, acked>>
group   == <<committed, owned, assigned, unresumed>>
loop    == <<pc, lo, hi>>
switch  == <<killed, partPaused, fetchPaused>>
engine  == <<queue, waiting, current>>
tracker == <<expected, done, pending, slots>>
vars    == <<mode, kafka, group, switch, deferred, timers, loop, engine, tracker, handled, forsaken, faults>>

None    == -1
Offsets == 0..(N - 1)
Batch   == [lo : Offsets, hi : 1..N]
Span(r) == r.lo..(r.hi - 1)

Fault == faults < MaxFaults /\ faults' = faults + 1

Init ==
    /\ mode \in Modes
    /\ committed = 0 /\ owned = FALSE /\ assigned = FALSE
    /\ cursor = 0 /\ head = 0 /\ acked = 0
    /\ killed = "off" /\ partPaused = FALSE /\ fetchPaused = FALSE /\ deferred = None /\ timers = 0
    /\ pc = "poll" /\ lo = 0 /\ hi = 0
    /\ queue = {} /\ waiting = {} /\ current = {}
    /\ expected = None /\ done = {} /\ pending = {} /\ slots = 0
    /\ handled = {} /\ forsaken = {} /\ unresumed = FALSE /\ faults = 0

-----------------------------------------------------------------------------
(* The Kafka client *)

\* MarkCommitRecords up to offset n: marks never move back, and those of a
\* partition the member does not hold are ignored.
Mark(n) == head' = IF assigned /\ head < n THEN n ELSE head

SetOffsets(o) == cursor' = o /\ head' = o /\ acked' = o

\* What CommitMarkedOffsets leaves committed.
Commit == IF assigned /\ owned /\ head # acked THEN head ELSE committed

AutoCommit ==
    /\ assigned /\ owned /\ head # acked
    /\ committed' = Commit /\ acked' = head
    /\ UNCHANGED <<mode, forsaken, owned, assigned, unresumed, cursor, head, switch, deferred, timers, loop, engine,
                   tracker, handled, faults>>

-----------------------------------------------------------------------------
(* The watermark executor's tracker *)

\* Everything up to a completion is marked, over the gap it may leave.
FaultyFlushMarks ==
    IF expected = None
    THEN UNCHANGED <<tracker, head>>
    ELSE \E n \in expected..N :
            /\ n = expected \/ n - 1 \in done
            /\ \A d \in done : d < n
            /\ expected' = n
            /\ done' = done \ (expected..(n - 1))
            /\ pending' = pending \ (expected..(n - 1))
            /\ slots' = slots - (n - expected)
            /\ IF n = expected THEN head' = head ELSE Mark(n)

\* FlushMarks: the contiguous run of completions from expected is marked, and
\* gives back one slot per offset.
FlushMarks ==
    IF expected = None
    THEN UNCHANGED <<tracker, head>>
    ELSE \E n \in expected..N :
            /\ (expected..(n - 1)) \subseteq done /\ n \notin done
            /\ expected' = n
            /\ done' = done \ (expected..(n - 1))
            /\ pending' = pending \ (expected..(n - 1))
            /\ slots' = slots - (n - expected)
            /\ IF n = expected THEN head' = head ELSE Mark(n)

\* register, for an offset that is not pending: the first record seeds expected,
\* one below it moves it back.
Register(o) ==
    LET reset == expected = None \/ o < expected
    IN  /\ expected' = IF reset THEN o ELSE expected
        /\ done' = IF reset THEN {d \in done : d >= o} ELSE done
        /\ pending' = pending \cup {o}
        /\ slots' = slots + 1

-----------------------------------------------------------------------------
(* The poll loop: runGroupPollLoop *)

\* syncConsumptionFetchPause, before every poll: a partition the killswitch no longer
\* stops is fetched again, whatever else may have paused it.
SyncFetchPause ==
    LET released == partPaused /\ killed = "off"
    IN  /\ partPaused' = (partPaused /\ ~released)
        /\ fetchPaused' = (fetchPaused /\ ~released)
        /\ UNCHANGED killed

\* A poll of k records; the watermark executor flushes on every poll.
Poll(k) ==
    /\ pc = "poll" /\ mode # "engine" /\ assigned /\ killed # "topic" /\ cursor + k <= N
    /\ SyncFetchPause /\ ~fetchPaused'
    /\ cursor' = cursor + k
    /\ pc' = "collect" /\ lo' = cursor /\ hi' = cursor + k
    /\ IF mode = "watermark" THEN FlushMarks ELSE UNCHANGED <<tracker, head>>
    /\ UNCHANGED <<mode, forsaken, acked, group, deferred, timers, engine, handled, faults>>

\* A poll that comes back empty.
IdlePoll ==
    /\ pc = "poll"
    /\ SyncFetchPause
    /\ IF mode = "watermark" THEN FlushMarks ELSE UNCHANGED <<tracker, head>>
    /\ UNCHANGED <<mode, forsaken, cursor, acked, group, deferred, timers, loop, engine, handled,
                   faults>>

\* Marks are free to pass these records, unless the watermark executor's prefix
\* holds them back.
Forsake(S) ==
    forsaken' = IF mode = "watermark" /\ expected # None THEN forsaken ELSE forsaken \cup S

\* Skipped records are left to the next poll, without rewinding.
FaultyCollect(j) ==
    /\ pc = "collect" /\ j \in lo..hi /\ (killed # "off" \/ j = hi)
    /\ hi' = j /\ lo' = lo /\ pc' = IF lo < j THEN "process" ELSE "poll"
    /\ UNCHANGED <<mode, forsaken, kafka, group, switch, deferred, timers, engine, tracker, handled, faults>>

\* pauseConsumptionPartition, when the partition is stopped and the topic is not.
PauseSkipped ==
    /\ partPaused' = (partPaused \/ killed = "partition")
    /\ fetchPaused' = (fetchPaused \/ (killed = "partition" /\ ~partPaused))

\* collectPollRecords: the killswitch may have come on since the poll, or while
\* the records are gone through; from there on they are skipped, and the client
\* is set back to the first of them.
Collect(j) ==
    /\ pc = "collect" /\ j \in lo..hi /\ (killed # "off" \/ j = hi)
    /\ IF j < hi THEN SetOffsets(j) /\ PauseSkipped
       ELSE UNCHANGED <<kafka, partPaused, fetchPaused>>
    /\ hi' = j /\ lo' = lo /\ pc' = IF lo < j THEN "process" ELSE "poll"
    /\ UNCHANGED <<mode, forsaken, group, killed, deferred, timers, engine, tracker, handled, faults>>

\* The killswitch goes off while the records are gone through: the first ones are
\* skipped, those from k on are not, and the marks of these pass the skipped ones.
CollectReleased(k) ==
    /\ pc = "collect" /\ killed # "off" /\ lo < k /\ k < hi
    /\ killed' = "off" /\ PauseSkipped
    /\ SetOffsets(lo)
    /\ lo' = k /\ hi' = hi /\ pc' = "process"
    /\ Forsake(lo..(k - 1))
    /\ UNCHANGED <<mode, group, deferred, timers, engine, tracker, handled, faults>>

\* The record at lo is through.
Advance == lo' = lo + 1 /\ hi' = hi /\ pc' = IF lo + 1 < hi THEN "process" ELSE "poll"

\* The rest of the poll is given up.
GiveUp == pc' = "poll" /\ UNCHANGED <<lo, hi>>

-----------------------------------------------------------------------------
(* The serial executors *)

Handle ==
    /\ pc = "process" /\ mode = "serial"
    /\ handled' = handled \cup {lo}
    /\ Mark(lo + 1) /\ Advance
    /\ UNCHANGED <<mode, forsaken, cursor, acked, group, switch, deferred, timers, engine, tracker, faults>>

\* The handler fails, pushes back, or finds the record not due: deferClientPartitionPause,
\* and the rest of the partition's records wait.  A deferral in force at the same offset
\* or below is taken to have moved the cursor back; it has not if the killswitch's
\* release had the partition fetched again.  (The first deferral counts as a fault.)
HandleError ==
    /\ pc = "process" /\ mode = "serial"
    /\ IF deferred = None THEN Fault ELSE UNCHANGED faults
    /\ IF deferred = None \/ lo < deferred
       THEN deferred' = lo /\ SetOffsets(lo) /\ UNCHANGED forsaken
       ELSE Forsake(lo..(hi - 1)) /\ UNCHANGED <<deferred, kafka>>
    /\ fetchPaused' = TRUE
    /\ timers' = timers + 1
    /\ GiveUp
    /\ UNCHANGED <<mode, group, killed, partPaused, engine, tracker, handled>>

\* The pause is forgotten and the partition not resumed.
FaultyTimerFires ==
    /\ timers > 0
    /\ timers' = timers - 1
    /\ deferred' = None
    /\ UNCHANGED <<mode, forsaken, kafka, group, switch, loop, engine, tracker, handled, faults>>

\* clearDeferredPartitionPause: a timer ends whatever pause it finds.
TimerFires ==
    /\ timers > 0
    /\ timers' = timers - 1
    /\ deferred' = None
    /\ fetchPaused' = (fetchPaused /\ deferred = None)
    /\ UNCHANGED <<mode, forsaken, kafka, group, killed, partPaused, loop, engine, tracker, handled, faults>>

-----------------------------------------------------------------------------
(* The super fetch executor; SuperFetch.tla has what happens to a claim *)

\* A claim that is won or lost, or a duplicate of one held here: the working set
\* has the record's job, and the record is marked.
Claim ==
    /\ pc = "process" /\ mode = "superfetch"
    /\ handled' = handled \cup {lo}
    /\ Mark(lo + 1) /\ Advance
    /\ UNCHANGED <<mode, forsaken, cursor, acked, group, switch, deferred, timers, engine, tracker, faults>>

\* A claim of unknown outcome, or an abort: rewindUndispatched.
Rewind(landed) ==
    /\ pc = "process" /\ mode = "superfetch" /\ Fault
    /\ handled' = IF landed THEN handled \cup {lo} ELSE handled
    /\ SetOffsets(lo) /\ GiveUp
    /\ UNCHANGED <<mode, forsaken, group, switch, deferred, timers, engine, tracker>>

-----------------------------------------------------------------------------
(* The watermark executor *)

\* An offset that is in flight is dispatched a second time.
FaultyDispatch ==
    /\ pc = "process" /\ mode = "watermark" /\ lo < hi /\ slots < Window
    /\ Register(lo)
    /\ lo' = lo + 1 /\ UNCHANGED <<pc, hi>>
    /\ UNCHANGED <<mode, forsaken, kafka, group, switch, deferred, timers, engine, handled, faults>>

\* DispatchAndCommit takes a slot and registers the record, or gives the slot
\* back if the offset is still in flight.
Dispatch ==
    /\ pc = "process" /\ mode = "watermark" /\ lo < hi /\ slots < Window
    /\ IF lo \in pending THEN UNCHANGED tracker ELSE Register(lo)
    /\ lo' = lo + 1 /\ UNCHANGED <<pc, hi>>
    /\ UNCHANGED <<mode, forsaken, kafka, group, switch, deferred, timers, engine, handled, faults>>

\* The window is full: flush and try again.
AwaitSlot ==
    /\ pc = "process" /\ mode = "watermark" /\ lo < hi /\ slots >= Window
    /\ FlushMarks
    /\ UNCHANGED <<mode, forsaken, cursor, acked, group, switch, deferred, timers, loop, engine, handled,
                   faults>>

\* All are dispatched; or a rebalance waits for the poll gate, the context is
\* cancelled and the rest is not dispatched.
DispatchEnds ==
    /\ pc = "process" /\ mode = "watermark"
    /\ \/ lo = hi /\ UNCHANGED <<faults, forsaken>>
       \/ /\ lo < hi /\ Fault
          /\ Forsake(lo..(hi - 1))
    /\ FlushMarks
    /\ GiveUp
    /\ UNCHANGED <<mode, cursor, acked, group, switch, deferred, timers, engine, handled>>

\* perform and noteDone.
Perform(o) ==
    /\ o \in pending \ done
    /\ handled' = handled \cup {o}
    /\ IF o >= expected
       THEN done' = done \cup {o} /\ UNCHANGED <<pending, slots>>
       ELSE pending' = pending \ {o} /\ slots' = slots - 1 /\ done' = done
    /\ UNCHANGED <<mode, forsaken, kafka, group, switch, deferred, timers, loop, engine, expected, faults>>

\* perform and fail.
PerformError(o) ==
    /\ o \in pending \ done /\ Fault
    /\ pending' = pending \ {o} /\ slots' = slots - 1
    /\ UNCHANGED <<mode, forsaken, kafka, group, switch, deferred, timers, loop, engine, expected, done,
                   handled>>

-----------------------------------------------------------------------------
(* The partition engine.  Batches in the channel are in offset order.      *)

\* A poll of k records, routed to the worker; a full channel pauses the
\* partition and the batch waits outside.
Route(k) ==
    /\ pc = "poll" /\ mode = "engine" /\ assigned /\ killed # "topic" /\ ~fetchPaused /\ cursor + k <= N
    /\ cursor' = cursor + k
    /\ LET r == [lo |-> cursor, hi |-> cursor + k]
       IN  IF Cardinality(queue) < Buffer
           THEN queue' = queue \cup {r} /\ UNCHANGED <<waiting, fetchPaused>>
           ELSE waiting' = {r} /\ fetchPaused' = TRUE /\ queue' = queue
    /\ UNCHANGED <<mode, forsaken, head, acked, group, killed, partPaused, deferred, timers, loop, current, tracker,
                   handled, faults>>

\* The worker takes the oldest batch, and the one outside takes its place.
WorkerTake(r) ==
    /\ current = {} /\ r \in queue /\ \A q \in queue : r.lo <= q.lo
    /\ current' = {r}
    /\ queue' = (queue \ {r}) \cup waiting
    /\ waiting' = {}
    /\ fetchPaused' = (fetchPaused /\ waiting = {})
    /\ UNCHANGED <<mode, forsaken, kafka, group, killed, partPaused, deferred, timers, loop, tracker, handled, faults>>

WorkerDone(r) ==
    /\ r \in current
    /\ handled' = handled \cup Span(r)
    /\ Mark(r.hi)
    /\ current' = {}
    /\ UNCHANGED <<mode, forsaken, cursor, acked, group, switch, deferred, timers, loop, queue, waiting,
                   tracker, faults>>

\* The handler returns an error: nothing is marked and the worker goes on.
WorkerError ==
    /\ current # {} /\ Fault
    /\ current' = {}
    /\ Forsake(UNION {Span(r) : r \in current})
    /\ UNCHANGED <<mode, kafka, group, switch, deferred, timers, loop, queue, waiting, tracker,
                   handled>>

-----------------------------------------------------------------------------
(* The group and the environment *)

Assign ==
    /\ ~assigned /\ ~owned /\ pc = "poll"
    /\ assigned' = TRUE /\ owned' = TRUE
    /\ cursor' = committed /\ head' = committed /\ acked' = committed
    /\ UNCHANGED <<mode, forsaken, committed, unresumed, switch, deferred, timers, loop, engine, tracker,
                   handled, faults>>

\* The member lets the partition go, between polls: a rebalance, a client that is
\* closed and started anew (restart), or an eviction that it learns of.  The
\* engine's worker is waited for; the marks are committed if the broker lets it.
\* The executor and its tracker live on.  dropDeferredForRevoked and the engine forget
\* their pauses without ending them, and the client keeps the partition paused until
\* it is resumed: only a pause of the killswitch still is.
Revoke(restart) ==
    /\ assigned /\ pc = "poll" /\ current = {}
    /\ IF owned THEN Fault ELSE faults' = faults
    /\ committed' = Commit
    /\ assigned' = FALSE /\ owned' = FALSE
    /\ queue' = {} /\ waiting' = {} /\ deferred' = None
    /\ timers' = IF restart THEN 0 ELSE timers
    /\ fetchPaused' = (fetchPaused /\ ~restart) /\ partPaused' = (partPaused /\ ~restart)
    /\ unresumed' = (~restart /\ (unresumed \/ (fetchPaused /\ ~partPaused)))
    /\ UNCHANGED <<mode, forsaken, kafka, killed, loop, current, tracker, handled>>

\* The session times out and the broker gives the partition away.
Evict ==
    /\ owned /\ Fault
    /\ owned' = FALSE
    /\ UNCHANGED <<mode, forsaken, unresumed, kafka, committed, assigned, switch, deferred, timers, loop, engine, tracker,
                   handled>>

\* Another member owns the partition, handles records and commits them.
Elsewhere(n) ==
    /\ ~owned /\ committed < n
    /\ handled' = handled \cup committed..(n - 1)
    /\ committed' = n
    /\ UNCHANGED <<mode, forsaken, unresumed, kafka, owned, assigned, switch, deferred, timers, loop, engine,
                   tracker, faults>>

Crash ==
    /\ Fault
    /\ assigned' = FALSE /\ owned' = FALSE
    /\ deferred' = None /\ timers' = 0 /\ partPaused' = FALSE /\ fetchPaused' = FALSE /\ unresumed' = FALSE
    /\ pc' = "poll" /\ UNCHANGED <<lo, hi>>
    /\ queue' = {} /\ waiting' = {} /\ current' = {}
    /\ expected' = None /\ done' = {} /\ pending' = {} /\ slots' = 0
    /\ UNCHANGED <<mode, forsaken, kafka, committed, killed, handled>>

Kill(level) ==
    /\ killed = "off" /\ Fault
    /\ killed' = level
    /\ UNCHANGED <<mode, forsaken, kafka, group, partPaused, fetchPaused, deferred, timers, loop, engine, tracker, handled>>

Unkill ==
    /\ killed # "off"
    /\ killed' = "off"
    /\ UNCHANGED <<mode, forsaken, kafka, group, partPaused, fetchPaused, deferred, timers, loop, engine, tracker, handled, faults>>

-----------------------------------------------------------------------------
Loop ==
    \/ \E k \in 1..MaxPoll : Poll(k) \/ Route(k)
    \/ IdlePoll
    \/ \E j \in 0..N : Collect(j) \/ CollectReleased(j)
    \/ Handle \/ Claim \/ Dispatch \/ AwaitSlot \/ DispatchEnds

Worker == \E r \in Batch : WorkerTake(r) \/ WorkerDone(r)

Failures ==
    \/ HandleError \/ WorkerError \/ Evict \/ Crash
    \/ \E level \in {"topic", "partition"} : Kill(level)
    \/ \E landed \in BOOLEAN : Rewind(landed)
    \/ \E o \in Offsets : PerformError(o)

Next ==
    \/ Loop \/ Worker \/ TimerFires \/ AutoCommit \/ Assign \/ Unkill \/ Failures
    \/ \E o \in Offsets : Perform(o)
    \/ \E restart \in BOOLEAN : Revoke(restart)
    \/ \E n \in 1..N : Elsewhere(n)

Spec == Init /\ [][Next]_vars

\* The loop polls and works, workers and timers run, the client commits, the
\* broker assigns, and an evicted member finds out.
FairSpec ==
    /\ Spec
    /\ WF_vars(Loop) /\ WF_vars(Worker) /\ WF_vars(TimerFires) /\ WF_vars(AutoCommit)
    /\ WF_vars(Assign) /\ WF_vars(\E o \in Offsets : Perform(o))
    /\ WF_vars(~owned /\ \E restart \in BOOLEAN : Revoke(restart))

-----------------------------------------------------------------------------
\* Type invariant.
TypeOK ==
    /\ mode \in Modes
    /\ committed \in 0..N /\ cursor \in 0..N /\ head \in 0..N /\ acked \in 0..N
    /\ owned \in BOOLEAN /\ assigned \in BOOLEAN /\ killed \in {"off", "topic", "partition"}
    /\ partPaused \in BOOLEAN /\ fetchPaused \in BOOLEAN
    /\ deferred \in {None} \cup Offsets /\ timers \in Nat
    /\ pc \in {"poll", "collect", "process"} /\ lo \in 0..N /\ hi \in 0..N
    /\ queue \subseteq Batch /\ waiting \subseteq Batch /\ current \subseteq Batch
    /\ expected \in {None} \cup 0..N /\ done \subseteq Offsets /\ pending \subseteq Offsets
    /\ slots \in Int
    /\ handled \subseteq Offsets /\ forsaken \subseteq Offsets /\ unresumed \in BOOLEAN
    /\ faults \in 0..MaxFaults

\* The records the member has polled and still answers for: in the poll loop, in
\* the engine's channel or worker, or, for the watermark executor, held back by
\* the prefix they would break.
InHand(o) ==
    \/ pc # "poll" /\ lo <= o /\ o < hi
    \/ \E r \in queue \cup waiting \cup current : o \in Span(r)
    \/ mode = "watermark" /\ expected # None /\ expected <= o

\* Pauses, skips, aborts and failures leave no record behind the cursor that is
\* neither handled nor in hand (else "later marks would commit past the skipped
\* records", consumers.go), but for the four ways into forsaken: a batch the
\* engine's worker failed on, an abort before the watermark tracker was seeded, a
\* killswitch that goes off in the middle of a poll's records, and a deferred record
\* polled again when the partition's killswitch goes off.
NothingStranded ==
    assigned => \A o \in Offsets : o < cursor => o \in handled \cup forsaken \/ InHand(o)

\* Every slot of the watermark executor's window belongs to one offset in flight:
\* redeliveries, failures and completions after a reset leak none.
SlotsBalanced == slots = Cardinality(pending) /\ slots <= Window

D == INSTANCE Delivery WITH handled <- handled \cup forsaken

\* The consumer delivers at least once: but for what is forsaken it implements the
\* safety part of Delivery.
AtLeastOnce == D!Safety

\* The partition is drained and committed once failures and rebalances end and the
\* killswitch is off, but for a partition that was revoked while it was paused and came
\* back: no timer or worker resumes it, and it waits for the client to be started anew.
\* The watermark executor promises less: a record that fails holds its partition up
\* until a rebalance or a restart.
Drains ==
    mode # "watermark" /\ []<>(killed = "off")
        => <>[](forsaken # {} \/ unresumed \/ (handled = Offsets /\ committed = N))

=============================================================================
