------------------------ MODULE GroupConsumerProofs -------------------------
(***************************************************************************)
(* The consumer delivers at least once, for every partition length, poll   *)
(* size, window, channel capacity and number of faults, and whichever      *)
(* executor it was started with: GroupConsumer implements Delivery.        *)
(***************************************************************************)
EXTENDS GroupConsumer, FiniteSetTheorems, TLAPS

Settled(o) == o \in handled \cup forsaken

\* Every record below n is settled.
Through(n) == \A o \in Offsets : o < n => Settled(o)

\* Offsets and batches are those of the partition.
Bounds ==
    /\ committed \in 0..N /\ cursor \in 0..N /\ head \in 0..N /\ acked \in 0..N
    /\ lo \in 0..N /\ hi \in 0..N /\ deferred \in {None} \cup Offsets
    /\ queue \subseteq Batch /\ waiting \subseteq Batch /\ current \subseteq Batch
    /\ expected \in {None} \cup 0..N /\ done \subseteq Offsets /\ pending \subseteq Offsets
    /\ handled \subseteq Offsets /\ forsaken \subseteq Offsets

\* What the group or the client may commit is settled.
MarksInv ==
    /\ Through(committed)
    /\ head # acked => Through(head)

\* The poll loop: the cursor is not past the poll's records, and unless a watermark
\* tracker takes care of them, what is below the record in hand is settled.
LoopInv ==
    /\ pc # "poll" => assigned /\ mode # "engine" /\ cursor <= hi
    /\ pc # "poll" /\ expected = None => Through(lo)
    /\ pc = "collect" => lo < hi
    /\ pc = "process" => lo <= hi /\ (mode # "watermark" => lo < hi)

\* The watermark tracker: everything below its next offset is settled.
TrackerInv ==
    /\ mode # "watermark" => expected = None
    /\ expected = None => pending = {} /\ done = {}
    /\ expected # None => Through(expected)
    /\ done \subseteq handled

Batches == queue \cup waiting \cup current

\* The engine: batches are in order, none is outside the channel unless the partition
\* is paused, and what is below the worker's batch is settled.
EngineInv ==
    /\ mode # "engine" \/ ~assigned => Batches = {}
    /\ mode = "engine" => ~partPaused /\ deferred = None
    /\ waiting # {} => fetchPaused
    /\ \A r \in Batches : r.lo < r.hi /\ r.hi <= cursor
    /\ \A q \in queue, w \in waiting : q.lo <= w.lo
    /\ \A r \in current : Through(r.lo)
    /\ \A r, s \in current : r = s

DeliveryInv ==
    Bounds /\ MarksInv /\ NothingStranded /\ LoopInv /\ TrackerInv /\ EngineInv

-----------------------------------------------------------------------------
\* What a flush of the watermark tracker leaves: it moves over completed offsets only.
FlushEffect ==
    /\ expected' \in {None} \cup 0..N /\ (expected' = None <=> expected = None)
    /\ done' \subseteq done /\ pending' \subseteq pending
    /\ \A o \in Offsets : o < expected' => o < expected \/ o \in done
    /\ head' \in 0..N /\ (head' = head \/ (expected' # None /\ head' = expected'))

\* The flush loop of FlushMarks, which the poll and the dispatch call as well, moves
\* the prefix over completed offsets only.
LEMMA FlushMarksPrefix ==
    ASSUME Bounds, FlushMarks \/ UNCHANGED <<tracker, head>>
    PROVE  FlushEffect
<1>1. CASE UNCHANGED <<tracker, head>>
  BY <1>1, Zenon DEF Bounds, FlushEffect, tracker
<1>2. CASE FlushMarks /\ expected # None
  <2>1. PICK n \in expected..N :
            /\ (expected..(n - 1)) \subseteq done
            /\ expected' = n
            /\ done' = done \ (expected..(n - 1))
            /\ pending' = pending \ (expected..(n - 1))
            /\ IF n = expected THEN head' = head ELSE Mark(n)
    BY <1>2, Zenon DEF FlushMarks
  <2>2. expected \in 0..N /\ n \in 0..N
    BY <1>2, <2>1, ConsumerAssumption DEF Bounds
  <2>3. \A o \in Offsets : o < n => o < expected \/ o \in done
    BY <2>1, <2>2, ConsumerAssumption DEF Offsets
  <2>. QED BY <1>2, <2>1, <2>2, <2>3, ConsumerAssumption DEF Bounds, Mark, FlushEffect, None
<1>. QED BY <1>1, <1>2, Zenon DEF FlushMarks

\* The client's automatic commit of the marked offsets commits what is settled.
LEMMA AutoCommitKeeps ==
    ASSUME DeliveryInv, AutoCommit
    PROVE  DeliveryInv'
<1>. USE ConsumerAssumption DEF DeliveryInv, Through, Settled, Offsets, None, AutoCommit,
         Commit, kafka, group, switch, loop, engine, tracker
<1>1. Bounds'
  BY Zenon DEF Bounds
<1>2. MarksInv'
  BY Zenon DEF MarksInv
<1>3. NothingStranded'
  BY Zenon DEF NothingStranded, InHand
<1>4. LoopInv'
  BY Zenon DEF LoopInv
<1>5. TrackerInv'
  BY Zenon DEF TrackerInv
<1>6. EngineInv'
  BY Zenon DEF EngineInv, Batches
<1>. QED BY <1>1, <1>2, <1>3, <1>4, <1>5, <1>6, Zenon

\* A poll leaves what it fetched in the loop's hands.
LEMMA PollKeeps ==
    ASSUME DeliveryInv, NEW k \in 1..MaxPoll, Poll(k)
    PROVE  DeliveryInv'
<1>. USE ConsumerAssumption DEF DeliveryInv, Through, Settled, Offsets, None, Poll,
         SyncFetchPause, FlushEffect, kafka, group, switch, loop, engine, tracker
<1>0. FlushEffect
  BY FlushMarksPrefix, Zenon DEF Poll
<1>1. Bounds'
  BY <1>0 DEF Bounds
<1>2. MarksInv'
  BY <1>0, Zenon DEF MarksInv, TrackerInv
<1>3. NothingStranded'
  BY <1>0 DEF NothingStranded, InHand, Bounds, TrackerInv
<1>4. LoopInv'
  BY <1>0 DEF LoopInv, Bounds, NothingStranded, InHand, EngineInv, Batches
<1>5. TrackerInv'
  BY <1>0, Zenon DEF TrackerInv
<1>6. EngineInv'
  BY <1>0, Zenon DEF EngineInv, Batches
<1>. QED BY <1>1, <1>2, <1>3, <1>4, <1>5, <1>6, Zenon

\* An empty poll flushes the watermark tracker and lifts a released pause.
LEMMA IdlePollKeeps ==
    ASSUME DeliveryInv, IdlePoll
    PROVE  DeliveryInv'
<1>. USE ConsumerAssumption DEF DeliveryInv, Through, Settled, Offsets, None, IdlePoll,
         SyncFetchPause, FlushEffect, kafka, group, switch, loop, engine, tracker
<1>0. FlushEffect
  BY FlushMarksPrefix, Zenon DEF IdlePoll
<1>1. Bounds'
  BY <1>0, Zenon DEF Bounds
<1>2. MarksInv'
  BY <1>0, Zenon DEF MarksInv, TrackerInv
<1>3. NothingStranded'
  BY <1>0 DEF NothingStranded, InHand, TrackerInv
<1>4. LoopInv'
  BY <1>0, Zenon DEF LoopInv
<1>5. TrackerInv'
  BY <1>0, Zenon DEF TrackerInv
<1>6. EngineInv'
  BY <1>0, Zenon DEF EngineInv, Batches
<1>. QED BY <1>1, <1>2, <1>3, <1>4, <1>5, <1>6, Zenon

\* collectPollRecords sets the client back to the first record it skips.
LEMMA CollectKeeps ==
    ASSUME DeliveryInv, NEW j \in 0..N, Collect(j)
    PROVE  DeliveryInv'
<1>. USE ConsumerAssumption DEF DeliveryInv, Through, Settled, Offsets, None, Collect,
         PauseSkipped, SetOffsets, kafka, group, switch, loop, engine, tracker
<1>1. Bounds'
  BY Zenon DEF Bounds
<1>2. MarksInv'
  BY Zenon DEF MarksInv
<1>3. NothingStranded'
  BY DEF NothingStranded, InHand, Bounds, LoopInv, TrackerInv
<1>4. LoopInv'
  BY DEF LoopInv, Bounds
<1>5. TrackerInv'
  BY Zenon DEF TrackerInv
<1>6. EngineInv'
  BY Zenon DEF EngineInv, Batches, LoopInv
<1>. QED BY <1>1, <1>2, <1>3, <1>4, <1>5, <1>6, Zenon

\* Records skipped before the killswitch went off are forsaken when later ones are not.
LEMMA CollectReleasedKeeps ==
    ASSUME DeliveryInv, NEW k \in 0..N, CollectReleased(k)
    PROVE  DeliveryInv'
<1>. USE ConsumerAssumption DEF DeliveryInv, Through, Settled, Offsets, None,
         CollectReleased, PauseSkipped, SetOffsets, Forsake, kafka, group, switch, loop,
         engine, tracker
<1>1. Bounds'
  BY DEF Bounds
<1>2. MarksInv'
  BY Zenon DEF MarksInv
<1>3. NothingStranded'
  BY DEF NothingStranded, InHand, Bounds, LoopInv, TrackerInv
<1>4. LoopInv'
  BY DEF LoopInv, Bounds
<1>5. TrackerInv'
  BY Zenon DEF TrackerInv
<1>6. EngineInv'
  BY Zenon DEF EngineInv, Batches, LoopInv
<1>. QED BY <1>1, <1>2, <1>3, <1>4, <1>5, <1>6, Zenon

\* The serial loop marks a record it has handled, and all below it are settled.
LEMMA HandleKeeps ==
    ASSUME DeliveryInv, Handle
    PROVE  DeliveryInv'
<1>. USE ConsumerAssumption DEF DeliveryInv, Through, Settled, Offsets, None, Handle, Mark,
         Advance, kafka, group, switch, loop, engine, tracker
<1>1. Bounds'
  BY DEF Bounds, LoopInv
<1>2. MarksInv'
  BY DEF MarksInv, Bounds, LoopInv, TrackerInv
<1>3. NothingStranded'
  BY DEF NothingStranded, InHand, Bounds
<1>4. LoopInv'
  BY DEF LoopInv, Bounds
<1>5. TrackerInv'
  BY Zenon DEF TrackerInv
<1>6. EngineInv'
  BY Zenon DEF EngineInv, Batches
<1>. QED BY <1>1, <1>2, <1>3, <1>4, <1>5, <1>6, Zenon

\* A deferred record takes the cursor back with it, or is forsaken.
LEMMA HandleErrorKeeps ==
    ASSUME DeliveryInv, HandleError
    PROVE  DeliveryInv'
<1>. USE ConsumerAssumption DEF DeliveryInv, Through, Settled, Offsets, None, HandleError,
         Fault, SetOffsets, Forsake, GiveUp, kafka, group, switch, loop, engine, tracker
<1>1. Bounds'
  <2>1. lo \in Offsets /\ lo..(hi - 1) \subseteq Offsets
    BY DEF Bounds, LoopInv
  <2>. QED BY <2>1, Zenon DEF Bounds
<1>2. MarksInv'
  BY Zenon DEF MarksInv
<1>3. NothingStranded'
  BY DEF NothingStranded, Bounds, LoopInv, TrackerInv
<1>4. LoopInv'
  BY Zenon DEF LoopInv
<1>5. TrackerInv'
  BY Zenon DEF TrackerInv
<1>6. EngineInv'
  BY Zenon DEF EngineInv, Batches
<1>. QED BY <1>1, <1>2, <1>3, <1>4, <1>5, <1>6, Zenon

\* A timer ends a pause and moves no offset.
LEMMA TimerFiresKeeps ==
    ASSUME DeliveryInv, TimerFires
    PROVE  DeliveryInv'
<1>. USE ConsumerAssumption DEF DeliveryInv, Through, Settled, Offsets, None, TimerFires,
         kafka, group, switch, loop, engine, tracker
<1>1. Bounds'
  BY Zenon DEF Bounds
<1>2. MarksInv'
  BY Zenon DEF MarksInv
<1>3. NothingStranded'
  BY Zenon DEF NothingStranded, InHand
<1>4. LoopInv'
  BY Zenon DEF LoopInv
<1>5. TrackerInv'
  BY Zenon DEF TrackerInv
<1>6. EngineInv'
  BY Zenon DEF EngineInv, Batches
<1>. QED BY <1>1, <1>2, <1>3, <1>4, <1>5, <1>6, Zenon

\* The super fetch executor marks a record whose job the working set has.
LEMMA ClaimKeeps ==
    ASSUME DeliveryInv, Claim
    PROVE  DeliveryInv'
<1>. USE ConsumerAssumption DEF DeliveryInv, Through, Settled, Offsets, None, Claim, Mark,
         Advance, kafka, group, switch, loop, engine, tracker
<1>1. Bounds'
  BY DEF Bounds, LoopInv
<1>2. MarksInv'
  BY DEF MarksInv, Bounds, LoopInv, TrackerInv
<1>3. NothingStranded'
  BY DEF NothingStranded, InHand, Bounds
<1>4. LoopInv'
  BY DEF LoopInv, Bounds
<1>5. TrackerInv'
  BY Zenon DEF TrackerInv
<1>6. EngineInv'
  BY Zenon DEF EngineInv, Batches
<1>. QED BY <1>1, <1>2, <1>3, <1>4, <1>5, <1>6, Zenon

\* rewindUndispatched takes the cursor back to the record that was not claimed.
LEMMA RewindKeeps ==
    ASSUME DeliveryInv, NEW landed \in BOOLEAN, Rewind(landed)
    PROVE  DeliveryInv'
<1>. USE ConsumerAssumption DEF DeliveryInv, Through, Settled, Offsets, None, Rewind, Fault,
         SetOffsets, GiveUp, kafka, group, switch, loop, engine, tracker
<1>1. Bounds'
  BY DEF Bounds, LoopInv
<1>2. MarksInv'
  BY Zenon DEF MarksInv
<1>3. NothingStranded'
  BY Zenon DEF NothingStranded, LoopInv, TrackerInv
<1>4. LoopInv'
  BY Zenon DEF LoopInv
<1>5. TrackerInv'
  BY Zenon DEF TrackerInv
<1>6. EngineInv'
  BY Zenon DEF EngineInv, Batches
<1>. QED BY <1>1, <1>2, <1>3, <1>4, <1>5, <1>6, Zenon

\* register moves the prefix back to a record below it, never over one.
LEMMA DispatchKeeps ==
    ASSUME DeliveryInv, Dispatch
    PROVE  DeliveryInv'
<1>. USE ConsumerAssumption DEF DeliveryInv, Through, Settled, Offsets, None, Dispatch,
         Register, kafka, group, switch, loop, engine, tracker
<1>1. Bounds'
  <2>1. lo \in Offsets /\ lo' \in 0..N
    BY DEF Bounds
  <2>2. expected' \in {None} \cup 0..N /\ done' \subseteq Offsets /\ pending' \subseteq
         Offsets
    BY <2>1, Zenon DEF Bounds
  <2>. QED BY <2>1, <2>2, Zenon DEF Bounds
<1>2. MarksInv'
  BY Zenon DEF MarksInv
<1>3. NothingStranded'
  BY DEF NothingStranded, InHand, Bounds, TrackerInv
<1>4. LoopInv'
  BY DEF LoopInv, Bounds, TrackerInv
<1>5. TrackerInv'
  <2>1. CASE lo \in pending
    BY <2>1, Zenon DEF TrackerInv
  <2>2. CASE lo \notin pending /\ (expected = None \/ lo < expected)
    <3>1. expected' = lo /\ done' \subseteq done /\ pending' # {} /\ lo # None
      BY <2>2 DEF Bounds
    <3>2. \A o \in Offsets : o < lo => Settled(o)
      BY <2>2 DEF Bounds, TrackerInv, LoopInv
    <3>. QED BY <3>1, <3>2, Zenon DEF TrackerInv
  <2>3. CASE lo \notin pending /\ ~(expected = None \/ lo < expected)
    BY <2>3, Zenon DEF TrackerInv
  <2>. QED BY <2>1, <2>2, <2>3, Zenon
<1>6. EngineInv'
  BY Zenon DEF EngineInv, Batches
<1>. QED BY <1>1, <1>2, <1>3, <1>4, <1>5, <1>6, Zenon

\* The wait for a slot of the window flushes.
LEMMA AwaitSlotKeeps ==
    ASSUME DeliveryInv, AwaitSlot
    PROVE  DeliveryInv'
<1>. USE ConsumerAssumption DEF DeliveryInv, Through, Settled, Offsets, None, AwaitSlot,
         FlushEffect, kafka, group, switch, loop, engine, tracker
<1>0. FlushEffect
  BY FlushMarksPrefix, Zenon DEF AwaitSlot
<1>1. Bounds'
  BY <1>0, Zenon DEF Bounds
<1>2. MarksInv'
  BY <1>0, Zenon DEF MarksInv, TrackerInv
<1>3. NothingStranded'
  BY <1>0 DEF NothingStranded, InHand, TrackerInv
<1>4. LoopInv'
  BY <1>0, Zenon DEF LoopInv
<1>5. TrackerInv'
  BY <1>0, Zenon DEF TrackerInv
<1>6. EngineInv'
  BY <1>0, Zenon DEF EngineInv, Batches
<1>. QED BY <1>1, <1>2, <1>3, <1>4, <1>5, <1>6, Zenon

\* An aborted dispatch leaves its records to the prefix, or forsakes them.
LEMMA DispatchEndsKeeps ==
    ASSUME DeliveryInv, DispatchEnds
    PROVE  DeliveryInv'
<1>. USE ConsumerAssumption DEF DeliveryInv, Through, Settled, Offsets, None, DispatchEnds,
         Fault, Forsake, FlushEffect, GiveUp, kafka, group, switch, loop, engine, tracker
<1>0. FlushEffect
  BY FlushMarksPrefix, Zenon DEF DispatchEnds
<1>1. Bounds'
  <2>1. lo..(hi - 1) \subseteq Offsets
    BY DEF Bounds
  <2>. QED BY <1>0, <2>1, Zenon DEF Bounds
<1>2. MarksInv'
  BY <1>0, Zenon DEF MarksInv, TrackerInv
<1>3. NothingStranded'
  BY <1>0 DEF NothingStranded, InHand, Bounds, TrackerInv
<1>4. LoopInv'
  BY <1>0, Zenon DEF LoopInv
<1>5. TrackerInv'
  BY <1>0, Zenon DEF TrackerInv
<1>6. EngineInv'
  BY <1>0, Zenon DEF EngineInv, Batches
<1>. QED BY <1>1, <1>2, <1>3, <1>4, <1>5, <1>6, Zenon

\* A completion above the prefix waits for it.
LEMMA PerformKeeps ==
    ASSUME DeliveryInv, NEW o \in Offsets, Perform(o)
    PROVE  DeliveryInv'
<1>. USE ConsumerAssumption DEF DeliveryInv, Through, Settled, Offsets, None, Perform,
         kafka, group, switch, loop, engine, tracker
<1>1. Bounds'
  BY Zenon DEF Bounds
<1>2. MarksInv'
  BY Zenon DEF MarksInv
<1>3. NothingStranded'
  BY Zenon DEF NothingStranded, InHand
<1>4. LoopInv'
  BY Zenon DEF LoopInv
<1>5. TrackerInv'
  BY Zenon DEF TrackerInv
<1>6. EngineInv'
  BY Zenon DEF EngineInv, Batches
<1>. QED BY <1>1, <1>2, <1>3, <1>4, <1>5, <1>6, Zenon

\* A failed record leaves the window and stays in front of the prefix.
LEMMA PerformErrorKeeps ==
    ASSUME DeliveryInv, NEW o \in Offsets, PerformError(o)
    PROVE  DeliveryInv'
<1>. USE ConsumerAssumption DEF DeliveryInv, Through, Settled, Offsets, None, PerformError,
         Fault, kafka, group, switch, loop, engine, tracker
<1>1. Bounds'
  BY Zenon DEF Bounds
<1>2. MarksInv'
  BY Zenon DEF MarksInv
<1>3. NothingStranded'
  BY Zenon DEF NothingStranded, InHand
<1>4. LoopInv'
  BY Zenon DEF LoopInv
<1>5. TrackerInv'
  BY Zenon DEF TrackerInv
<1>6. EngineInv'
  BY Zenon DEF EngineInv, Batches
<1>. QED BY <1>1, <1>2, <1>3, <1>4, <1>5, <1>6, Zenon


-----------------------------------------------------------------------------
\* A routed batch is in the channel, or outside of it with the partition paused.
LEMMA RouteKeeps ==
    ASSUME DeliveryInv, NEW k \in 1..MaxPoll, Route(k)
    PROVE  DeliveryInv'
<1>. USE ConsumerAssumption DEF DeliveryInv, Through, Settled, Offsets, None, Route, kafka,
         group, switch, loop, engine, tracker
<1>1. Bounds'
  BY DEF Bounds, Batch
<1>2. MarksInv'
  BY Zenon DEF MarksInv
<1>3. NothingStranded'
  <2>1. SUFFICES ASSUME NEW o \in Offsets, o < cursor', assigned'
                 PROVE  (Settled(o) \/ InHand(o))'
    BY Zenon DEF NothingStranded
  <2>2. CASE o < cursor
    BY <2>1, <2>2, Zenon DEF NothingStranded, InHand, EngineInv
  <2>3. CASE ~(o < cursor)
    <3>1. o \in Span([lo |-> cursor, hi |-> cursor + k])
      BY <2>1, <2>3 DEF Span, Bounds
    <3>. QED BY <3>1, Zenon DEF InHand
  <2>. QED BY <2>2, <2>3, Zenon
<1>4. LoopInv'
  BY Zenon DEF LoopInv
<1>5. TrackerInv'
  BY Zenon DEF TrackerInv
<1>6. EngineInv'
  <2>. DEFINE r == [lo |-> cursor, hi |-> cursor + k]
  <2>1. waiting = {} /\ mode = "engine" /\ assigned
    BY Zenon DEF EngineInv
  <2>2. Batches' = Batches \cup {r} /\ current' = current
    BY <2>1, Zenon DEF Batches
  <2>3. r.lo < r.hi /\ r.hi <= cursor' /\ cursor <= cursor'
    BY DEF Bounds
  <2>4. \A q \in Batches' : q.lo < q.hi /\ q.hi <= cursor'
    <3>1. \A q \in Batches : q \in Batch /\ q.lo < q.hi /\ q.hi <= cursor
      BY Zenon DEF EngineInv, Bounds, Batches
    <3>2. \A q \in Batches : q.hi <= cursor'
      BY <2>3, <3>1 DEF Batch, Bounds
    <3>. QED BY <2>2, <2>3, <3>1, <3>2, Zenon
  <2>5. \A q \in queue', w \in waiting' : q.lo <= w.lo
    <3>1. \A q \in queue : q.lo <= cursor
      BY DEF EngineInv, Bounds, Batch, Batches
    <3>2. waiting' = {} \/ (queue' = queue /\ waiting' = {r})
      BY <2>1, Zenon
    <3>. QED BY <3>1, <3>2
  <2>. QED BY <2>1, <2>2, <2>4, <2>5, Zenon DEF EngineInv
<1>. QED BY <1>1, <1>2, <1>3, <1>4, <1>5, <1>6, Zenon

\* The worker takes batches in offset order: what is below its batch is settled.
LEMMA WorkerTakeKeeps ==
    ASSUME DeliveryInv, NEW r \in Batch, WorkerTake(r)
    PROVE  DeliveryInv'
<1>. USE ConsumerAssumption DEF DeliveryInv, Through, Settled, Offsets, None, WorkerTake,
         kafka, group, switch, loop, engine, tracker
<1>1. Bounds'
  BY Zenon DEF Bounds
<1>2. MarksInv'
  BY Zenon DEF MarksInv
<1>3. NothingStranded'
  BY Zenon DEF NothingStranded, InHand
<1>4. LoopInv'
  BY Zenon DEF LoopInv
<1>5. TrackerInv'
  BY Zenon DEF TrackerInv
<1>6. EngineInv'
  <2>1. Batches' = Batches /\ waiting' = {} /\ current' = {r}
    BY Zenon DEF Batches
  <2>2. Through(r.lo)
    <3>1. SUFFICES ASSUME NEW o \in Offsets, o < r.lo
                   PROVE  Settled(o)
      BY Zenon DEF Through
    <3>2. \A q \in Batches : r.lo <= q.lo
      BY Zenon DEF Batches, EngineInv
    <3>3. mode = "engine" /\ assigned /\ r.lo < r.hi /\ r.hi <= cursor
      BY Zenon DEF Batches, EngineInv
    <3>4. o < cursor
      BY <3>1, <3>3 DEF Bounds, Batch
    <3>5. pc = "poll"
      BY <3>3, Zenon DEF LoopInv
    <3>. QED BY <3>1, <3>2, <3>3, <3>4, <3>5 DEF NothingStranded, InHand, Batches, Span,
           Bounds, Batch
  <2>. QED BY <2>1, <2>2, Zenon DEF EngineInv
<1>. QED BY <1>1, <1>2, <1>3, <1>4, <1>5, <1>6, Zenon

\* The worker marks to the end of a batch it has handled.
LEMMA WorkerDoneKeeps ==
    ASSUME DeliveryInv, NEW r \in Batch, WorkerDone(r)
    PROVE  DeliveryInv'
<1>. USE ConsumerAssumption DEF DeliveryInv, Through, Settled, Offsets, None, WorkerDone,
         Mark, kafka, group, switch, loop, engine, tracker
<1>1. Bounds'
  <2>1. Span(r) \subseteq Offsets /\ r.hi \in 0..N
    BY DEF Batch, Span
  <2>. QED BY <2>1, Zenon DEF Bounds
<1>2. MarksInv'
  <2>1. Through(r.lo) /\ r.hi \in 0..N /\ r.lo \in 0..N
    BY DEF EngineInv, Batch
  <2>2. \A o \in Offsets : o < r.hi => o < r.lo \/ o \in Span(r)
    BY <2>1 DEF Span
  <2>3. \A o \in Offsets : o < r.hi => Settled(o)'
    BY <2>1, <2>2, Zenon
  <2>. QED BY <2>1, <2>3, Zenon DEF MarksInv
<1>3. NothingStranded'
  BY Zenon DEF NothingStranded, InHand, EngineInv
<1>4. LoopInv'
  BY Zenon DEF LoopInv
<1>5. TrackerInv'
  BY Zenon DEF TrackerInv
<1>6. EngineInv'
  BY Zenon DEF EngineInv, Batches
<1>. QED BY <1>1, <1>2, <1>3, <1>4, <1>5, <1>6, Zenon

\* The batch the worker failed on is forsaken.
LEMMA WorkerErrorKeeps ==
    ASSUME DeliveryInv, WorkerError
    PROVE  DeliveryInv'
<1>. USE ConsumerAssumption DEF DeliveryInv, Through, Settled, Offsets, None, WorkerError,
         Fault, Forsake, kafka, group, switch, loop, engine, tracker
<1>1. Bounds'
  <2>1. UNION {Span(r) : r \in current} \subseteq Offsets
    <3>1. \A r \in Batch : Span(r) \subseteq Offsets
      BY DEF Batch, Span
    <3>. QED BY <3>1, Zenon DEF Bounds
  <2>. QED BY <2>1, Zenon DEF Bounds
<1>2. MarksInv'
  BY Zenon DEF MarksInv
<1>3. NothingStranded'
  BY Zenon DEF NothingStranded, InHand, EngineInv, Batches
<1>4. LoopInv'
  BY Zenon DEF LoopInv
<1>5. TrackerInv'
  BY Zenon DEF TrackerInv
<1>6. EngineInv'
  BY Zenon DEF EngineInv, Batches
<1>. QED BY <1>1, <1>2, <1>3, <1>4, <1>5, <1>6, Zenon

\* A new owner starts at the committed offset.
LEMMA AssignKeeps ==
    ASSUME DeliveryInv, Assign
    PROVE  DeliveryInv'
<1>. USE ConsumerAssumption DEF DeliveryInv, Through, Settled, Offsets, None, Assign, kafka,
         group, switch, loop, engine, tracker
<1>1. Bounds'
  BY Zenon DEF Bounds
<1>2. MarksInv'
  BY Zenon DEF MarksInv
<1>3. NothingStranded'
  BY Zenon DEF NothingStranded, MarksInv
<1>4. LoopInv'
  BY Zenon DEF LoopInv
<1>5. TrackerInv'
  BY Zenon DEF TrackerInv
<1>6. EngineInv'
  BY Zenon DEF EngineInv, Batches
<1>. QED BY <1>1, <1>2, <1>3, <1>4, <1>5, <1>6, Zenon

\* Letting the partition go commits the marks.
LEMMA RevokeKeeps ==
    ASSUME DeliveryInv, NEW restart \in BOOLEAN, Revoke(restart)
    PROVE  DeliveryInv'
<1>. USE ConsumerAssumption DEF DeliveryInv, Through, Settled, Offsets, None, Revoke, Fault,
         Commit, kafka, group, switch, loop, engine, tracker
<1>1. Bounds'
  BY Zenon DEF Bounds
<1>2. MarksInv'
  BY Zenon DEF MarksInv
<1>3. NothingStranded'
  BY Zenon DEF NothingStranded
<1>4. LoopInv'
  BY Zenon DEF LoopInv
<1>5. TrackerInv'
  BY Zenon DEF TrackerInv
<1>6. EngineInv'
  BY Zenon DEF EngineInv, Batches
<1>. QED BY <1>1, <1>2, <1>3, <1>4, <1>5, <1>6, Zenon

\* Losing the session moves no offset here.
LEMMA EvictKeeps ==
    ASSUME DeliveryInv, Evict
    PROVE  DeliveryInv'
<1>. USE ConsumerAssumption DEF DeliveryInv, Through, Settled, Offsets, None, Evict, Fault,
         kafka, group, switch, loop, engine, tracker
<1>1. Bounds'
  BY Zenon DEF Bounds
<1>2. MarksInv'
  BY Zenon DEF MarksInv
<1>3. NothingStranded'
  BY Zenon DEF NothingStranded, InHand
<1>4. LoopInv'
  BY Zenon DEF LoopInv
<1>5. TrackerInv'
  BY Zenon DEF TrackerInv
<1>6. EngineInv'
  BY Zenon DEF EngineInv, Batches
<1>. QED BY <1>1, <1>2, <1>3, <1>4, <1>5, <1>6, Zenon

\* Other owners handle what they commit.
LEMMA ElsewhereKeeps ==
    ASSUME DeliveryInv, NEW n \in 1..N, Elsewhere(n)
    PROVE  DeliveryInv'
<1>. USE ConsumerAssumption DEF DeliveryInv, Through, Settled, Offsets, None, Elsewhere,
         kafka, group, switch, loop, engine, tracker
<1>1. Bounds'
  BY DEF Bounds
<1>2. MarksInv'
  BY DEF MarksInv, Bounds
<1>3. NothingStranded'
  BY Zenon DEF NothingStranded, InHand
<1>4. LoopInv'
  BY Zenon DEF LoopInv
<1>5. TrackerInv'
  BY Zenon DEF TrackerInv
<1>6. EngineInv'
  BY Zenon DEF EngineInv, Batches
<1>. QED BY <1>1, <1>2, <1>3, <1>4, <1>5, <1>6, Zenon

\* A crash loses what was in hand, and the assignment with it.
LEMMA CrashKeeps ==
    ASSUME DeliveryInv, Crash
    PROVE  DeliveryInv'
<1>. USE ConsumerAssumption DEF DeliveryInv, Through, Settled, Offsets, None, Crash, Fault,
         kafka, group, switch, loop, engine, tracker
<1>1. Bounds'
  BY Zenon DEF Bounds
<1>2. MarksInv'
  BY Zenon DEF MarksInv
<1>3. NothingStranded'
  BY Zenon DEF NothingStranded
<1>4. LoopInv'
  BY Zenon DEF LoopInv
<1>5. TrackerInv'
  BY Zenon DEF TrackerInv
<1>6. EngineInv'
  BY Zenon DEF EngineInv, Batches
<1>. QED BY <1>1, <1>2, <1>3, <1>4, <1>5, <1>6, Zenon

\* Switching consumption off moves no offset.
LEMMA KillKeeps ==
    ASSUME DeliveryInv, NEW level \in {"topic", "partition"}, Kill(level)
    PROVE  DeliveryInv'
<1>. USE ConsumerAssumption DEF DeliveryInv, Through, Settled, Offsets, None, Kill, Fault,
         kafka, group, switch, loop, engine, tracker
<1>1. Bounds'
  BY Zenon DEF Bounds
<1>2. MarksInv'
  BY Zenon DEF MarksInv
<1>3. NothingStranded'
  BY Zenon DEF NothingStranded, InHand
<1>4. LoopInv'
  BY Zenon DEF LoopInv
<1>5. TrackerInv'
  BY Zenon DEF TrackerInv
<1>6. EngineInv'
  BY Zenon DEF EngineInv, Batches
<1>. QED BY <1>1, <1>2, <1>3, <1>4, <1>5, <1>6, Zenon

\* Nor does switching it on again.
LEMMA UnkillKeeps ==
    ASSUME DeliveryInv, Unkill
    PROVE  DeliveryInv'
<1>. USE ConsumerAssumption DEF DeliveryInv, Through, Settled, Offsets, None, Unkill, kafka,
         group, switch, loop, engine, tracker
<1>1. Bounds'
  BY Zenon DEF Bounds
<1>2. MarksInv'
  BY Zenon DEF MarksInv
<1>3. NothingStranded'
  BY Zenon DEF NothingStranded, InHand
<1>4. LoopInv'
  BY Zenon DEF LoopInv
<1>5. TrackerInv'
  BY Zenon DEF TrackerInv
<1>6. EngineInv'
  BY Zenon DEF EngineInv, Batches
<1>. QED BY <1>1, <1>2, <1>3, <1>4, <1>5, <1>6, Zenon

-----------------------------------------------------------------------------
\* The history of settled records, which a crash of the member leaves alone, grows.
LEMMA SettledGrows ==
    ASSUME [Next]_vars
    PROVE  handled \subseteq handled' /\ forsaken \subseteq forsaken'
<1>1. CASE Loop
  BY <1>1, Zenon DEF Loop, Poll, Route, IdlePoll, Collect, CollectReleased, Handle, Claim, Dispatch,
              AwaitSlot, DispatchEnds, Forsake
<1>2. CASE Worker
  BY <1>2, Zenon DEF Worker, WorkerTake, WorkerDone
<1>3. CASE Failures
  BY <1>3, Zenon DEF Failures, HandleError, WorkerError, Evict, Crash, Kill, Rewind, PerformError, Forsake
<1>4. CASE TimerFires \/ AutoCommit \/ Assign \/ Unkill \/ UNCHANGED vars
  BY <1>4, Zenon DEF TimerFires, AutoCommit, Assign, Unkill, vars
<1>5. CASE \/ \E o \in Offsets : Perform(o)
           \/ \E restart \in BOOLEAN : Revoke(restart)
           \/ \E n \in 1..N : Elsewhere(n)
  BY <1>5, Zenon DEF Perform, Revoke, Elsewhere
<1>. QED BY <1>1, <1>2, <1>3, <1>4, <1>5, Zenon DEF Next

\* A member that starts with nothing polled, marked or committed.
LEMMA InitDelivers ==
    ASSUME Init
    PROVE  DeliveryInv
<1>. USE ConsumerAssumption DEF Init, Offsets, None
<1>1. Bounds
  BY DEF Bounds
<1>2. MarksInv /\ NothingStranded
  BY DEF MarksInv, NothingStranded, Through
<1>3. LoopInv /\ TrackerInv
  BY Zenon DEF LoopInv, TrackerInv
<1>4. EngineInv
  BY Zenon DEF EngineInv, Batches
<1>. QED BY <1>1, <1>2, <1>3, <1>4, Zenon DEF DeliveryInv

\* Every step of the member, of its clients and of the group keeps the invariant.
LEMMA StepDelivers ==
    ASSUME DeliveryInv, [Next]_vars
    PROVE  DeliveryInv'
<1>1. CASE UNCHANGED vars
  <2>. USE <1>1 DEF DeliveryInv, Through, Settled, vars, kafka, group, switch, loop, engine, tracker
  <2>1. Bounds' /\ MarksInv' /\ TrackerInv'
    BY Zenon DEF Bounds, MarksInv, TrackerInv
  <2>2. LoopInv' /\ EngineInv'
    BY Zenon DEF LoopInv, EngineInv, Batches
  <2>3. NothingStranded'
    BY Zenon DEF NothingStranded, InHand
  <2>. QED BY <2>1, <2>2, <2>3, Zenon
<1>2. CASE Next
  BY <1>2, AutoCommitKeeps, PollKeeps, IdlePollKeeps, CollectKeeps,
     CollectReleasedKeeps, HandleKeeps, HandleErrorKeeps, TimerFiresKeeps,
     ClaimKeeps, RewindKeeps, DispatchKeeps, AwaitSlotKeeps, DispatchEndsKeeps,
     PerformKeeps, PerformErrorKeeps, RouteKeeps, WorkerTakeKeeps, WorkerDoneKeeps,
     WorkerErrorKeeps, AssignKeeps, RevokeKeeps, EvictKeeps, ElsewhereKeeps,
     CrashKeeps, KillKeeps, UnkillKeeps, Zenon DEF Next, Loop, Worker, Failures
<1>. QED BY <1>1, <1>2, Zenon

\* The offsets that Delivery calls below c are offsets of the partition.
LEMMA BelowOffsets ==
    \A c \in 0..N : \A o \in 0..(c - 1) : o \in Offsets /\ o < c
BY ConsumerAssumption DEF Offsets

\* A step that keeps the invariant is a step of Delivery, or changes nothing it can see.
LEMMA StepImplements ==
    ASSUME DeliveryInv', handled \subseteq handled', forsaken \subseteq forsaken'
    PROVE  [D!Step]_<<handled \cup forsaken, committed>>
<1>. DEFINE h == (handled' \cup forsaken') \ (handled \cup forsaken)
<1>0. committed' \in 0..N
  BY Zenon DEF DeliveryInv, Bounds
<1>1. h \in SUBSET D!Below(N)
  BY Zenon DEF DeliveryInv, Bounds, Offsets, D!Below
<1>2. (handled \cup forsaken)' = (handled \cup forsaken) \cup h
  BY Zenon
<1>3. D!Below(committed') \subseteq (handled \cup forsaken)'
  <2>1. D!Below(committed') = 0..(committed' - 1)
    BY Zenon DEF D!Below
  <2>2. Through(committed)'
    BY Zenon DEF DeliveryInv, MarksInv
  <2>3. \A o \in 0..(committed' - 1) : o \in Offsets /\ o < committed'
    BY <1>0, BelowOffsets, Zenon
  <2>. QED BY <2>1, <2>2, <2>3, Zenon DEF Through, Settled
<1>. QED BY <1>0, <1>1, <1>2, <1>3, Zenon DEF D!Step

-----------------------------------------------------------------------------
\* The strengthening that makes SlotsBalanced inductive: a completed offset that
\* waits for the prefix keeps its slot.
SlotsInv == SlotsBalanced /\ done \subseteq pending

\* Sets of offsets are finite, and taking or giving back an offset changes their
\* number by one.
LEMMA OffsetSets ==
    ASSUME NEW S \in SUBSET Offsets
    PROVE  /\ IsFiniteSet(S) /\ Cardinality(S) \in Nat
           /\ \A o : o \notin S => Cardinality(S \cup {o}) = Cardinality(S) + 1
           /\ \A o \in S : Cardinality(S \ {o}) = Cardinality(S) - 1
<1>1. IsFiniteSet(Offsets)
  BY FS_Interval, ConsumerAssumption DEF Offsets
<1>2. IsFiniteSet(S)
  BY <1>1, FS_Subset, Zenon
<1>3. ASSUME NEW o, o \notin S PROVE Cardinality(S \cup {o}) = Cardinality(S) + 1
  BY <1>2, <1>3, FS_AddElement, Zenon
<1>4. ASSUME NEW o \in S PROVE Cardinality(S \ {o}) = Cardinality(S) - 1
  BY <1>2, <1>4, FS_RemoveElement, Zenon
<1>. QED BY <1>2, <1>3, <1>4, FS_CardinalityType, Zenon

\* FlushMarks gives back one slot for every offset the prefix moves over.
LEMMA FlushBalances ==
    ASSUME Bounds, TrackerInv, SlotsInv, FlushMarks \/ UNCHANGED <<tracker, head>>
    PROVE  SlotsInv'
<1>1. CASE UNCHANGED tracker
  BY <1>1, Zenon DEF tracker, SlotsInv, SlotsBalanced
<1>2. CASE FlushMarks /\ expected # None
  <2>1. PICK n \in expected..N :
            /\ (expected..(n - 1)) \subseteq done
            /\ done' = done \ (expected..(n - 1))
            /\ pending' = pending \ (expected..(n - 1))
            /\ slots' = slots - (n - expected)
    BY <1>2, Zenon DEF FlushMarks
  <2>2. expected \in 0..N /\ n \in 0..N
    BY <1>2, <2>1, ConsumerAssumption DEF Bounds
  <2>. DEFINE run == expected..(n - 1)
  <2>3. IsFiniteSet(run) /\ Cardinality(run) = n - expected
    <3>1. /\ IsFiniteSet(run)
          /\ Cardinality(run) = IF expected > n - 1 THEN 0 ELSE (n - 1) - expected + 1
      BY <2>2, FS_Interval
    <3>2. expected \in Int /\ n \in Int /\ expected <= n
      BY <2>1, <2>2
    <3>. HIDE DEF run
    <3>. QED BY <3>1, <3>2
  <2>4. run \subseteq pending /\ pending \in SUBSET Offsets
    BY <2>1, Zenon DEF SlotsInv, Bounds
  <2>5. Cardinality(pending') = Cardinality(pending) - (n - expected)
    <3>1. IsFiniteSet(pending) /\ Cardinality(pending) \in Nat
      BY <2>4, OffsetSets, Zenon
    <3>2. Cardinality(pending \ run) = Cardinality(pending) - Cardinality(pending \cap run)
      BY <3>1, FS_Difference, Zenon
    <3>3. pending \cap run = run
      BY <2>4, Zenon
    <3>. QED BY <2>1, <2>3, <3>2, <3>3, Zenon
  <2>6. SlotsBalanced'
    BY <2>1, <2>2, <2>5, OffsetSets, <2>4, ConsumerAssumption DEF SlotsInv, SlotsBalanced
  <2>. QED BY <2>1, <2>6, Zenon DEF SlotsInv
<1>3. CASE FlushMarks /\ expected = None
  BY <1>3, Zenon DEF FlushMarks, tracker, SlotsInv, SlotsBalanced
<1>. QED BY <1>1, <1>2, <1>3, Zenon

\* Dispatch takes a slot for an offset that has none.
LEMMA RegisterBalances ==
    ASSUME Bounds, SlotsInv, lo \in Offsets, lo \notin pending, slots < Window, Register(lo)
    PROVE  SlotsInv'
<1>1. pending \in SUBSET Offsets /\ pending' = pending \cup {lo} /\ slots' = slots + 1 /\ done' \subseteq done
  BY Zenon DEF Bounds, Register
<1>2. Cardinality(pending') = Cardinality(pending) + 1 /\ Cardinality(pending) \in Nat
  BY <1>1, OffsetSets, Zenon
<1>. QED BY <1>1, <1>2, ConsumerAssumption DEF SlotsInv, SlotsBalanced

\* A perform that fails, or ends below the prefix, gives its slot back.
LEMMA PerformBalances ==
    ASSUME Bounds, SlotsInv, NEW o \in pending \ done,
           \/ pending' = pending \ {o} /\ slots' = slots - 1 /\ done' = done
           \/ pending' = pending /\ slots' = slots /\ done' = done \cup {o}
    PROVE  SlotsInv'
<1>1. pending \in SUBSET Offsets
  BY Zenon DEF Bounds
<1>2. Cardinality(pending \ {o}) = Cardinality(pending) - 1 /\ Cardinality(pending) \in Nat
  BY <1>1, OffsetSets, Zenon
<1>3. CASE pending' = pending \ {o} /\ slots' = slots - 1 /\ done' = done
  <2>1. SlotsBalanced'
    BY <1>2, <1>3, ConsumerAssumption DEF SlotsInv, SlotsBalanced
  <2>. QED BY <1>3, <2>1, Zenon DEF SlotsInv
<1>4. CASE pending' = pending /\ slots' = slots /\ done' = done \cup {o}
  BY <1>4, Zenon DEF SlotsInv, SlotsBalanced
<1>. QED BY <1>3, <1>4, Zenon

\* Every step keeps slots and offsets in flight in balance.
LEMMA StepBalances ==
    ASSUME DeliveryInv, SlotsInv, [Next]_vars
    PROVE  SlotsInv'
<1>0. Bounds /\ TrackerInv /\ LoopInv
  BY Zenon DEF DeliveryInv
<1>1. CASE \/ \E k \in 1..MaxPoll : Poll(k)
           \/ IdlePoll \/ AwaitSlot \/ DispatchEnds
  <2>1. FlushMarks \/ UNCHANGED <<tracker, head>>
    BY <1>1, Zenon DEF Poll, IdlePoll, AwaitSlot, DispatchEnds
  <2>. QED BY <1>0, <2>1, FlushBalances, Zenon
<1>2. CASE Dispatch
  <2>1. CASE lo \in pending
    BY <1>2, <2>1, Zenon DEF Dispatch, tracker, SlotsInv, SlotsBalanced
  <2>2. CASE lo \notin pending
    <3>1. lo \in Offsets
      BY <1>0, <1>2, ConsumerAssumption DEF Dispatch, Bounds, Offsets
    <3>. QED BY <1>0, <1>2, <2>2, <3>1, RegisterBalances, Zenon DEF Dispatch
  <2>. QED BY <2>1, <2>2, Zenon
<1>3. ASSUME NEW o \in Offsets, Perform(o) \/ PerformError(o) PROVE SlotsInv'
  <2>1. o \in pending \ done
    BY <1>3, Zenon DEF Perform, PerformError
  <2>2. \/ pending' = pending \ {o} /\ slots' = slots - 1 /\ done' = done
        \/ pending' = pending /\ slots' = slots /\ done' = done \cup {o}
    BY <1>3, Zenon DEF Perform, PerformError
  <2>. QED BY <1>0, <2>1, <2>2, PerformBalances, Zenon
<1>4. CASE Crash
  BY <1>4, FS_EmptySet, ConsumerAssumption DEF Crash, SlotsInv, SlotsBalanced
<1>5. CASE UNCHANGED tracker
  BY <1>5, Zenon DEF tracker, SlotsInv, SlotsBalanced
<1>6. CASE Next
  <2>1. CASE Loop
    <3>1. \/ \E k \in 1..MaxPoll : Poll(k)
          \/ IdlePoll \/ AwaitSlot \/ DispatchEnds \/ Dispatch \/ UNCHANGED tracker
      BY <2>1, Zenon DEF Loop, Route, Collect, CollectReleased, Handle, Claim
    <3>. QED BY <3>1, <1>1, <1>2, <1>5, Zenon
  <2>2. CASE Worker \/ TimerFires \/ AutoCommit \/ Assign \/ Unkill
    <3>1. UNCHANGED tracker
      BY <2>2, Zenon DEF Worker, WorkerTake, WorkerDone, TimerFires, AutoCommit, Assign, Unkill
    <3>. QED BY <3>1, <1>5, Zenon
  <2>3. CASE Failures
    <3>1. \/ Crash \/ UNCHANGED tracker \/ \E o \in Offsets : PerformError(o)
      BY <2>3, Zenon DEF Failures, HandleError, WorkerError, Evict, Kill, Rewind
    <3>. QED BY <3>1, <1>3, <1>4, <1>5, Zenon
  <2>4. CASE \/ \E restart \in BOOLEAN : Revoke(restart)
             \/ \E n \in 1..N : Elsewhere(n)
    <3>1. UNCHANGED tracker
      BY <2>4, Zenon DEF Revoke, Elsewhere
    <3>. QED BY <3>1, <1>5, Zenon
  <2>. QED BY <1>6, <1>3, <2>1, <2>2, <2>3, <2>4, Zenon DEF Next
<1>7. CASE UNCHANGED vars
  BY <1>7, <1>5, Zenon DEF vars
<1>. QED BY <1>6, <1>7, Zenon

\* No record behind the cursor is lost sight of: for every partition length, poll
\* size, window, capacity and number of faults.
THEOREM ConsumerStrandsNothing == Spec => []NothingStranded
<1>1. Init => DeliveryInv
  BY InitDelivers, Zenon
<1>2. DeliveryInv /\ [Next]_vars => DeliveryInv'
  BY StepDelivers, Zenon
<1>3. DeliveryInv => NothingStranded
  BY Zenon DEF DeliveryInv
<1>. QED BY <1>1, <1>2, <1>3, PTL DEF Spec

\* The consumer delivers at least once, whichever executor it was started with: but
\* for forsaken records no commit of the group passes one that was not handled.
THEOREM ConsumerDelivers == Spec => AtLeastOnce
<1>1. Init => DeliveryInv
  BY InitDelivers, Zenon
<1>2. DeliveryInv /\ [Next]_vars => DeliveryInv'
  BY StepDelivers, Zenon
<1>3. Init => D!Init
  BY Zenon DEF Init, D!Init
<1>4. DeliveryInv /\ DeliveryInv' /\ [Next]_vars
        => [D!Step]_<<handled \cup forsaken, committed>>
  BY StepImplements, SettledGrows, Zenon
<1>. QED BY <1>1, <1>2, <1>3, <1>4, PTL DEF Spec, AtLeastOnce, D!Safety

\* No slot of the watermark executor's window leaks, and none is given back twice:
\* for every window, partition length and number of faults, the slots in use are
\* the offsets in flight.
THEOREM ConsumerSlotsBalance == Spec => []SlotsBalanced
<1>1. Init => DeliveryInv
  BY InitDelivers, Zenon
<1>2. DeliveryInv /\ [Next]_vars => DeliveryInv'
  BY StepDelivers, Zenon
<1>3. Init => SlotsInv
  BY FS_EmptySet, ConsumerAssumption DEF Init, SlotsInv, SlotsBalanced
<1>4. DeliveryInv /\ SlotsInv /\ [Next]_vars => SlotsInv'
  BY StepBalances, Zenon
<1>5. SlotsInv => SlotsBalanced
  BY Zenon DEF SlotsInv
<1>. QED BY <1>1, <1>2, <1>3, <1>4, <1>5, PTL DEF Spec

=============================================================================
