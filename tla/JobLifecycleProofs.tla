------------------------- MODULE JobLifecycleProofs -------------------------
(***************************************************************************)
(* A job's end is durable when its last record goes, and it runs beside no *)
(* holder of its slot: for every number of workers, retries and faults,    *)
(* and every setting of the job.  The kinds of step a job's life is made   *)
(* of come first, each with what the invariants have to know of it.        *)
(***************************************************************************)
EXTENDS JobLifecycle, TLAPS

-----------------------------------------------------------------------------
(* Topics *)

\* A record produced to a topic.
LEMMA AddTopic ==
    ASSUME NEW S, NEW B, IsTopic(B, S), NEW x \in S
    PROVE  IsTopic(With(B, x), S)
BY DEF IsTopic, With

\* A record taken from a topic.
LEMMA RemoveTopic ==
    ASSUME NEW S, NEW B, IsTopic(B, S), NEW x \in DOMAIN B
    PROVE  /\ IsTopic(Without(B, x), S)
           /\ DOMAIN B \ {x} \subseteq DOMAIN Without(B, x)
           /\ DOMAIN Without(B, x) \subseteq DOMAIN B
           /\ With(Without(B, x), x) = B
<1> DEFINE C == Without(B, x)
           D == With(C, x)
<1>1. B[x] \in Nat \ {0} /\ \A y \in DOMAIN B : B[y] \in Nat \ {0}
  BY Zenon DEF IsTopic
<1>2. /\ DOMAIN C = {t \in DOMAIN B : t # x \/ B[t] > 1}
      /\ \A y \in DOMAIN C : C[y] = IF y = x THEN B[y] - 1 ELSE B[y]
      /\ C = [y \in DOMAIN C |-> C[y]]
  BY Zenon DEF Without
<1>3. IsTopic(C, S)
  <2>1. \A y \in DOMAIN C : C[y] \in Nat \ {0}
    BY <1>1, <1>2
  <2> QED
    BY <1>2, <2>1, Zenon DEF IsTopic
<1>4. DOMAIN D = DOMAIN C \cup {x} /\ D = [y \in DOMAIN D |-> D[y]]
  BY Zenon DEF With
<1>5. DOMAIN D = DOMAIN B
  BY <1>2, <1>4, Zenon
<1>6. \A y \in DOMAIN B : D[y] = B[y]
  BY <1>1, <1>2, <1>4, <1>5 DEF With
<1>7. D = B
  BY <1>4, <1>5, <1>6, Zenon DEF IsTopic
<1> QED
  BY <1>2, <1>3, <1>7, Zenon

\* What is produced while another record of the topic is being handled.
LEMMA AddRemove ==
    ASSUME NEW S, NEW B, IsTopic(B, S), NEW x \in DOMAIN B, NEW y \in S
    PROVE  Without(With(B, y), x) = With(Without(B, x), y)
<1>1. CASE y = x
  <2>1. With(B, x) = [e \in DOMAIN B |-> IF e = x THEN B[e] + 1 ELSE B[e]]
    BY Zenon DEF With
  <2>2. Without(With(B, x), x) = B
    BY <2>1 DEF Without, IsTopic
  <2> QED
    BY <1>1, <2>2, RemoveTopic, Zenon
<1>2. CASE y # x /\ y \in DOMAIN B
  BY <1>2 DEF Without, With, IsTopic
<1>3. CASE y # x /\ y \notin DOMAIN B
  BY <1>3, Zenon DEF Without, With, IsTopic
<1> QED
  BY <1>1, <1>2, <1>3, Zenon

\* The empty topic.
LEMMA EmptyTopic ==
    ASSUME NEW S, NEW B, IsTopic(B, S)
    PROVE  B = NoRecords <=> DOMAIN B = {}
BY Zenon DEF IsTopic, NoRecords

-----------------------------------------------------------------------------
(* Types *)

\* What a worker has in hand after a step of its own.
LEMMA InHand ==
    ASSUME TypeOK, NEW w \in Workers, NEW h, hand' = [hand EXCEPT ![w] = h]
    PROVE  /\ hand' = [v \in Workers |-> hand'[v]]
           /\ hand'[w] = h /\ \A v \in Workers \ {w} : hand'[v] = hand[v]
<1>1. hand = [v \in Workers |-> hand[v]]
  BY Zenon DEF TypeOK
<1> QED
  BY <1>1, Zenon

\* A record with one field changed.
LEMMA Altered ==
    ASSUME NEW r \in Records, NEW b \in BOOLEAN
    PROVE  /\ LET d == [r EXCEPT !.deferred = b]
              IN  d \in Records /\ d.attempt = r.attempt /\ d.slot = r.slot /\ d.reclaim = r.reclaim /\ d.skip = r.skip
           /\ LET d == [r EXCEPT !.reclaim = b]
              IN  d \in Records /\ d.attempt = r.attempt /\ d.slot = r.slot /\ d.reclaim = b /\ d.skip = r.skip
           /\ LET d == [r EXCEPT !.skip = b]
              IN  d \in Records /\ d.attempt = r.attempt /\ d.slot = r.slot /\ d.reclaim = r.reclaim /\ d.skip = b
<1>1. LET d == [r EXCEPT !.deferred = b]
      IN  d \in Records /\ d.attempt = r.attempt /\ d.slot = r.slot /\ d.reclaim = r.reclaim /\ d.skip = r.skip
  BY Zenon DEF Records
<1>2. LET d == [r EXCEPT !.reclaim = b]
      IN  d \in Records /\ d.attempt = r.attempt /\ d.slot = r.slot /\ d.reclaim = b /\ d.skip = r.skip
  BY Zenon DEF Records
<1>3. LET d == [r EXCEPT !.skip = b]
      IN  d \in Records /\ d.attempt = r.attempt /\ d.slot = r.slot /\ d.reclaim = r.reclaim /\ d.skip = b
  BY Zenon DEF Records
<1> QED
  BY <1>1, <1>2, <1>3, Zenon

\* A retry is one attempt further, without a slot.
LEMMA RetriedFields ==
    ASSUME NEW r \in Records, settings.batch \in BOOLEAN
    PROVE  /\ Retried(r) \in Records /\ Retried(r).attempt = r.attempt + 1 /\ Retried(r).slot = FALSE
           /\ Retried(r).reclaim = r.reclaim /\ Retried(r).skip = r.skip
<1> DEFINE d == [r EXCEPT !.attempt = @ + 1]
<1>1. /\ d \in Records /\ d.attempt = r.attempt + 1 /\ d.reclaim = r.reclaim /\ d.skip = r.skip
      /\ Retried(r) = [d EXCEPT !.counted = settings.batch, !.slot = FALSE, !.deferred = FALSE]
  BY DEF Records, Retried
<1> HIDE DEF d
<1> QED
  BY <1>1, Zenon DEF Records

\* History, after each of the ways a step adds to it.
LEMMA PastStep ==
    ASSUME TypeOK, NEW p \in Pasts
    PROVE  /\ Faulted(p) => past' \in Pasts
           /\ \A how \in {"success", "failed", "cancelled", "batch"} :
                /\ Ended(how) \in Pasts /\ [Ended(how) EXCEPT !.inRetry = TRUE] \in Pasts
                /\ Kept(how) \in Pasts
           /\ Copied \in Pasts
           /\ \A w \in Workers : \A via : Running(w, via) => past' \in Pasts
<1>1. past \in Pasts
  BY Zenon DEF TypeOK
<1>2. Faulted(p) => past' \in Pasts
  BY DEF Faulted, Pasts
<1>3. ASSUME NEW how \in {"success", "failed", "cancelled", "batch"}
      PROVE  Ended(how) \in Pasts /\ [Ended(how) EXCEPT !.inRetry = TRUE] \in Pasts /\ Kept(how) \in Pasts
  <2>1. Ended(how) \in Pasts
    BY <1>1, Zenon DEF Ended, Pasts
  <2> QED
    BY <2>1, Zenon DEF Kept, Pasts
<1>4. Copied \in Pasts
  BY <1>1 DEF Copied, Pasts
<1>5. ASSUME NEW w \in Workers, NEW via, Running(w, via) PROVE past' \in Pasts
  <2> DEFINE l == past.lapsed \/ (via = "slot" /\ (~lease \/ \E v \in Workers : InSlot(v)))
             n == IF past.runs < MaxRuns THEN past.runs + 1 ELSE past.runs
  <2>1. past' = [past EXCEPT !.runs = n, !.lapsed = l]
    BY <1>5, Zenon DEF Running
  <2>2. l \in BOOLEAN
    BY Zenon
  <2>3. n \in Nat
    BY <1>1, JobLifecycleAssumption DEF Pasts
  <2> HIDE DEF l, n
  <2> QED
    BY <1>1, <2>1, <2>2, <2>3, Zenon DEF Pasts
<1> QED
  BY <1>2, <1>3, <1>4, <1>5, Zenon

-----------------------------------------------------------------------------
(* The kinds of step, each with what the invariants have to know of it *)

\* What history keeps.
PastKept ==
    /\ past' \in Pasts /\ past.ends \subseteq past'.ends
    /\ past.dropped => past'.dropped
    /\ past.lapsed => past'.lapsed
    /\ past.inRetry => past'.inRetry
    /\ past.cancelled => past'.cancelled
    /\ past.kept => past'.kept
    /\ past.lockEnded => past'.lockEnded

\* The record whose loss is made good: no other copy has to outlive it.
SafeRec(r) == r.slot = FALSE \/ r.reclaim = TRUE \/ dedup = FALSE \/ settings.mode = "watermark"

\* The job's end is among outs.
Final(outs) ==
    /\ past.ends # {}
    /\ settings.batch => outs \cap {"success", "failed"} # {}
    /\ past.ends = {"failed"} => "dlt" \in outs

SafeHand(h) ==
    \/ h.at = "check" /\ SafeRec(h.rec)
    \/ h.at = "run"
    \/ h.at = "apply" /\ (("retry" \in h.outs /\ SafeRec(h.again)) \/ Final(h.outs))

\* A terminal outcome releases the lock, or fails to.
Releases(how) ==
    \/ lock' = FALSE /\ (past' = Ended(how) \/ Faulted(Ended(how)))
    \/ lock' = lock /\ Faulted(Kept(how))

\* A worker has an outcome: a retry, or one that is to release the lock, or nothing at
\* all for a record that is not needed.
DecideStep(w) ==
    /\ hand[w].at \in {"check", "run"}
    /\ UNCHANGED <<jobs, retries, retrier, durable, around>>
    /\ lock' \in BOOLEAN /\ dedup' \in BOOLEAN /\ lease' \in BOOLEAN /\ cancelSet' \in BOOLEAN
    /\ PastKept
    /\ past'.runs = past.runs /\ past'.copies = past.copies /\ past'.lapsed = past.lapsed
    /\ past'.inRetry = past.inRetry
    /\ lease' = lease \/ (lease' = FALSE /\ (expired \/ (hand[w].at = "run" /\ hand[w].via = "slot")))
    /\ \E outs, again :
         /\ outs \in SUBSET Outputs /\ Decided(w, outs, again)
         /\ "retry" \in outs =>
              /\ again \in Unmarked /\ lock' = lock
              /\ \/ again.attempt = hand[w].rec.attempt + 1
                 \/ again.attempt = hand[w].rec.attempt /\ hand[w].at = "check"
         /\ \/ lock' = lock /\ (past'.ends = past.ends \/ past'.kept)
            \/ lock' = FALSE /\ past'.ends # {}
         /\ \/ batchCancelled \/ past'.dropped
            \/ "retry" \in outs /\ (again.slot = FALSE \/ settings.mode = "watermark")
            \/ Final(outs)'
            \/ ~SafeHand(hand[w]) /\ dedup' = dedup /\ past'.ends = past.ends

\* A terminal outcome.
LEMMA TerminalDecides ==
    ASSUME TypeOK, NEW w \in Workers, hand[w].at \in {"check", "run"},
           UNCHANGED <<jobs, retries, retrier, durable, around>>,
           dedup' \in BOOLEAN, lease' \in BOOLEAN, cancelSet' \in BOOLEAN,
           lease' = lease \/ (lease' = FALSE /\ (expired \/ (hand[w].at = "run" /\ hand[w].via = "slot"))),
           NEW outs \in SUBSET (Outputs \ {"retry"}),
           NEW how \in {"success", "failed", "cancelled", "batch"},
           Decided(w, outs, None), Releases(how),
           \/ batchCancelled
           \/ /\ settings.batch => outs \cap {"success", "failed"} # {}
              /\ how = "failed" => "dlt" \in outs
    PROVE  DecideStep(w)
<1>1. /\ Ended(how) \in Pasts /\ Kept(how) \in Pasts /\ past \in Pasts /\ lock \in BOOLEAN
      /\ past' = Ended(how) \/ Faulted(Ended(how)) \/ Faulted(Kept(how))
      /\ lock' = FALSE \/ (lock' = lock /\ Faulted(Kept(how)))
  BY PastStep, Zenon DEF TypeOK, Releases
<1>2. past' \in Pasts
  BY <1>1, PastStep, Zenon
<1>6. /\ Ended(how).ends = past.ends \cup {how} /\ Ended(how).runs = past.runs /\ Ended(how).copies = past.copies
      /\ Ended(how).lapsed = past.lapsed /\ Ended(how).inRetry = past.inRetry /\ Ended(how).dropped = past.dropped
      /\ Ended(how).cancelled = past.cancelled
      /\ Ended(how).kept = past.kept /\ Ended(how).lockEnded = past.lockEnded
  BY <1>1, Zenon DEF Ended, Pasts
<1>7. /\ Kept(how).ends = past.ends \cup {how} /\ Kept(how).runs = past.runs /\ Kept(how).copies = past.copies
      /\ Kept(how).lapsed = past.lapsed /\ Kept(how).inRetry = past.inRetry /\ Kept(how).dropped = past.dropped
      /\ Kept(how).cancelled = past.cancelled
      /\ Kept(how).kept = TRUE /\ Kept(how).lockEnded = past.lockEnded
  BY <1>1, <1>6, Zenon DEF Kept, Pasts
<1>8. ASSUME NEW q \in Pasts, Faulted(q)
      PROVE  /\ past'.ends = q.ends /\ past'.runs = q.runs /\ past'.copies = q.copies
             /\ past'.lapsed = q.lapsed /\ past'.inRetry = q.inRetry /\ past'.dropped = q.dropped
             /\ past'.cancelled = q.cancelled /\ past'.kept = q.kept /\ past'.lockEnded = q.lockEnded
  BY <1>8, Zenon DEF Faulted, Pasts
<1>3. /\ past'.ends = past.ends \cup {how} /\ past'.runs = past.runs /\ past'.copies = past.copies
      /\ past'.lapsed = past.lapsed /\ past'.inRetry = past.inRetry /\ past'.dropped = past.dropped
      /\ past'.cancelled = past.cancelled
      /\ past'.kept = past.kept \/ past'.kept = TRUE
      /\ past'.lockEnded = past.lockEnded
      /\ Faulted(Kept(how)) => past'.kept = TRUE
  BY <1>1, <1>6, <1>7, <1>8, Zenon
<1>4. PastKept
  BY <1>2, <1>3, Zenon DEF PastKept
<1>5. batchCancelled \/ Final(outs)'
  BY <1>3, Zenon DEF Final, around
<1>9. /\ lock' \in BOOLEAN /\ past'.ends # {}
      /\ \/ lock' = lock /\ (past'.ends = past.ends \/ past'.kept)
         \/ lock' = FALSE /\ past'.ends # {}
  BY <1>1, <1>3, Zenon
<1> QED
  BY <1>3, <1>4, <1>5, <1>9, Zenon DEF DecideStep

\* A failure with attempts left.
LEMMA RetryDecides ==
    ASSUME TypeOK, NEW w \in Workers, hand[w].at \in {"check", "run"},
           UNCHANGED <<jobs, retries, retrier, durable, around>>,
           dedup' \in BOOLEAN, lease' \in BOOLEAN, UNCHANGED <<lock, cancelSet>>,
           lease' = lease \/ (lease' = FALSE /\ (expired \/ (hand[w].at = "run" /\ hand[w].via = "slot"))),
           NEW outs \in SUBSET Outputs, "retry" \in outs,
           hand[w].rec.attempt < settings.maxRetries,
           Decided(w, outs, Retried(hand[w].rec)),
           past' = past \/ Faulted(past)
    PROVE  DecideStep(w)
<1> DEFINE again == Retried(hand[w].rec)
<1>1. /\ hand[w].rec \in Unmarked /\ settings.batch \in BOOLEAN /\ settings.maxRetries \in Nat
      /\ lock \in BOOLEAN /\ cancelSet \in BOOLEAN /\ past \in Pasts
  BY Zenon DEF TypeOK, IsHand, Settings
<1>2. again \in Unmarked /\ again.attempt = hand[w].rec.attempt + 1 /\ again.slot = FALSE
  <2>1. hand[w].rec \in Records /\ hand[w].rec.attempt \in Nat /\ hand[w].rec.skip = FALSE
    BY <1>1, Zenon DEF Unmarked, Recs, Records
  <2>2. again \in Records /\ again.attempt = hand[w].rec.attempt + 1 /\ again.slot = FALSE /\ again.skip = FALSE
    BY <1>1, <2>1, RetriedFields, Zenon
  <2> QED
    BY <1>1, <2>1, <2>2 DEF Unmarked, Recs
<1>3. past' \in Pasts
  BY <1>1, PastStep, Zenon
<1>4. /\ past'.ends = past.ends /\ past'.runs = past.runs /\ past'.copies = past.copies
      /\ past'.lapsed = past.lapsed /\ past'.inRetry = past.inRetry /\ past'.dropped = past.dropped
      /\ past'.cancelled = past.cancelled
      /\ past'.kept = past.kept /\ past'.lockEnded = past.lockEnded
  BY <1>1, <1>3, Zenon DEF Faulted, Pasts
<1>5. PastKept
  BY <1>3, <1>4, Zenon DEF PastKept
<1> HIDE DEF again
<1>6. Decided(w, outs, again)
  BY Zenon DEF again
<1> QED
  BY <1>1, <1>2, <1>4, <1>5, <1>6, Zenon DEF DecideStep

\* A record that found its slot's key held: dropped, or deferred.
LEMMA SkipDecides ==
    ASSUME TypeOK, NEW w \in Workers, FairDrop(w) \/ FairDefer(w)
    PROVE  DecideStep(w)
<1>1. /\ hand[w].rec \in Unmarked /\ past \in Pasts /\ hand[w].at = "check"
      /\ {lock, dedup, lease, cancelSet} \subseteq BOOLEAN
      /\ UNCHANGED <<jobs, retries, retrier, redis, durable, around>>
  BY Zenon DEF TypeOK, IsHand, FairDrop, FairDefer, Skipped, Ready, Checking
<1>2. UNCHANGED <<lock, dedup, lease, cancelSet>>
  BY <1>1, Zenon DEF redis
<1>3. SafeRec(hand[w].rec) => settings.mode = "watermark"
  BY Zenon DEF FairDrop, FairDefer, Skipped, KeyHeld, SafeRec
<1>4. settings.mode = "watermark" \/ ~SafeHand(hand[w])
  BY <1>1, <1>3, Zenon DEF SafeHand
<1>5. CASE FairDrop(w)
  <2>1. Decided(w, {}, None) /\ past' = [past EXCEPT !.dropped = @ \/ settings.mode = "watermark"]
    BY <1>5, Zenon DEF FairDrop
  <2>2. (past.dropped \/ settings.mode = "watermark") \in BOOLEAN
    BY Zenon
  <2>3. past' \in Pasts
    BY <1>1, <2>1, <2>2, Zenon DEF Pasts
  <2>4. /\ past'.ends = past.ends /\ past'.runs = past.runs /\ past'.copies = past.copies
        /\ past'.lapsed = past.lapsed /\ past'.inRetry = past.inRetry
        /\ past'.cancelled = past.cancelled
        /\ past'.kept = past.kept /\ past'.lockEnded = past.lockEnded
        /\ past.dropped \/ settings.mode = "watermark" => past'.dropped
    BY <1>1, <2>1, <2>2, Zenon DEF Pasts
  <2>5. PastKept
    BY <2>3, <2>4, Zenon DEF PastKept
  <2>6. past'.dropped \/ ~SafeHand(hand[w])
    BY <1>4, <2>4, Zenon
  <2> QED
    BY <1>1, <1>2, <2>1, <2>4, <2>5, <2>6, Zenon DEF DecideStep
<1>6. CASE FairDefer(w)
  <2> DEFINE again == [hand[w].rec EXCEPT !.deferred = TRUE]
  <2>1. Decided(w, {"retry"}, again) /\ past' = past
    BY <1>6, Zenon DEF FairDefer
  <2>2. again \in Unmarked /\ again.attempt = hand[w].rec.attempt
    BY <1>1, Altered, Zenon DEF Unmarked, Recs
  <2>3. PastKept
    BY <1>1, <2>1, Zenon DEF PastKept
  <2> HIDE DEF again
  <2>4. {"retry"} \in SUBSET Outputs
    BY Zenon DEF Outputs
  <2> QED
    BY <1>1, <1>2, <1>4, <2>1, <2>2, <2>3, <2>4, Zenon DEF DecideStep
<1> QED
  BY <1>5, <1>6, Zenon

\* The outcomes a worker can have.
Decides(w) ==
    \/ SkipCancelledBatch(w) \/ SkipCancelledRetry(w) \/ DropExpired(w) \/ UnknownHandler(w)
    \/ ClaimSlotError(w) \/ FairDrop(w) \/ FairDefer(w)
    \/ Succeed(w) \/ \E retryable \in BOOLEAN : Fail(w, retryable)

\* Each of them is as DecideStep says.
LEMMA DecidesStep ==
    ASSUME TypeOK, NEW w \in Workers, Decides(w), known => batchCancelled
    PROVE  DecideStep(w)
<1>0. /\ lock \in BOOLEAN /\ dedup \in BOOLEAN /\ lease \in BOOLEAN /\ cancelSet \in BOOLEAN
      /\ past \in Pasts /\ settings.batch \in BOOLEAN
  BY Zenon DEF TypeOK, Settings
<1>1. /\ \A e \in {"executed", "success", "failed"} : IfBatch(e) \subseteq {e} /\ (settings.batch => e \in IfBatch(e))
      /\ Outputs = {"executed", "success", "failed", "retry", "dlt"}
  BY Zenon DEF IfBatch, Outputs, Events
<1>12. /\ \A e \in {"success", "failed"} :
            /\ IfBatch(e) \in SUBSET (Outputs \ {"retry"})
            /\ settings.batch => IfBatch(e) \cap {"success", "failed"} # {}
       /\ {"dlt"} \cup IfBatch("failed") \in SUBSET (Outputs \ {"retry"})
       /\ "dlt" \in {"dlt"} \cup IfBatch("failed")
       /\ settings.batch => ({"dlt"} \cup IfBatch("failed")) \cap {"success", "failed"} # {}
  BY <1>1, Zenon
<1>2. \A outs, how : Terminal(w, outs, how) => Decided(w, outs, None) /\ Releases(how)
  BY Zenon DEF Terminal, Releases
<1>3. CASE SkipCancelledBatch(w)
  <2>1. /\ hand[w].at = "check" /\ batchCancelled /\ Terminal(w, {}, "batch")
        /\ UNCHANGED <<jobs, retries, retrier, dedup, lease, durable, around, cancelSet>>
    BY <1>3, Zenon DEF SkipCancelledBatch, Checking, SkipsBatch
  <2> QED
    BY <1>0, <1>2, <2>1, TerminalDecides, Zenon
<1>4. CASE SkipCancelledRetry(w)
  <2>1. /\ hand[w].at = "check" /\ Terminal(w, IfBatch("failed"), "cancelled") /\ cancelSet' = FALSE
        /\ UNCHANGED <<jobs, retries, retrier, dedup, lease, durable, around>>
    BY <1>4, Zenon DEF SkipCancelledRetry, Checking
  <2> QED
    BY <1>0, <1>12, <1>2, <2>1, TerminalDecides, Zenon
<1>5. CASE DropExpired(w)
  <2>1. /\ hand[w].at = "check" /\ expired /\ Terminal(w, {"dlt"} \cup IfBatch("failed"), "failed")
        /\ lease' = (lease /\ ~hand[w].rec.slot)
        /\ UNCHANGED <<jobs, retries, retrier, dedup, durable, around, cancelSet>>
    BY <1>5, Zenon DEF DropExpired, Checking
  <2>2. lease' \in BOOLEAN /\ (lease' = lease \/ lease' = FALSE)
    BY <1>0, <2>1, Zenon
  <2> QED
    BY <1>0, <1>12, <1>2, <2>1, <2>2, TerminalDecides, Zenon
<1>6. CASE UnknownHandler(w)
  <2>1. /\ hand[w].at = "check" /\ Terminal(w, {"dlt"} \cup IfBatch("failed"), "failed")
        /\ UNCHANGED <<jobs, retries, retrier, dedup, lease, durable, around, cancelSet>>
    BY <1>6, Zenon DEF UnknownHandler, Ready, Checking
  <2> QED
    BY <1>0, <1>12, <1>2, <2>1, TerminalDecides, Zenon
<1>7. CASE ClaimSlotError(w)
  <2>1. /\ hand[w].at = "check"
        /\ UNCHANGED <<jobs, retries, retrier, lease, durable, around, cancelSet>>
        /\ dedup' \in {dedup /\ ~hand[w].rec.reclaim, TRUE}
    BY <1>7, Zenon DEF ClaimSlotError, Ready, Checking
  <2>2. dedup' \in BOOLEAN
    BY <2>1, Zenon
  <2>3. CASE hand[w].rec.attempt < settings.maxRetries
    <3>1. /\ Decided(w, {"retry"} \cup IfBatch("executed"), Retried(hand[w].rec))
          /\ UNCHANGED lock /\ Faulted(past)
      BY <1>7, <2>3, Zenon DEF ClaimSlotError
    <3> QED
      BY <1>0, <1>1, <2>1, <2>2, <2>3, <3>1, RetryDecides
  <2>4. CASE ~(hand[w].rec.attempt < settings.maxRetries)
    <3>1. /\ Decided(w, {"dlt"} \cup IfBatch("failed"), None)
          /\ Releases("failed")
      BY <1>7, <2>4, Zenon DEF ClaimSlotError, Releases
    <3> QED
      BY <1>0, <1>12, <2>1, <2>2, <3>1, TerminalDecides, Zenon
  <2> QED
    BY <2>3, <2>4, Zenon
<1>8. CASE FairDrop(w) \/ FairDefer(w)
  BY <1>8, SkipDecides, Zenon
<1>9. ASSUME lease' = (lease /\ hand[w].via # "slot"), hand[w].at = "run"
      PROVE  lease' \in BOOLEAN /\ (lease' = lease \/ (lease' = FALSE /\ hand[w].at = "run" /\ hand[w].via = "slot"))
  BY <1>0, <1>9, Zenon
<1>10. CASE Succeed(w)
  <2>1. /\ hand[w].at = "run" /\ Terminal(w, IfBatch("success"), "success")
        /\ lease' = (lease /\ hand[w].via # "slot")
        /\ UNCHANGED <<jobs, retries, retrier, dedup, durable, around, cancelSet>>
    BY <1>10, Zenon DEF Succeed
  <2> QED
    BY <1>0, <1>12, <1>2, <1>9, <2>1, TerminalDecides, Zenon
<1>11. ASSUME NEW retryable \in BOOLEAN, Fail(w, retryable) PROVE DecideStep(w)
  <2>1. /\ hand[w].at = "run" /\ HandleFailure(w, retryable)
        /\ lease' = (lease /\ hand[w].via # "slot")
        /\ UNCHANGED <<jobs, retries, retrier, dedup, durable, around, cancelSet>>
    BY <1>11, Zenon DEF Fail
  <2>2. CASE retryable /\ hand[w].rec.attempt < settings.maxRetries
    <3> DEFINE outs == {"retry"} \cup IF hand[w].rec.counted THEN {} ELSE IfBatch("executed")
    <3>1. Decided(w, outs, Retried(hand[w].rec)) /\ UNCHANGED <<lock, past>>
      BY <2>1, <2>2, Zenon DEF HandleFailure
    <3>2. outs \in SUBSET Outputs /\ "retry" \in outs
      BY <1>1, Zenon
    <3> HIDE DEF outs
    <3> QED
      BY <1>0, <1>9, <2>1, <2>2, <3>1, <3>2, RetryDecides, Zenon
  <2>3. CASE ~(retryable /\ hand[w].rec.attempt < settings.maxRetries)
    <3>1. Terminal(w, {"dlt"} \cup IfBatch("failed"), "failed")
      BY <2>1, <2>3, Zenon DEF HandleFailure
    <3> QED
      BY <1>0, <1>12, <1>2, <1>9, <2>1, <3>1, TerminalDecides, Zenon
  <2> QED
    BY <2>2, <2>3, Zenon
<1> QED
  BY <1>3, <1>4, <1>5, <1>6, <1>7, <1>8, <1>10, <1>11, Zenon DEF Decides

\* The handler starts: with the slot's key, without a slot, or for an orphan.
RunStep(w) ==
    /\ hand[w].at = "check"
    /\ UNCHANGED <<jobs, retries, retrier, durable, around, lock, lease, cancelSet>>
    /\ dedup' \in BOOLEAN /\ PastKept
    /\ past'.runs \in {past.runs, past.runs + 1} /\ past'.copies = past.copies /\ past'.ends = past.ends
    /\ past'.inRetry = past.inRetry
    /\ \E via \in {"slot", "plain", "orphan"} :
         /\ hand' = [hand EXCEPT ![w] = [at |-> "run", rec |-> hand[w].rec, via |-> via]]
         /\ via = "slot" /\ ~past'.lapsed => lease /\ \A v \in Workers : ~InSlot(v)
         /\ via = "orphan" => ~lease

\* Start and FairRerun are as RunStep says.
LEMMA RunsStep ==
    ASSUME TypeOK, NEW w \in Workers, Start(w) \/ FairRerun(w)
    PROVE  RunStep(w)
<1>0. dedup \in BOOLEAN /\ past \in Pasts
  BY Zenon DEF TypeOK
<1>1. ASSUME NEW via \in {"slot", "plain", "orphan"}, Running(w, via),
             hand[w].at = "check", dedup' \in BOOLEAN, via = "orphan" => ~lease,
             UNCHANGED <<jobs, retries, retrier, durable, around, lock, lease, cancelSet>>
      PROVE  RunStep(w)
  <2> DEFINE l == past.lapsed \/ (via = "slot" /\ (~lease \/ \E v \in Workers : InSlot(v)))
  <2>1. /\ hand' = [hand EXCEPT ![w] = [at |-> "run", rec |-> hand[w].rec, via |-> via]]
        /\ past' = [past EXCEPT !.runs = IF @ < MaxRuns THEN @ + 1 ELSE @, !.lapsed = l]
    BY <1>1, Zenon DEF Running
  <2>2. past' \in Pasts
    BY <1>0, <1>1, PastStep, Zenon
  <2>3. l \in BOOLEAN /\ (past.lapsed => l) /\ (via = "slot" /\ ~l => lease /\ \A v \in Workers : ~InSlot(v))
    BY Zenon
  <2> HIDE DEF l
  <2>4. /\ past'.runs \in {past.runs, past.runs + 1} /\ past'.copies = past.copies /\ past'.ends = past.ends
        /\ past'.inRetry = past.inRetry /\ past'.dropped = past.dropped /\ past'.cancelled = past.cancelled
        /\ past'.kept = past.kept /\ past'.lockEnded = past.lockEnded
        /\ past'.lapsed = l
    BY <1>0, <2>1, Zenon DEF Pasts
  <2>5. PastKept
    BY <2>2, <2>3, <2>4, Zenon DEF PastKept
  <2> QED
    BY <1>1, <2>1, <2>3, <2>4, <2>5, Zenon DEF RunStep
<1>2. CASE Start(w)
  <2> DEFINE via == IF hand[w].rec.slot THEN "slot" ELSE "plain"
  <2>1. /\ Running(w, via) /\ hand[w].at = "check"
        /\ dedup' = (dedup \/ hand[w].rec.slot)
        /\ UNCHANGED <<jobs, retries, retrier, lock, lease, durable, around, cancelSet>>
    BY <1>2, Zenon DEF Start, Ready, Checking
  <2>2. via \in {"slot", "plain"}
    BY Zenon
  <2>3. dedup' \in BOOLEAN
    BY <2>1, Zenon
  <2> HIDE DEF via
  <2> QED
    BY <1>1, <2>1, <2>2, <2>3, Zenon
<1>3. CASE FairRerun(w)
  <2>1. /\ Running(w, "orphan") /\ hand[w].at = "check" /\ ~lease
        /\ UNCHANGED <<jobs, retries, retrier, redis, durable, around>>
    BY <1>3, Zenon DEF FairRerun, Skipped, Ready, Checking
  <2> QED
    BY <1>0, <1>1, <2>1, Zenon DEF redis
<1> QED
  BY <1>2, <1>3, Zenon

\* Records move, or are produced again, n copies more; nobody starts to run.
Moved(n) ==
    /\ UNCHANGED <<around, lock, dedup, cancelSet>> /\ (lease' = lease \/ lease' = TRUE)
    /\ PastKept /\ past'.copies = past.copies + n
    /\ past'.runs = past.runs /\ past'.ends = past.ends /\ past'.dropped = past.dropped
    /\ past'.lapsed = past.lapsed /\ past'.inRetry = past.inRetry
    /\ durable \subseteq durable' /\ durable' \subseteq Outputs \ {"retry"}
    /\ hand' = [w \in Workers |-> hand'[w]]
    /\ \A w \in Workers : hand'[w] = hand[w] \/ hand'[w] = Idle \/ hand'[w].at \in {"check", "commit"}

\* A step of w that leaves it with h, where past and the redis keys are kept.
LEMMA MovedBy ==
    ASSUME TypeOK, UNCHANGED <<around, lock, dedup, cancelSet>>, lease' = lease \/ lease' = TRUE,
           durable \subseteq durable', durable' \subseteq Outputs \ {"retry"},
           \/ hand' = hand
           \/ \E w \in Workers : \E h :
                hand' = [hand EXCEPT ![w] = h] /\ (h = Idle \/ h.at \in {"check", "commit"})
    PROVE  /\ past' = past \/ Faulted(past) => Moved(0)
           /\ Faulted(Copied) => Moved(1)
<1>0. past \in Pasts /\ hand = [w \in Workers |-> hand[w]]
  BY Zenon DEF TypeOK
<1>1. /\ hand' = [w \in Workers |-> hand'[w]]
      /\ \A w \in Workers : hand'[w] = hand[w] \/ hand'[w] = Idle \/ hand'[w].at \in {"check", "commit"}
  BY <1>0, InHand, Zenon
<1>2. ASSUME past' = past \/ Faulted(past) PROVE Moved(0)
  <2>1. past' \in Pasts
    BY <1>0, <1>2 DEF Faulted, Pasts
  <2>2. /\ past'.ends = past.ends /\ past'.runs = past.runs /\ past'.copies = past.copies + 0
        /\ past'.lapsed = past.lapsed /\ past'.inRetry = past.inRetry /\ past'.dropped = past.dropped
        /\ past'.cancelled = past.cancelled
        /\ past'.kept = past.kept /\ past'.lockEnded = past.lockEnded
    BY <1>0, <1>2 DEF Faulted, Pasts
  <2> QED
    BY <1>1, <2>1, <2>2, Zenon DEF Moved, PastKept
<1>3. ASSUME Faulted(Copied) PROVE Moved(1)
  <2>3. /\ Copied \in Pasts /\ Copied.ends = past.ends /\ Copied.runs = past.runs /\ Copied.copies = past.copies + 1
        /\ Copied.lapsed = past.lapsed /\ Copied.inRetry = past.inRetry /\ Copied.dropped = past.dropped
        /\ Copied.cancelled = past.cancelled
        /\ Copied.kept = past.kept /\ Copied.lockEnded = past.lockEnded
    BY <1>0 DEF Copied, Pasts
  <2>1. past' \in Pasts
    BY <1>3, <2>3 DEF Faulted, Pasts
  <2>2. /\ past'.ends = past.ends /\ past'.runs = past.runs /\ past'.copies = past.copies + 1
        /\ past'.lapsed = past.lapsed /\ past'.inRetry = past.inRetry /\ past'.dropped = past.dropped
        /\ past'.cancelled = past.cancelled
        /\ past'.kept = past.kept /\ past'.lockEnded = past.lockEnded
    BY <1>3, <2>3, Zenon DEF Faulted, Pasts
  <2> QED
    BY <1>1, <2>1, <2>2, Zenon DEF Moved, PastKept
<1> QED
  BY <1>2, <1>3, Zenon

\* The retry consumer has ended the job, by skipping it or dropping it.
RetryEndStep(r) ==
    /\ r \in DOMAIN retries /\ retrier = None /\ retrier' = [at |-> "commit", rec |-> r]
    /\ UNCHANGED <<jobs, retries, hand, lock, dedup, lease, around>> /\ cancelSet' \in BOOLEAN
    /\ durable \subseteq durable' /\ durable' \subseteq Outputs \ {"retry"}
    /\ PastKept /\ past'.runs = past.runs /\ past'.copies = past.copies /\ past'.lapsed = past.lapsed
    /\ past'.inRetry = TRUE
    /\ Final(durable)'

\* RetrySkip and RetryExpired are as RetryEndStep says.
LEMMA RetryEndsStep ==
    ASSUME TypeOK, NEW r \in DOMAIN retries, RetrySkip(r) \/ RetryExpired(r)
    PROVE  RetryEndStep(r)
<1>0. /\ past \in Pasts /\ durable \subseteq Outputs \ {"retry"} /\ settings.batch \in BOOLEAN
      /\ cancelSet \in BOOLEAN
  BY Zenon DEF TypeOK, Settings
<1>1. \E how \in {"failed", "cancelled"} :
        /\ past' = [Ended(how) EXCEPT !.inRetry = TRUE]
        /\ durable' = durable \cup IfBatch("failed") \/ durable' = durable \cup {"dlt"} \cup IfBatch("failed")
        /\ how = "failed" => "dlt" \in durable'
        /\ retrier = None /\ retrier' = [at |-> "commit", rec |-> r]
        /\ UNCHANGED <<jobs, retries, hand, lock, dedup, lease, around>> /\ cancelSet' \in {cancelSet, FALSE}
  <2>1. CASE RetrySkip(r)
    BY <2>1, Zenon DEF RetrySkip, Handling, ToCommit
  <2>2. CASE RetryExpired(r)
    BY <2>2, Zenon DEF RetryExpired, Handling, ToCommit, redis
  <2> QED
    BY <2>1, <2>2, Zenon
<1>2. PICK how \in {"failed", "cancelled"} :
        /\ past' = [Ended(how) EXCEPT !.inRetry = TRUE]
        /\ durable' = durable \cup IfBatch("failed") \/ durable' = durable \cup {"dlt"} \cup IfBatch("failed")
        /\ how = "failed" => "dlt" \in durable'
        /\ retrier = None /\ retrier' = [at |-> "commit", rec |-> r]
        /\ UNCHANGED <<jobs, retries, hand, lock, dedup, lease, around>> /\ cancelSet' \in {cancelSet, FALSE}
  BY <1>1, Zenon
<1>3. Ended(how) \in Pasts /\ past' \in Pasts
  BY <1>0, <1>2, PastStep, Zenon
<1>4. /\ past'.ends = past.ends \cup {how} /\ past'.runs = past.runs /\ past'.copies = past.copies
      /\ past'.lapsed = past.lapsed /\ past'.inRetry = TRUE /\ past'.dropped = past.dropped
      /\ past'.cancelled = past.cancelled
      /\ past'.kept = past.kept /\ past'.lockEnded = past.lockEnded
  <2>1. /\ Ended(how).ends = past.ends \cup {how} /\ Ended(how).runs = past.runs
        /\ Ended(how).copies = past.copies /\ Ended(how).lapsed = past.lapsed
        /\ Ended(how).dropped = past.dropped /\ Ended(how).cancelled = past.cancelled
        /\ Ended(how).kept = past.kept /\ Ended(how).lockEnded = past.lockEnded
    BY <1>0, Zenon DEF Ended, Pasts
  <2> QED
    BY <1>2, <1>3, <2>1, Zenon DEF Pasts
<1>5. PastKept
  BY <1>3, <1>4, Zenon DEF PastKept
<1>6. /\ durable \subseteq durable' /\ durable' \subseteq Outputs \ {"retry"}
      /\ settings.batch => "failed" \in durable'
  BY <1>0, <1>2, Zenon DEF IfBatch, Outputs, Events
<1>7. Final(durable)'
  BY <1>2, <1>4, <1>6, Zenon DEF Final, around
<1>8. cancelSet' \in BOOLEAN
  BY <1>0, <1>2, Zenon
<1> QED
  BY <1>2, <1>4, <1>5, <1>6, <1>7, <1>8, Zenon DEF RetryEndStep

\* What happens around the job leaves its records alone, and its lock to its TTL.
QuietStep ==
    /\ UNCHANGED <<settings, jobs, retries, hand, retrier, durable>>
    /\ lock' = lock \/ (lock' = FALSE /\ past'.lockEnded = TRUE)
    /\ {dedup', lease', recorded', batchCancelled', known', cancelSet', expired'} \subseteq BOOLEAN
    /\ dedup' => dedup
    /\ batchCancelled => batchCancelled'
    /\ expired => expired'
    /\ (known => batchCancelled) => (known' => batchCancelled')
    /\ PastKept /\ past'.runs = past.runs /\ past'.copies = past.copies /\ past'.ends = past.ends
    /\ past'.inRetry = past.inRetry
    /\ \/ lease' = lease
       \/ past'.lapsed
       \/ ~\E w \in Workers : hand[w].at = "run" /\ hand[w].via = "slot"

Around == RecordEvent \/ LeaseEnds \/ KeyEnds \/ LockEnds \/ Expire \/ CancelBatch \/ RefreshCache \/ OperatorCancel

\* Each of them is as QuietStep says.
LEMMA AroundStep ==
    ASSUME TypeOK, Around
    PROVE  QuietStep
<1>0. past \in Pasts /\ {dedup, lease, recorded, batchCancelled, known, cancelSet, expired} \subseteq BOOLEAN
  BY Zenon DEF TypeOK
<1>1. past' = past => PastKept
  BY <1>0, Zenon DEF PastKept
<1>2. CASE RecordEvent \/ KeyEnds \/ Expire \/ CancelBatch \/ RefreshCache
  <2>1. CASE RecordEvent
    BY <1>0, <1>1, <2>1, Zenon DEF RecordEvent, QuietStep, redis
  <2>2. CASE KeyEnds
    BY <1>0, <1>1, <2>2, Zenon DEF KeyEnds, QuietStep, around
  <2>3. CASE Expire
    BY <1>0, <1>1, <2>3, Zenon DEF Expire, QuietStep, redis
  <2>4. CASE CancelBatch
    BY <1>0, <1>1, <2>4, Zenon DEF CancelBatch, QuietStep, redis
  <2>5. CASE RefreshCache
    BY <1>0, <1>1, <2>5, Zenon DEF RefreshCache, QuietStep, redis
  <2> QED
    BY <1>2, <2>1, <2>2, <2>3, <2>4, <2>5, Zenon
<1>3. CASE OperatorCancel
  <2>1. past' = [past EXCEPT !.cancelled = TRUE]
    BY <1>3, Zenon DEF OperatorCancel
  <2>2. past' \in Pasts
    BY <1>0, <2>1, Zenon DEF Pasts
  <2>3. /\ past'.ends = past.ends /\ past'.runs = past.runs /\ past'.copies = past.copies
        /\ past'.lapsed = past.lapsed /\ past'.inRetry = past.inRetry /\ past'.dropped = past.dropped
        /\ past'.cancelled = TRUE
        /\ past'.kept = past.kept /\ past'.lockEnded = past.lockEnded
    BY <1>0, <2>1, Zenon DEF Pasts
  <2>4. PastKept
    BY <2>2, <2>3, Zenon DEF PastKept
  <2> QED
    BY <1>0, <1>3, <2>3, <2>4, Zenon DEF OperatorCancel, QuietStep, around
<1>5. CASE LockEnds
  <2>1. past' = [past EXCEPT !.lockEnded = TRUE]
    BY <1>5, Zenon DEF LockEnds
  <2>2. past' \in Pasts
    BY <1>0, <2>1, Zenon DEF Pasts
  <2>3. /\ past'.ends = past.ends /\ past'.runs = past.runs /\ past'.copies = past.copies
        /\ past'.lapsed = past.lapsed /\ past'.inRetry = past.inRetry /\ past'.dropped = past.dropped
        /\ past'.cancelled = past.cancelled /\ past'.kept = past.kept /\ past'.lockEnded = TRUE
    BY <1>0, <2>1, Zenon DEF Pasts
  <2>4. PastKept
    BY <2>2, <2>3, Zenon DEF PastKept
  <2> QED
    BY <1>0, <1>5, <2>3, <2>4, Zenon DEF LockEnds, QuietStep, around
<1>4. CASE LeaseEnds
  <2>1. /\ lease' = FALSE
        /\ UNCHANGED <<jobs, retries, hand, retrier, lock, dedup, durable, around, cancelSet>>
        /\ IF \E w \in Workers : hand[w].at = "run" /\ hand[w].via = "slot"
           THEN Faulted([past EXCEPT !.lapsed = TRUE]) ELSE past' = past
    BY <1>4, Zenon DEF LeaseEnds
  <2>2. CASE ~\E w \in Workers : hand[w].at = "run" /\ hand[w].via = "slot"
    BY <1>0, <1>1, <2>1, <2>2, Zenon DEF QuietStep, around
  <2>3. CASE \E w \in Workers : hand[w].at = "run" /\ hand[w].via = "slot"
    <3> DEFINE p == [past EXCEPT !.lapsed = TRUE]
    <3>1. /\ p \in Pasts /\ p.ends = past.ends /\ p.runs = past.runs /\ p.copies = past.copies
          /\ p.lapsed = TRUE /\ p.inRetry = past.inRetry /\ p.dropped = past.dropped /\ p.cancelled = past.cancelled
          /\ p.kept = past.kept /\ p.lockEnded = past.lockEnded
      BY <1>0, Zenon DEF Pasts
    <3>2. Faulted(p)
      BY <2>1, <2>3, Zenon
    <3> HIDE DEF p
    <3>3. /\ past' \in Pasts /\ past'.ends = past.ends /\ past'.runs = past.runs /\ past'.copies = past.copies
          /\ past'.lapsed = TRUE /\ past'.inRetry = past.inRetry /\ past'.dropped = past.dropped
          /\ past'.cancelled = past.cancelled
          /\ past'.kept = past.kept /\ past'.lockEnded = past.lockEnded
      BY <3>1, <3>2 DEF Faulted, Pasts
    <3>4. PastKept
      BY <3>3, Zenon DEF PastKept
    <3> QED
      BY <1>0, <2>1, <3>3, <3>4, Zenon DEF QuietStep, around
  <2> QED
    BY <2>2, <2>3, Zenon
<1> QED
  BY <1>2, <1>3, <1>4, <1>5, Zenon DEF Around

\* A record that comes back can be run again.
Returned(r) == [r EXCEPT !.reclaim = @ \/ settings.mode = "superfetch"]

\* A record put back on its topic (a rewind or a reclaim) keeps its attempt and
\* stays unmarked; outside watermark mode it counts as reclaimed.
LEMMA ReturnedFields ==
    ASSUME TypeOK, NEW r \in Unmarked
    PROVE  /\ Returned(r) \in Unmarked /\ Returned(r).attempt = r.attempt
           /\ Returned(r).reclaim = TRUE \/ settings.mode = "watermark"
<1> DEFINE b == r.reclaim \/ settings.mode = "superfetch"
<1>1. b \in BOOLEAN /\ Returned(r) = [r EXCEPT !.reclaim = b]
  BY Zenon DEF Returned
<1>2. b = TRUE \/ settings.mode = "watermark"
  BY Zenon DEF TypeOK, Settings
<1> HIDE DEF b
<1>3. r \in Records
  BY Zenon DEF Unmarked, Recs
<1>4. LET d == [r EXCEPT !.reclaim = b]
      IN  d \in Records /\ d.attempt = r.attempt /\ d.slot = r.slot /\ d.reclaim = b /\ d.skip = r.skip
  <2>1. b \in BOOLEAN
    BY <1>1, Zenon
  <2> QED
    BY <1>3, <2>1, Zenon DEF Records
<1> QED
  BY <1>1, <1>2, <1>4, Zenon DEF Unmarked, Recs

\* A record the retry consumer sends to the job topic.
LEMMA DispatchedFields ==
    ASSUME TypeOK, NEW r \in DOMAIN retries, r.skip = FALSE
    PROVE  LET d == [r EXCEPT !.deferred = FALSE]
           IN  d \in Unmarked /\ d.attempt = r.attempt /\ d.slot = r.slot /\ d.reclaim = r.reclaim
<1>1. r \in Recs /\ r \in Records
  BY Zenon DEF TypeOK, IsTopic, Recs
<1>2. LET d == [r EXCEPT !.deferred = FALSE]
      IN  d \in Records /\ d.attempt = r.attempt /\ d.slot = r.slot /\ d.reclaim = r.reclaim /\ d.skip = r.skip
  BY <1>1, Altered, Zenon
<1> QED
  BY <1>1, <1>2, Zenon DEF Unmarked, Recs

\* The first record.
LEMMA FirstFields ==
    ASSUME TypeOK
    PROVE  First \in Unmarked /\ First.attempt = 0
<1>1. settings.fair \in BOOLEAN /\ settings.maxRetries \in Nat
  BY Zenon DEF TypeOK, Settings
<1> QED
  BY <1>1 DEF First, Unmarked, Recs, Records

\* What of an outcome is published.
LEMMA PublishedFields ==
    ASSUME TypeOK, NEW w \in Workers, hand[w].at = "apply", NEW landed \in SUBSET hand[w].outs,
           Published(landed, hand[w].again)
    PROVE  /\ durable \subseteq durable' /\ durable' \subseteq Outputs \ {"retry"}
           /\ durable' = durable \cup (landed \ {"retry"})
           /\ \/ "retry" \notin landed /\ retries' = retries
              \/ "retry" \in landed /\ hand[w].again \in Unmarked /\ retries' = With(retries, hand[w].again)
BY Zenon DEF TypeOK, IsHand, Published

\* Which steps move records, and how many copies they make.
LEMMA FlowMoves ==
    ASSUME TypeOK, NEW w \in Workers
    PROVE  /\ (\E r \in DOMAIN jobs : Deliver(w, r)) \/ Apply(w) \/ Commit(w) => Moved(0)
           /\ \/ Crash(w) \/ Redeliver(w)
              \/ hand[w].at = "apply" /\ \E landed \in SUBSET hand[w].outs : ApplyFails(w, landed) \/ ApplyAgain(w, landed)
              => Moved(1)
<1>0. durable \subseteq Outputs \ {"retry"}
  BY Zenon DEF TypeOK
<1>1. ASSUME NEW r \in DOMAIN jobs, Deliver(w, r) PROVE Moved(0)
  <2> DEFINE h == [at |-> "check", rec |-> r]
  <2>1. hand' = [hand EXCEPT ![w] = h] /\ h.at = "check"
    BY <1>1, Zenon DEF Deliver
  <2> HIDE DEF h
  <2> QED
    BY <1>0, <1>1, <2>1, MovedBy, Zenon DEF Deliver, redis
<1>2. ASSUME Apply(w) PROVE Moved(0)
  <2>1. hand[w].at = "apply" /\ Published(hand[w].outs, hand[w].again)
    BY <1>2, Zenon DEF Apply
  <2>2. durable \subseteq durable' /\ durable' \subseteq Outputs \ {"retry"}
    BY <2>1, PublishedFields, Zenon
  <2> DEFINE h == [at |-> "commit", rec |-> hand[w].rec]
  <2>3. hand' = [hand EXCEPT ![w] = h] /\ h.at = "commit"
    BY <1>2, Zenon DEF Apply
  <2> HIDE DEF h
  <2> QED
    BY <1>2, <2>2, <2>3, MovedBy, Zenon DEF Apply, redis
<1>3. ASSUME Commit(w) PROVE Moved(0)
  BY <1>0, <1>3, MovedBy, Zenon DEF Commit, redis
<1>4. ASSUME Crash(w) PROVE Moved(1)
  BY <1>0, <1>4, MovedBy, Zenon DEF Crash, redis
<1>5. ASSUME Redeliver(w) PROVE Moved(1)
  BY <1>0, <1>5, MovedBy, Zenon DEF Redeliver, redis
<1>6. ASSUME NEW landed \in SUBSET hand[w].outs, ApplyFails(w, landed) \/ ApplyAgain(w, landed) PROVE Moved(1)
  <2>1. hand[w].at = "apply" /\ Published(landed, hand[w].again)
    BY <1>6, Zenon DEF ApplyFails, ApplyAgain
  <2>2. durable \subseteq durable' /\ durable' \subseteq Outputs \ {"retry"}
    BY <2>1, PublishedFields, Zenon
  <2>3. CASE ApplyFails(w, landed)
    BY <2>2, <2>3, MovedBy, Zenon DEF ApplyFails, redis
  <2>4. CASE ApplyAgain(w, landed)
    BY <2>2, <2>4, MovedBy, Zenon DEF ApplyAgain, redis
  <2> QED
    BY <1>6, <2>3, <2>4, Zenon
<1> QED
  BY <1>1, <1>2, <1>3, <1>4, <1>5, <1>6, Zenon

\* The same for the retry consumer and the forwarder.
LEMMA RetryMoves ==
    ASSUME TypeOK
    PROVE  /\ (\E r \in DOMAIN retries : RetryDispatch(r)) \/ RetryCommit => Moved(0)
           /\ RetryCrash \/ Reforward => Moved(1)
           /\ \A r \in DOMAIN retries : RetryFails(r) =>
                \/ Moved(0) /\ jobs' = jobs
                \/ Moved(1) /\ ~Skips(r) /\ jobs' = With(jobs, [r EXCEPT !.deferred = FALSE])
<1>0. durable \subseteq Outputs \ {"retry"}
  BY Zenon DEF TypeOK
<1>1. ASSUME NEW r \in DOMAIN retries, RetryDispatch(r) PROVE Moved(0)
  BY <1>0, <1>1, MovedBy, Zenon DEF RetryDispatch, redis
<1>2. ASSUME RetryCommit PROVE Moved(0)
  BY <1>0, <1>2, MovedBy, Zenon DEF RetryCommit, redis
<1>3. ASSUME RetryCrash PROVE Moved(1)
  BY <1>0, <1>3, MovedBy, Zenon DEF RetryCrash, redis
<1>4. ASSUME Reforward PROVE Moved(1)
  BY <1>0, <1>4, MovedBy, Zenon DEF Reforward
<1>5. ASSUME NEW r \in DOMAIN retries, RetryFails(r)
      PROVE  \/ Moved(0) /\ jobs' = jobs
             \/ Moved(1) /\ ~Skips(r) /\ jobs' = With(jobs, [r EXCEPT !.deferred = FALSE])
  <2>1. IfBatch("failed") \subseteq Outputs \ {"retry"}
    BY Zenon DEF IfBatch, Outputs, Events
  <2>2. UNCHANGED <<retries, hand, retrier, redis, around>>
    BY <1>5, Zenon DEF RetryFails
  <2>3. CASE durable' = durable \cup IfBatch("failed") /\ Faulted(past) /\ UNCHANGED jobs
    BY <1>0, <2>1, <2>2, <2>3, MovedBy, Zenon DEF redis
  <2>4. CASE ~Skips(r) /\ jobs' = With(jobs, [r EXCEPT !.deferred = FALSE]) /\ Faulted(Copied) /\ UNCHANGED durable
    BY <1>0, <2>2, <2>4, MovedBy, Zenon DEF redis
  <2> QED
    BY <1>5, <2>3, <2>4, Zenon DEF RetryFails
<1> QED
  BY <1>1, <1>2, <1>3, <1>4, <1>5, Zenon

-----------------------------------------------------------------------------
(* Types are kept *)

\* What the retry topic has to be.
RetriesOK ==
    /\ IsTopic(retries, Recs) /\ (past.cancelled \/ IsTopic(retries, Unmarked))
    /\ retrier # None => retrier.at = "commit" /\ retrier.rec \in DOMAIN retries

\* TypeOK, part by part.
LEMMA TypeParts ==
    ASSUME TypeOK, UNCHANGED settings, PastKept, durable' \subseteq Outputs \ {"retry"},
           {lock', dedup', lease', recorded', batchCancelled', known', cancelSet', expired'} \subseteq BOOLEAN,
           IsTopic(jobs', Unmarked), RetriesOK',
           hand' = [w \in Workers |-> hand'[w]], \A w \in Workers : hand'[w] = hand[w] \/ IsHand(hand'[w])
    PROVE  TypeOK'
<1>1. Recs' = Recs /\ Unmarked' = Unmarked
  BY Zenon DEF Recs, Unmarked
<1>2. \A w \in Workers : IsHand(hand'[w])
  BY Zenon DEF TypeOK
<1>3. (\A w \in Workers : IsHand(hand[w]))'
  BY <1>1, <1>2, Zenon DEF IsHand
<1> QED
  BY <1>1, <1>3, Zenon DEF TypeOK, PastKept, RetriesOK, IsTopic

\* A retry topic that is left alone, or gets one record more.
LEMMA RetriesKept ==
    ASSUME TypeOK, UNCHANGED settings, PastKept, retrier' = retrier \/ retrier' = None,
           retries' = retries \/ \E x \in Unmarked : retries' = With(retries, x)
    PROVE  RetriesOK'
<1>1. Recs' = Recs /\ Unmarked' = Unmarked /\ Unmarked \subseteq Recs
  BY Zenon DEF Recs, Unmarked
<1>2. CASE retries' = retries
  BY <1>1, <1>2, Zenon DEF TypeOK, RetriesOK, PastKept
<1>3. ASSUME NEW x \in Unmarked, retries' = With(retries, x) PROVE RetriesOK'
  <2>1. IsTopic(retries', Recs) /\ DOMAIN retries \subseteq DOMAIN retries'
    <3>1. IsTopic(retries, Recs) /\ x \in Recs
      BY <1>1, Zenon DEF TypeOK
    <3>2. IsTopic(With(retries, x), Recs)
      BY <3>1, AddTopic, Zenon
    <3>3. DOMAIN With(retries, x) = DOMAIN retries \cup {x}
      BY Zenon DEF With
    <3> QED
      BY <1>3, <3>2, <3>3, Zenon
  <2>2. IsTopic(retries, Unmarked) => IsTopic(retries', Unmarked)
    BY <1>3, AddTopic, Zenon
  <2> QED
    BY <1>1, <2>1, <2>2, Zenon DEF RetriesOK, TypeOK, PastKept
<1> QED
  BY <1>2, <1>3, Zenon

\* What Moved leaves to show.
LEMMA MovedTypes ==
    ASSUME TypeOK, NEW n \in {0, 1}, Moved(n), IsTopic(jobs', Unmarked), RetriesOK',
           \A w \in Workers : hand'[w] = hand[w] \/ IsHand(hand'[w])
    PROVE  TypeOK'
<1>1. /\ UNCHANGED <<settings, recorded, batchCancelled, known, expired, lock, dedup, cancelSet>>
      /\ lease' = lease \/ lease' = TRUE
      /\ PastKept /\ durable' \subseteq Outputs \ {"retry"} /\ hand' = [w \in Workers |-> hand'[w]]
  BY Zenon DEF Moved, around
<1>2. {lock', dedup', lease', recorded', batchCancelled', known', cancelSet', expired'} \subseteq BOOLEAN
  BY <1>1, Zenon DEF TypeOK
<1> QED
  BY <1>1, <1>2, TypeParts, Zenon

\* The job topic with a record returned to it or taken from it.
LEMMA JobsKept ==
    ASSUME TypeOK
    PROVE  /\ IsTopic(jobs, Unmarked)
           /\ \A x \in Unmarked : IsTopic(With(jobs, x), Unmarked)
           /\ \A x \in DOMAIN jobs : IsTopic(Without(jobs, x), Unmarked) /\ x \in Unmarked
<1>1. IsTopic(jobs, Unmarked)
  BY Zenon DEF TypeOK
<1>2. \A x \in Unmarked : IsTopic(With(jobs, x), Unmarked)
  BY <1>1, AddTopic, Zenon
<1>3. \A x \in DOMAIN jobs : IsTopic(Without(jobs, x), Unmarked)
  BY <1>1, RemoveTopic, Zenon
<1>4. \A x \in DOMAIN jobs : x \in Unmarked
  BY <1>1, Zenon DEF IsTopic
<1> QED
  BY <1>1, <1>2, <1>3, <1>4, Zenon

\* A worker's own steps keep the types.
LEMMA WorkerTypes ==
    ASSUME TypeOK, NEW w \in Workers
    PROVE  /\ DecideStep(w) \/ RunStep(w) => TypeOK'
           /\ ((\E r \in DOMAIN jobs : Deliver(w, r)) \/ Apply(w) \/ Commit(w)) => TypeOK'
           /\ Crash(w) \/ Redeliver(w) => TypeOK'
           /\ \A landed \in SUBSET hand[w].outs : ApplyFails(w, landed) \/ ApplyAgain(w, landed) => TypeOK'
<1>0. \A v \in Workers : IsHand(hand[v])
  BY Zenon DEF TypeOK
<1>1. ASSUME DecideStep(w) PROVE TypeOK'
  <2>1. PICK outs, again :
            outs \in SUBSET Outputs /\ Decided(w, outs, again) /\ ("retry" \in outs => again \in Unmarked)
    BY <1>1, Zenon DEF DecideStep
  <2> DEFINE h == [at |-> "apply", rec |-> hand[w].rec, outs |-> outs, again |-> again]
  <2>2. hand' = [hand EXCEPT ![w] = h]
    BY <2>1, Zenon DEF Decided
  <2>3. hand[w].rec \in Unmarked
    BY <1>0, <1>1, Zenon DEF DecideStep, IsHand
  <2>4. IsHand(h)
    BY <2>1, <2>3, Zenon DEF IsHand
  <2> HIDE DEF h
  <2>5. hand' = [v \in Workers |-> hand'[v]] /\ \A v \in Workers : hand'[v] = hand[v] \/ IsHand(hand'[v])
    BY <2>2, <2>4, InHand, Zenon
  <2>6. /\ UNCHANGED <<jobs, retries, retrier, durable, settings, recorded, batchCancelled, known, expired>>
        /\ {lock', dedup', lease', cancelSet'} \subseteq BOOLEAN /\ PastKept
    BY <1>1, Zenon DEF DecideStep, around
  <2>7. RetriesOK' /\ IsTopic(jobs', Unmarked)
    BY <2>6, RetriesKept, JobsKept, Zenon
  <2>8. /\ {lock', dedup', lease', recorded', batchCancelled', known', cancelSet', expired'} \subseteq BOOLEAN
        /\ durable' \subseteq Outputs \ {"retry"}
    BY <2>6, Zenon DEF TypeOK
  <2> QED
    BY <2>5, <2>6, <2>7, <2>8, TypeParts, Zenon
<1>2. ASSUME RunStep(w) PROVE TypeOK'
  <2>1. PICK via \in {"slot", "plain", "orphan"} :
            hand' = [hand EXCEPT ![w] = [at |-> "run", rec |-> hand[w].rec, via |-> via]]
    BY <1>2, Zenon DEF RunStep
  <2> DEFINE h == [at |-> "run", rec |-> hand[w].rec, via |-> via]
  <2>3. hand[w].rec \in Unmarked
    BY <1>0, <1>2, Zenon DEF RunStep, IsHand
  <2>4. IsHand(h) /\ hand' = [hand EXCEPT ![w] = h]
    BY <2>1, <2>3, Zenon DEF IsHand
  <2> HIDE DEF h
  <2>5. hand' = [v \in Workers |-> hand'[v]] /\ \A v \in Workers : hand'[v] = hand[v] \/ IsHand(hand'[v])
    BY <2>4, InHand, Zenon
  <2>6. /\ UNCHANGED <<jobs, retries, retrier, durable, settings, recorded, batchCancelled, known, expired, lock, lease, cancelSet>>
        /\ dedup' \in BOOLEAN /\ PastKept
    BY <1>2, Zenon DEF RunStep, around
  <2>7. RetriesOK' /\ IsTopic(jobs', Unmarked)
    BY <2>6, RetriesKept, JobsKept, Zenon
  <2>8. /\ {lock', dedup', lease', recorded', batchCancelled', known', cancelSet', expired'} \subseteq BOOLEAN
        /\ durable' \subseteq Outputs \ {"retry"}
    BY <2>6, Zenon DEF TypeOK
  <2> QED
    BY <2>5, <2>6, <2>7, <2>8, TypeParts, Zenon
<1>3. ASSUME NEW n \in {0, 1}, Moved(n), NEW h, IsHand(h), hand' = [hand EXCEPT ![w] = h] \/ hand' = hand,
             jobs' = jobs \/ (\E x \in Unmarked : jobs' = With(jobs, x)) \/ (\E x \in DOMAIN jobs : jobs' = Without(jobs, x)),
             retrier' = retrier,
             retries' = retries \/ \E x \in Unmarked : retries' = With(retries, x)
      PROVE  TypeOK'
  <2>1. \A v \in Workers : hand'[v] = hand[v] \/ IsHand(hand'[v])
    BY <1>3, InHand, Zenon
  <2>2. UNCHANGED settings /\ PastKept
    BY <1>3, Zenon DEF Moved, around
  <2>3. IsTopic(jobs', Unmarked)
    BY <1>3, JobsKept, Zenon
  <2>4. RetriesOK'
    BY <1>3, <2>2, RetriesKept, Zenon
  <2> QED
    BY <1>3, <2>1, <2>3, <2>4, MovedTypes, Zenon
<1>4. IsHand(Idle)
  BY Zenon DEF IsHand, Idle
<1>5. ASSUME hand[w].at # "idle", Redelivered(hand[w].rec)
      PROVE  \E x \in Unmarked : jobs' = With(jobs, x)
  <2>1. hand[w].rec \in Unmarked
    BY <1>0, <1>5, Zenon DEF IsHand
  <2> QED
    BY <1>5, <2>1, ReturnedFields, Zenon DEF Redelivered, Returned
<1>6. hand[w] # Idle => hand[w].at # "idle"
  BY <1>0, Zenon DEF IsHand
<1>7. ASSUME NEW r \in DOMAIN jobs, Deliver(w, r) PROVE TypeOK'
  <2>1. IsHand([at |-> "check", rec |-> r])
    BY JobsKept, Zenon DEF IsHand
  <2>2. Moved(0)
    BY <1>7, FlowMoves, Zenon
  <2> QED
    BY <1>3, <1>7, <2>1, <2>2, Zenon DEF Deliver
<1>8. ASSUME Apply(w) PROVE TypeOK'
  <2>1. IsHand([at |-> "commit", rec |-> hand[w].rec])
    BY <1>0, <1>8, Zenon DEF IsHand, Apply
  <2>2. retries' = retries \/ \E x \in Unmarked : retries' = With(retries, x)
    BY <1>8, PublishedFields, Zenon DEF Apply
  <2>3. Moved(0)
    BY <1>8, FlowMoves, Zenon
  <2> QED
    BY <1>3, <1>8, <2>1, <2>2, <2>3, Zenon DEF Apply
<1>9. ASSUME Commit(w) PROVE TypeOK'
  <2>1. Moved(0)
    BY <1>9, FlowMoves, Zenon
  <2> QED
    BY <1>3, <1>4, <1>9, <2>1, Zenon DEF Commit
<1>10. ASSUME Crash(w) \/ Redeliver(w) PROVE TypeOK'
  <2>1. /\ hand[w] # Idle /\ Redelivered(hand[w].rec) /\ UNCHANGED <<retries, retrier>>
        /\ hand' = [hand EXCEPT ![w] = Idle] \/ hand' = hand
    BY <1>10, Zenon DEF Crash, Redeliver
  <2>2. Moved(1)
    BY <1>10, FlowMoves, Zenon
  <2> QED
    BY <1>3, <1>4, <1>5, <1>6, <2>1, <2>2, Zenon
<1>11. ASSUME NEW landed \in SUBSET hand[w].outs, ApplyFails(w, landed) \/ ApplyAgain(w, landed) PROVE TypeOK'
  <2>1. /\ hand[w].at = "apply" /\ Published(landed, hand[w].again) /\ UNCHANGED retrier
        /\ Redelivered(hand[w].rec) \/ jobs' = jobs
        /\ hand' = [hand EXCEPT ![w] = Idle] \/ hand' = hand
    BY <1>11, Zenon DEF ApplyFails, ApplyAgain
  <2>2. Moved(1)
    BY <1>11, <2>1, FlowMoves, Zenon
  <2>3. retries' = retries \/ \E x \in Unmarked : retries' = With(retries, x)
    BY <2>1, PublishedFields, Zenon
  <2>4. jobs' = jobs \/ \E x \in Unmarked : jobs' = With(jobs, x)
    BY <1>5, <2>1, Zenon
  <2> QED
    BY <1>3, <1>4, <2>1, <2>2, <2>3, <2>4, Zenon
<1> QED
  BY <1>1, <1>2, <1>7, <1>8, <1>9, <1>10, <1>11, Zenon

\* The mark a record gets is the only thing it changes.
LEMMA Marking ==
    ASSUME NEW r \in Records, r.skip = FALSE
    PROVE  [[r EXCEPT !.skip = TRUE] EXCEPT !.skip = FALSE] = r
BY Zenon DEF Records

\* The retry topic under a skip watermark.
LEMMA SkipMarks ==
    ASSUME TypeOK, SetSkipWatermarks
    PROVE  /\ Moved(0) /\ past'.cancelled = TRUE /\ RetriesOK' /\ UNCHANGED <<jobs, hand, retrier, durable>>
           /\ \A s \in DOMAIN retries' :
                LET r == [s EXCEPT !.skip = FALSE]
                IN  /\ s \in Recs /\ r \in DOMAIN retries /\ s = [r EXCEPT !.skip = TRUE]
                    /\ retries'[s] = retries[r] /\ s.attempt = r.attempt
           /\ \A r \in DOMAIN retries : [r EXCEPT !.skip = TRUE] \in DOMAIN retries'
<1> DEFINE Mark(r) == [r EXCEPT !.skip = TRUE]
           Unmark(s) == [s EXCEPT !.skip = FALSE]
<1>1. /\ past.cancelled = FALSE /\ retrier = None
      /\ retries' = [s \in {Mark(r) : r \in DOMAIN retries} |-> retries[Unmark(s)]]
      /\ past' = [past EXCEPT !.cancelled = TRUE]
      /\ UNCHANGED <<jobs, hand, retrier, redis, durable, around>>
  <2>1. past.cancelled \in BOOLEAN
    BY Zenon DEF TypeOK, Pasts
  <2> QED
    BY <2>1, Zenon DEF SetSkipWatermarks
<1>2. past \in Pasts /\ IsTopic(retries, Unmarked) /\ hand = [w \in Workers |-> hand[w]]
  BY <1>1, Zenon DEF TypeOK
<1>3. \A r \in DOMAIN retries : /\ r \in Records /\ r.skip = FALSE /\ r \in Recs
                                /\ retries[r] \in Nat \ {0}
  BY <1>2, Zenon DEF IsTopic, Unmarked, Recs
<1>4. \A r \in DOMAIN retries :
        Mark(r) \in Recs /\ Unmark(Mark(r)) = r /\ Mark(r).attempt = r.attempt
  <2>1. \A r \in DOMAIN retries : Unmark(Mark(r)) = r
    BY <1>3, Marking, Zenon
  <2>2. \A r \in DOMAIN retries : Mark(r) \in Records /\ Mark(r).attempt = r.attempt
    BY <1>3, Altered, Zenon
  <2> QED
    BY <1>3, <2>1, <2>2, Zenon DEF Recs
<1>5. past' \in Pasts
  BY <1>1, <1>2, Zenon DEF Pasts
<1>6. /\ past'.ends = past.ends /\ past'.runs = past.runs /\ past'.copies = past.copies + 0
      /\ past'.lapsed = past.lapsed /\ past'.inRetry = past.inRetry /\ past'.dropped = past.dropped
      /\ past'.cancelled = TRUE
      /\ past'.kept = past.kept /\ past'.lockEnded = past.lockEnded
  BY <1>1, <1>2 DEF Pasts
<1>7. Moved(0)
  <2>1. PastKept
    BY <1>5, <1>6, Zenon DEF PastKept
  <2>2. durable \subseteq Outputs \ {"retry"}
    BY Zenon DEF TypeOK
  <2> QED
    BY <1>1, <1>2, <1>6, <2>1, <2>2, Zenon DEF Moved, redis
<1> HIDE DEF Mark, Unmark
<1>8. ASSUME NEW s \in DOMAIN retries'
      PROVE  /\ s \in Recs /\ Unmark(s) \in DOMAIN retries /\ s = Mark(Unmark(s))
             /\ retries'[s] = retries[Unmark(s)] /\ s.attempt = Unmark(s).attempt
             /\ retries'[s] \in Nat \ {0}
  <2>1. PICK r \in DOMAIN retries : s = Mark(r)
    BY <1>1, <1>8, Zenon
  <2>2. Unmark(s) = r /\ s \in Recs /\ s.attempt = r.attempt
    BY <1>4, <2>1, Zenon
  <2>3. retries'[s] = retries[Unmark(s)]
    BY <1>1, <1>8, Zenon
  <2> QED
    BY <1>3, <2>1, <2>2, <2>3, Zenon
<1>9. \A r \in DOMAIN retries : Mark(r) \in DOMAIN retries'
  BY <1>1, Zenon
<1>10. RetriesOK'
  <2>1. Recs' = Recs
    BY <1>1, Zenon DEF Recs, around
  <2>2. IsTopic(retries', Recs)
    <3>1. retries' = [s \in DOMAIN retries' |-> retries'[s]]
      BY <1>1, Zenon
    <3> QED
      BY <1>8, <3>1, Zenon DEF IsTopic
  <2> QED
    BY <1>1, <1>6, <2>1, <2>2, Zenon DEF RetriesOK
<1> QED
  BY <1>1, <1>6, <1>7, <1>8, <1>9, <1>10, Zenon DEF Mark, Unmark

\* The retry consumer's steps, the forwarder's and the operator's keep the types.
LEMMA RetryTypes ==
    ASSUME TypeOK
    PROVE  /\ \A r \in DOMAIN retries : RetryEndStep(r) \/ RetryDispatch(r) \/ RetryFails(r) => TypeOK'
           /\ RetryCommit \/ RetryCrash \/ Reforward \/ SetSkipWatermarks \/ QuietStep => TypeOK'
<1>0. /\ IsTopic(jobs, Unmarked) /\ IsTopic(retries, Recs) /\ \A w \in Workers : IsHand(hand[w])
      /\ hand = [w \in Workers |-> hand[w]] /\ RetriesOK
  BY Zenon DEF TypeOK, RetriesOK
<1>1. ASSUME NEW r \in DOMAIN retries, RetryEndStep(r) PROVE TypeOK'
  <2>1. /\ UNCHANGED <<jobs, retries, hand, lock, dedup, lease, settings, recorded, batchCancelled, known, expired>>
        /\ cancelSet' \in BOOLEAN /\ durable' \subseteq Outputs \ {"retry"} /\ PastKept
        /\ retrier' = [at |-> "commit", rec |-> r]
    BY <1>1, Zenon DEF RetryEndStep, around
  <2>2. RetriesOK'
    <3>1. Recs' = Recs /\ Unmarked' = Unmarked
      BY <2>1, Zenon DEF Recs, Unmarked
    <3> QED
      BY <1>0, <1>1, <2>1, <3>1, Zenon DEF RetriesOK, PastKept
  <2>3. {lock', dedup', lease', recorded', batchCancelled', known', cancelSet', expired'} \subseteq BOOLEAN
    BY <2>1, Zenon DEF TypeOK
  <2> QED
    BY <1>0, <2>1, <2>2, <2>3, TypeParts, Zenon
<1>2. ASSUME NEW r \in DOMAIN retries, RetryDispatch(r) PROVE TypeOK'
  <2>1. /\ ~r.skip /\ jobs' = With(jobs, [r EXCEPT !.deferred = FALSE]) /\ Moved(0)
        /\ retrier' = [at |-> "commit", rec |-> r] /\ UNCHANGED <<retries, hand, settings>> /\ PastKept
    BY <1>2, RetryMoves, Zenon DEF RetryDispatch, ToCommit, Skips, around, Moved
  <2>2. r.skip = FALSE
    BY <1>0, <2>1, Zenon DEF IsTopic, Recs, Records
  <2>3. IsTopic(jobs', Unmarked)
    BY <1>2, <2>1, <2>2, DispatchedFields, JobsKept, Zenon
  <2>4. RetriesOK'
    <3>1. Recs' = Recs /\ Unmarked' = Unmarked
      BY <2>1, Zenon DEF Recs, Unmarked
    <3> QED
      BY <1>0, <1>2, <2>1, <3>1, Zenon DEF RetriesOK, PastKept
  <2> QED
    BY <1>0, <2>1, <2>3, <2>4, MovedTypes, Zenon
<1>3. ASSUME NEW r \in DOMAIN retries, RetryFails(r) PROVE TypeOK'
  <2>1. UNCHANGED <<retries, hand, retrier, settings>>
    BY <1>3, Zenon DEF RetryFails, around
  <2>2. CASE Moved(0) /\ jobs' = jobs
    <3>1. RetriesOK'
      BY <2>1, <2>2, RetriesKept, Zenon DEF Moved
    <3> QED
      BY <1>0, <2>1, <2>2, <3>1, MovedTypes, Zenon
  <2>3. CASE Moved(1) /\ ~Skips(r) /\ jobs' = With(jobs, [r EXCEPT !.deferred = FALSE])
    <3>1. RetriesOK'
      BY <2>1, <2>3, RetriesKept, Zenon DEF Moved
    <3>2. r.skip = FALSE
      BY <1>0, <2>3, Zenon DEF IsTopic, Recs, Records, Skips
    <3>3. IsTopic(jobs', Unmarked)
      BY <1>3, <2>3, <3>2, DispatchedFields, JobsKept, Zenon
    <3> QED
      BY <1>0, <2>1, <2>3, <3>1, <3>3, MovedTypes, Zenon
  <2> QED
    BY <1>3, <2>2, <2>3, RetryMoves, Zenon
<1>4. ASSUME RetryCommit PROVE TypeOK'
  <2>1. /\ retrier # None /\ retries' = Without(retries, retrier.rec) /\ retrier' = None /\ Moved(0)
        /\ UNCHANGED <<jobs, hand, settings>> /\ PastKept
    BY <1>4, RetryMoves, Zenon DEF RetryCommit, around, Moved
  <2>2. retrier.rec \in DOMAIN retries
    BY <1>0, <2>1, Zenon DEF RetriesOK
  <2>3. IsTopic(retries', Recs)
    BY <1>0, <2>1, <2>2, RemoveTopic, Zenon
  <2>4. IsTopic(retries, Unmarked) => IsTopic(retries', Unmarked)
    BY <2>1, <2>2, RemoveTopic, Zenon
  <2>5. Recs' = Recs /\ Unmarked' = Unmarked
    BY <2>1, Zenon DEF Recs, Unmarked
  <2>6. RetriesOK'
    BY <1>0, <2>1, <2>3, <2>4, <2>5, Zenon DEF RetriesOK, PastKept
  <2> QED
    BY <1>0, <2>1, <2>6, MovedTypes, Zenon
<1>5. ASSUME RetryCrash PROVE TypeOK'
  <2>1. retrier' = None /\ Moved(1) /\ UNCHANGED <<jobs, retries, hand, settings>> /\ PastKept
    BY <1>5, RetryMoves, Zenon DEF RetryCrash, around, Moved
  <2>2. RetriesOK'
    BY <2>1, RetriesKept, Zenon
  <2> QED
    BY <1>0, <2>1, <2>2, MovedTypes, Zenon
<1>6. ASSUME Reforward PROVE TypeOK'
  <2>1. jobs' = With(jobs, First) /\ Moved(1) /\ UNCHANGED <<retries, retrier, hand, settings>> /\ PastKept
    BY <1>6, RetryMoves, Zenon DEF Reforward, around, Moved
  <2>2. RetriesOK' /\ IsTopic(jobs', Unmarked)
    BY <2>1, RetriesKept, FirstFields, JobsKept, Zenon
  <2> QED
    BY <1>0, <2>1, <2>2, MovedTypes, Zenon
<1>7. ASSUME SetSkipWatermarks PROVE TypeOK'
  BY <1>0, <1>7, SkipMarks, MovedTypes, Zenon
<1>8. ASSUME QuietStep PROVE TypeOK'
  <2>1. /\ UNCHANGED <<settings, jobs, retries, hand, retrier, durable>> /\ PastKept
        /\ lock' = lock \/ lock' = FALSE
        /\ {dedup', lease', recorded', batchCancelled', known', cancelSet', expired'} \subseteq BOOLEAN
    BY <1>8, Zenon DEF QuietStep
  <2>2. RetriesOK'
    BY <2>1, RetriesKept, Zenon
  <2>3. /\ {lock', dedup', lease', recorded', batchCancelled', known', cancelSet', expired'} \subseteq BOOLEAN
        /\ durable' \subseteq Outputs \ {"retry"}
    BY <2>1, Zenon DEF TypeOK
  <2> QED
    BY <1>0, <2>1, <2>2, <2>3, TypeParts, Zenon
<1> QED
  BY <1>1, <1>2, <1>3, <1>4, <1>5, <1>6, <1>7, <1>8, Zenon

\* A worker's steps that move its record, and the others that move records.
Moving(w) ==
    \/ (\E r \in DOMAIN jobs : Deliver(w, r)) \/ Apply(w) \/ Commit(w) \/ Crash(w) \/ Redeliver(w)
    \/ \E landed \in SUBSET hand[w].outs : ApplyFails(w, landed) \/ ApplyAgain(w, landed)
RetryMoving ==
    \/ \E r \in DOMAIN retries : RetryDispatch(r) \/ RetryFails(r)
    \/ RetryCommit \/ RetryCrash \/ Reforward \/ SetSkipWatermarks

\* Every step is of one of the kinds.
LEMMA StepKinds ==
    ASSUME TypeOK, known => batchCancelled, Next
    PROVE  \/ \E w \in Workers : DecideStep(w) \/ RunStep(w) \/ Moving(w)
           \/ (\E r \in DOMAIN retries : RetryEndStep(r)) \/ RetryMoving \/ QuietStep
<1>1. \/ \E w \in Workers : Decides(w) \/ Start(w) \/ FairRerun(w) \/ Moving(w)
      \/ (\E r \in DOMAIN retries : RetrySkip(r) \/ RetryExpired(r)) \/ RetryMoving \/ Around
  BY Zenon DEF Next, Progress, Process, ProcessRetry, Disturbed, Decides, Moving, RetryMoving, Around
<1> QED
  BY <1>1, DecidesStep, RunsStep, RetryEndsStep, AroundStep, Zenon

\* Moving is Moved.
LEMMA MovingMoved ==
    ASSUME TypeOK
    PROVE  (\E w \in Workers : Moving(w)) \/ RetryMoving => \E n \in {0, 1} : Moved(n)
<1>1. ASSUME NEW w \in Workers, Moving(w) PROVE \E n \in {0, 1} : Moved(n)
  <2>1. ASSUME NEW landed \in SUBSET hand[w].outs, ApplyFails(w, landed) \/ ApplyAgain(w, landed)
        PROVE  Moved(1)
    BY <2>1, FlowMoves, Zenon DEF ApplyFails, ApplyAgain
  <2> QED
    BY <1>1, <2>1, FlowMoves, Zenon DEF Moving
<1>2. ASSUME RetryMoving PROVE \E n \in {0, 1} : Moved(n)
  BY <1>2, RetryMoves, SkipMarks, Zenon DEF RetryMoving
<1> QED
  BY <1>1, <1>2, Zenon

\* The cache of cancelled batches never runs ahead of the batches.
BaseInv == TypeOK /\ (known => batchCancelled)

\* The base invariant holds before any worker has polled.
LEMMA BaseInvInit == Init => BaseInv
<1> SUFFICES ASSUME Init PROVE BaseInv
  BY Zenon
<1>1. settings \in Settings /\ settings.fair \in BOOLEAN /\ settings.maxRetries \in Nat /\ settings.uniq \in BOOLEAN
  BY JobLifecycleAssumption, Zenon DEF Init, Settings
<1>2. First \in Unmarked
  BY <1>1 DEF First, Unmarked, Recs, Records
<1>3. IsTopic(NoRecords, Unmarked) /\ IsTopic(NoRecords, Recs)
  BY Zenon DEF IsTopic, NoRecords
<1>4. IsTopic(jobs, Unmarked)
  BY <1>2, <1>3, AddTopic, Zenon DEF Init
<1>5. hand = [w \in Workers |-> hand[w]] /\ \A w \in Workers : IsHand(hand[w])
  BY Zenon DEF Init, IsHand, Idle
<1>6. past \in Pasts
  BY Zenon DEF Init, Pasts
<1> QED
  BY <1>1, <1>3, <1>4, <1>5, <1>6, Zenon DEF Init, BaseInv, TypeOK

\* Every step of a worker, a store fault or an expiry keeps the base invariant.
LEMMA BaseInvStep == BaseInv /\ [Next]_vars => BaseInv'
<1> SUFFICES ASSUME BaseInv, [Next]_vars PROVE BaseInv'
  BY Zenon
<1>0. TypeOK /\ (known => batchCancelled)
  BY Zenon DEF BaseInv
<1>1. ASSUME NEW w \in Workers, DecideStep(w) \/ RunStep(w) PROVE BaseInv'
  <2>1. UNCHANGED <<known, batchCancelled>>
    BY <1>1, Zenon DEF DecideStep, RunStep, around
  <2> QED
    BY <1>0, <1>1, <2>1, WorkerTypes, Zenon DEF BaseInv
<1>2. ASSUME NEW w \in Workers, Moving(w) PROVE BaseInv'
  <2>1. UNCHANGED <<known, batchCancelled>>
    BY <1>0, <1>2, MovingMoved, Zenon DEF Moved, around
  <2>2. TypeOK'
    BY <1>0, <1>2, WorkerTypes, Zenon DEF Moving
  <2> QED
    BY <1>0, <2>1, <2>2, Zenon DEF BaseInv
<1>3. ASSUME NEW r \in DOMAIN retries, RetryEndStep(r) PROVE BaseInv'
  BY <1>0, <1>3, RetryTypes, Zenon DEF BaseInv, RetryEndStep, around
<1>4. ASSUME RetryMoving PROVE BaseInv'
  <2>1. UNCHANGED <<known, batchCancelled>>
    BY <1>0, <1>4, MovingMoved, Zenon DEF Moved, around
  <2>2. TypeOK'
    BY <1>0, <1>4, RetryTypes, Zenon DEF RetryMoving
  <2> QED
    BY <1>0, <2>1, <2>2, Zenon DEF BaseInv
<1>5. ASSUME QuietStep PROVE BaseInv'
  BY <1>0, <1>5, RetryTypes, Zenon DEF BaseInv, QuietStep
<1>6. CASE UNCHANGED vars
  <2>1. TypeOK'
    BY <1>0, <1>6, Zenon DEF vars, TypeOK, IsTopic, IsHand, Recs, Unmarked
  <2> QED
    BY <1>0, <1>6, <2>1, Zenon DEF vars, BaseInv
<1> QED
  BY <1>0, <1>1, <1>2, <1>3, <1>4, <1>5, <1>6, StepKinds, Zenon

\* What every variable holds, for every number of workers, retries and faults:
\* no record past its job's retries, and at most one outcome of the retry
\* consumer not yet committed, that of a record still on its topic.
THEOREM JobTypeCorrect == Spec => []TypeOK
<1>1. BaseInv => TypeOK
  BY Zenon DEF BaseInv
<1> QED
  BY <1>1, BaseInvInit, BaseInvStep, PTL DEF Spec

-----------------------------------------------------------------------------
(* A slot's holder is alone *)

\* The strengthening that makes HolderAlone inductive: as long as no holder
\* lapsed, a holder has its lease, and nobody else is in the slot.
HolderInv ==
    ~past.lapsed /\ ~expired =>
        \A w \in Workers : hand[w].at = "run" /\ hand[w].via = "slot" =>
            lease /\ \A v \in Workers \ {w} : ~InSlot(v)

\* No step gives a job a second live slot holder: claims of withFairSlot included.
LEMMA HolderInvStep == BaseInv /\ HolderInv /\ [Next]_vars => HolderInv'
<1> SUFFICES ASSUME BaseInv, HolderInv, [Next]_vars PROVE HolderInv'
  BY Zenon
<1>0. TypeOK /\ (known => batchCancelled) /\ lease \in BOOLEAN
  BY Zenon DEF BaseInv, TypeOK
<1>1. ASSUME NEW w \in Workers, DecideStep(w) PROVE HolderInv'
  <2>1. PICK outs, again : Decided(w, outs, again)
    BY <1>1, Zenon DEF DecideStep
  <2>2. hand'[w].at = "apply" /\ \A v \in Workers \ {w} : hand'[v] = hand[v]
    BY <1>0, <2>1, InHand, Zenon DEF Decided
  <2>3. /\ past'.lapsed = past.lapsed /\ expired' = expired
        /\ lease' = lease \/ expired \/ (hand[w].at = "run" /\ hand[w].via = "slot")
    BY <1>1, Zenon DEF DecideStep, around
  <2> QED
    BY <2>2, <2>3 DEF HolderInv, InSlot
<1>2. ASSUME NEW w \in Workers, RunStep(w) PROVE HolderInv'
  <2>1. PICK via \in {"slot", "plain", "orphan"} :
            /\ hand' = [hand EXCEPT ![w] = [at |-> "run", rec |-> hand[w].rec, via |-> via]]
            /\ via = "slot" /\ ~past'.lapsed => lease /\ \A v \in Workers : ~InSlot(v)
            /\ via = "orphan" => ~lease
    BY <1>2, Zenon DEF RunStep
  <2>2. hand'[w].at = "run" /\ hand'[w].via = via /\ \A v \in Workers \ {w} : hand'[v] = hand[v]
    BY <1>0, <2>1, InHand, Zenon
  <2>3. (past.lapsed => past'.lapsed) /\ expired' = expired /\ lease' = lease
    BY <1>2, Zenon DEF RunStep, PastKept, around
  <2>4. CASE via = "slot"
    BY <2>1, <2>2, <2>3, <2>4 DEF HolderInv, InSlot
  <2>5. CASE via # "slot"
    BY <2>1, <2>2, <2>3, <2>5 DEF HolderInv, InSlot
  <2> QED
    BY <2>4, <2>5, Zenon
<1>3. ASSUME NEW n \in {0, 1}, Moved(n) PROVE HolderInv'
  <2>1. /\ past'.lapsed = past.lapsed /\ expired' = expired /\ (lease' = lease \/ lease' = TRUE)
        /\ \A w \in Workers : hand'[w] = hand[w] \/ hand'[w] = Idle \/ hand'[w].at \in {"check", "commit"}
    BY <1>3, Zenon DEF Moved, around
  <2>2. Idle.at = "idle"
    BY Zenon DEF Idle
  <2>3. \A w \in Workers : hand'[w] = hand[w] \/ hand'[w].at # "run"
    BY <2>1, <2>2, Zenon
  <2> QED
    BY <2>1, <2>3 DEF HolderInv, InSlot
<1>4. ASSUME NEW r \in DOMAIN retries, RetryEndStep(r) PROVE HolderInv'
  BY <1>4, Zenon DEF HolderInv, RetryEndStep, InSlot, around
<1>5. ASSUME QuietStep PROVE HolderInv'
  BY <1>5 DEF HolderInv, QuietStep, InSlot, PastKept
<1>6. CASE UNCHANGED vars
  BY <1>6, Zenon DEF HolderInv, InSlot, vars
<1> QED
  BY <1>0, <1>1, <1>2, <1>3, <1>4, <1>5, <1>6, StepKinds, MovingMoved, Zenon

\* A record that finds its slot's key held never runs beside the holder, as long as no
\* holder of the slot lost its lease or found another in it, and the job has not expired
\* (handleFairSkip, for any number of workers, copies and faults).
THEOREM HolderStaysAlone == Spec => []HolderAlone
<1>1. Init => HolderInv
  BY DEF Init, HolderInv, Idle
<1>2. HolderInv => HolderAlone
  <2> SUFFICES ASSUME HolderInv, ~past.lapsed, ~expired, NEW v \in Workers, NEW w \in Workers,
                      InSlot(v), InSlot(w), hand[v].via = "slot", hand[w].via = "orphan"
               PROVE  FALSE
    BY Zenon DEF HolderAlone
  <2>1. v # w
    BY Zenon
  <2> QED
    BY <2>1, Zenon DEF HolderInv, InSlot
<1> QED
  BY <1>1, <1>2, BaseInvInit, BaseInvStep, HolderInvStep, PTL DEF Spec

-----------------------------------------------------------------------------
(* The end of a job is durable when its last record goes *)

\* How the records that wait for the retry consumer change.
LEMMA WaitingSteps ==
    ASSUME TypeOK
    PROVE  /\ IsTopic(Waiting, Recs)
           /\ UNCHANGED <<retries, retrier>> => Waiting' = Waiting
           /\ \A x \in Recs : retries' = With(retries, x) /\ retrier' = retrier => Waiting' = With(Waiting, x)
           /\ \A x \in DOMAIN retries :
                retrier = None /\ retrier' = [at |-> "commit", rec |-> x] /\ UNCHANGED retries =>
                    x \in DOMAIN Waiting /\ Waiting' = Without(Waiting, x)
           /\ RetryCommit => Waiting' = Waiting
           /\ RetryCrash => \E x \in Recs : Waiting' = With(Waiting, x)
           /\ retrier = None /\ retrier' = None => Waiting = retries /\ Waiting' = retries'
<1>1. /\ IsTopic(retries, Recs) /\ DOMAIN retries \subseteq Recs
      /\ retrier # None => retrier.rec \in DOMAIN retries
  BY Zenon DEF TypeOK, IsTopic
<1>2. IsTopic(Waiting, Recs)
  BY <1>1, RemoveTopic, Zenon DEF Waiting
<1>3. UNCHANGED <<retries, retrier>> => Waiting' = Waiting
  BY Zenon DEF Waiting
<1>4. ASSUME NEW x \in Recs, retries' = With(retries, x), retrier' = retrier PROVE Waiting' = With(Waiting, x)
  <2>1. CASE retrier = None
    BY <1>4, <2>1, Zenon DEF Waiting
  <2>2. CASE retrier # None
    <3>1. Waiting = Without(retries, retrier.rec) /\ Waiting' = Without(With(retries, x), retrier.rec)
      BY <1>4, <2>2, Zenon DEF Waiting
    <3>2. Without(With(retries, x), retrier.rec) = With(Without(retries, retrier.rec), x)
      BY <1>1, <2>2, AddRemove
    <3> QED
      BY <3>1, <3>2, Zenon
  <2> QED
    BY <2>1, <2>2, Zenon
<1>5. ASSUME NEW x \in DOMAIN retries, retrier = None, retrier' = [at |-> "commit", rec |-> x], UNCHANGED retries
      PROVE  x \in DOMAIN Waiting /\ Waiting' = Without(Waiting, x)
  <2>1. retrier' # None /\ retrier'.rec = x
    BY <1>5, Zenon DEF None
  <2> QED
    BY <1>5, <2>1, Zenon DEF Waiting
<1>6. RetryCommit => Waiting' = Waiting
  BY Zenon DEF RetryCommit, Waiting
<1>7. ASSUME RetryCrash PROVE \E x \in Recs : Waiting' = With(Waiting, x)
  <2>1. /\ retrier.rec \in DOMAIN retries /\ Waiting' = retries
        /\ Waiting = Without(retries, retrier.rec)
    BY <1>1, <1>7, Zenon DEF RetryCrash, Waiting
  <2>2. With(Without(retries, retrier.rec), retrier.rec) = retries
    BY <1>1, <2>1, RemoveTopic, Zenon
  <2> QED
    BY <1>1, <2>1, <2>2, Zenon
<1>8. retrier = None /\ retrier' = None => Waiting = retries /\ Waiting' = retries'
  BY Zenon DEF Waiting
<1> QED
  BY <1>2, <1>3, <1>4, <1>5, <1>6, <1>7, <1>8, Zenon

\* The strengthening that makes NothingVanishes inductive: unless the job has ended
\* durably, a record, or a worker, that still leads to its end is there.
Token ==
    \/ \E r \in DOMAIN jobs : SafeRec(r)
    \/ \E r \in DOMAIN Waiting : SafeRec(r)
    \/ \E w \in Workers : SafeHand(hand[w])
EndInv == batchCancelled \/ past.dropped \/ Final(durable) \/ Token

\* A move keeps what the job's end depends on.
LEMMA MovedSafe ==
    ASSUME NEW n, Moved(n)
    PROVE  /\ \A r : SafeRec(r)' <=> SafeRec(r)
           /\ \A h : SafeHand(h)' <=> SafeHand(h)
           /\ \A outs : Final(outs)' <=> Final(outs)
           /\ Final(durable) => Final(durable)'
           /\ batchCancelled' = batchCancelled /\ past'.dropped = past.dropped
BY Zenon DEF Moved, SafeRec, SafeHand, Final, around

\* A record returned to the job topic leads to the job's end.
LEMMA ReturnedToken ==
    ASSUME TypeOK, NEW w \in Workers, hand[w].at # "idle", Redelivered(hand[w].rec), NEW n, Moved(n)
    PROVE  Token'
<1>1. hand[w].rec \in Unmarked
  BY Zenon DEF TypeOK, IsHand
<1>7. PICK x : x = Returned(hand[w].rec)
  BY Zenon
<1>2. x.reclaim = TRUE \/ settings.mode = "watermark"
  BY <1>1, <1>7, ReturnedFields, Zenon
<1>3. jobs' = With(jobs, x)
  BY <1>7, Zenon DEF Redelivered, Returned
<1>4. x \in DOMAIN jobs'
  BY <1>3, Zenon DEF With
<1>5. SafeRec(x)
  BY <1>2, Zenon DEF SafeRec
<1>6. SafeRec(x)'
  BY <1>5, MovedSafe, Zenon
<1> QED
  BY <1>4, <1>6, Zenon DEF Token

\* The job topic and the waiting records only grow, and the hands stay.
LEMMA GrowingToken ==
    ASSUME EndInv, NEW n, Moved(n),
           DOMAIN jobs \subseteq DOMAIN jobs', DOMAIN Waiting \subseteq DOMAIN Waiting',
           \A w \in Workers : SafeHand(hand[w]) => hand'[w] = hand[w] \/ Token' \/ Final(durable)'
    PROVE  EndInv'
<1>1. ASSUME Token PROVE Token' \/ Final(durable)'
  <2>1. CASE \E r \in DOMAIN jobs : SafeRec(r)
    BY <2>1, MovedSafe, Zenon DEF Token
  <2>2. CASE \E r \in DOMAIN Waiting : SafeRec(r)
    BY <2>2, MovedSafe, Zenon DEF Token
  <2>3. ASSUME NEW w \in Workers, SafeHand(hand[w]) PROVE Token' \/ Final(durable)'
    <3>1. CASE hand'[w] = hand[w]
      <4>1. PICK h : h = hand[w] /\ h = hand'[w]
        BY <3>1, Zenon
      <4>2. SafeHand(h)'
        BY <2>3, <4>1, MovedSafe, Zenon
      <4> QED
        BY <4>1, <4>2, Zenon DEF Token
    <3> QED
      BY <2>3, <3>1, Zenon
  <2> QED
    BY <1>1, <2>1, <2>2, <2>3, Zenon DEF Token
<1> QED
  BY <1>1, MovedSafe, Zenon DEF EndInv

\* An outcome keeps the job on its way.
LEMMA DecideEnd ==
    ASSUME BaseInv, EndInv, NEW w \in Workers, DecideStep(w)
    PROVE  EndInv'
<1>0. TypeOK
  BY Zenon DEF BaseInv
<1>1. PICK outs, again :
        /\ outs \in SUBSET Outputs /\ Decided(w, outs, again)
        /\ \/ batchCancelled \/ past'.dropped
           \/ "retry" \in outs /\ (again.slot = FALSE \/ settings.mode = "watermark")
           \/ Final(outs)'
           \/ ~SafeHand(hand[w]) /\ dedup' = dedup /\ past'.ends = past.ends
  BY Zenon DEF DecideStep
<1>2. /\ UNCHANGED <<jobs, retries, retrier, durable, settings, batchCancelled>>
      /\ past.dropped => past'.dropped
  BY Zenon DEF DecideStep, PastKept, around
<1>3. /\ hand'[w].at = "apply" /\ hand'[w].outs = outs /\ hand'[w].again = again
      /\ \A v \in Workers \ {w} : hand'[v] = hand[v]
  BY <1>0, <1>1, InHand, Zenon DEF Decided
<1>4. CASE batchCancelled \/ past'.dropped
  BY <1>2, <1>4, Zenon DEF EndInv
<1>5. CASE "retry" \in outs /\ (again.slot = FALSE \/ settings.mode = "watermark")
  <2>1. SafeHand(hand[w])'
    BY <1>2, <1>3, <1>5, Zenon DEF SafeHand, SafeRec
  <2> QED
    BY <2>1, Zenon DEF EndInv, Token
<1>6. CASE Final(outs)'
  <2>1. SafeHand(hand[w])'
    BY <1>3, <1>6, Zenon DEF SafeHand, Final
  <2> QED
    BY <2>1, Zenon DEF EndInv, Token
<1>7. CASE ~SafeHand(hand[w]) /\ dedup' = dedup /\ past'.ends = past.ends
  <2>1. \A x : SafeRec(x)' <=> SafeRec(x)
    BY <1>2, <1>7, Zenon DEF SafeRec
  <2>2. Final(durable) => Final(durable)'
    BY <1>2, <1>7, Zenon DEF Final
  <2>3. \A v \in Workers \ {w} : SafeHand(hand[v]) => SafeHand(hand[v])'
    BY <1>2, <1>3, <1>7, Zenon DEF SafeHand, SafeRec, Final
  <2>4. Waiting' = Waiting
    BY <1>0, <1>2, WaitingSteps, Zenon
  <2>5. Token => Token'
    BY <1>2, <1>7, <2>1, <2>3, <2>4, Zenon DEF Token
  <2> QED
    BY <1>2, <2>2, <2>5, Zenon DEF EndInv
<1> QED
  BY <1>1, <1>4, <1>5, <1>6, <1>7, Zenon

\* A record taken, produced, committed, returned or redelivered keeps the job on its way.
LEMMA MovingEnd ==
    ASSUME BaseInv, EndInv, NEW w \in Workers, Moving(w)
    PROVE  EndInv'
<1>0. TypeOK /\ IsTopic(jobs, Unmarked) /\ IsTopic(retries, Recs) /\ Unmarked \subseteq Recs /\ IsTopic(Waiting, Recs)
  BY WaitingSteps, Zenon DEF BaseInv, TypeOK, Unmarked
<1>1. ASSUME NEW n, Moved(n), hand[w].at # "idle", Redelivered(hand[w].rec) PROVE EndInv'
  BY <1>0, <1>1, ReturnedToken, Zenon DEF EndInv
<1>2. hand[w] # Idle => hand[w].at # "idle"
  BY <1>0, Zenon DEF TypeOK, IsHand
<1>3. CASE Crash(w) \/ Redeliver(w)
  <2>1. Moved(1) /\ hand[w] # Idle /\ Redelivered(hand[w].rec)
    BY <1>0, <1>3, FlowMoves, Zenon DEF Crash, Redeliver
  <2> QED
    BY <1>1, <1>2, <2>1, Zenon
<1>4. ASSUME NEW landed \in SUBSET hand[w].outs, ApplyFails(w, landed) PROVE EndInv'
  <2>1. hand[w].at = "apply" /\ Redelivered(hand[w].rec)
    BY <1>4, Zenon DEF ApplyFails
  <2>2. Moved(1)
    BY <1>0, <1>4, <2>1, FlowMoves, Zenon
  <2> QED
    BY <1>1, <2>1, <2>2, Zenon
<1>5. ASSUME NEW landed \in SUBSET hand[w].outs, hand[w].at = "apply", Published(landed, hand[w].again), UNCHANGED retrier
      PROVE  /\ DOMAIN Waiting \subseteq DOMAIN Waiting'
             /\ "retry" \in landed => hand[w].again \in DOMAIN Waiting'
             /\ durable' = durable \cup (landed \ {"retry"})
  <2>1. CASE "retry" \notin landed /\ retries' = retries
    BY <1>0, <1>5, <2>1, WaitingSteps, PublishedFields, Zenon
  <2>2. CASE "retry" \in landed /\ hand[w].again \in Unmarked /\ retries' = With(retries, hand[w].again)
    <3>1. Waiting' = With(Waiting, hand[w].again)
      BY <1>0, <1>5, <2>2, WaitingSteps, Zenon
    <3>2. DOMAIN With(Waiting, hand[w].again) = DOMAIN Waiting \cup {hand[w].again}
      BY Zenon DEF With
    <3> QED
      BY <1>0, <1>5, <3>1, <3>2, PublishedFields, Zenon
  <2> QED
    BY <1>0, <1>5, <2>1, <2>2, PublishedFields, Zenon
<1>6. ASSUME NEW landed \in SUBSET hand[w].outs, ApplyAgain(w, landed) PROVE EndInv'
  <2>1. hand[w].at = "apply" /\ Published(landed, hand[w].again) /\ UNCHANGED <<retrier, hand, jobs>>
    BY <1>6, Zenon DEF ApplyAgain
  <2>2. Moved(1)
    BY <1>0, <1>6, <2>1, FlowMoves, Zenon
  <2>3. DOMAIN Waiting \subseteq DOMAIN Waiting'
    BY <1>5, <2>1, Zenon
  <2> QED
    BY <2>1, <2>2, <2>3, GrowingToken, Zenon
<1>7. CASE Apply(w)
  <2>1. /\ hand[w].at = "apply" /\ Published(hand[w].outs, hand[w].again) /\ UNCHANGED <<retrier, jobs>>
        /\ hand' = [hand EXCEPT ![w] = [at |-> "commit", rec |-> hand[w].rec]]
    BY <1>7, Zenon DEF Apply
  <2>2. Moved(0)
    BY <1>0, <1>7, FlowMoves, Zenon
  <2>3. /\ DOMAIN Waiting \subseteq DOMAIN Waiting'
        /\ "retry" \in hand[w].outs => hand[w].again \in DOMAIN Waiting'
        /\ durable' = durable \cup (hand[w].outs \ {"retry"})
    BY <1>5, <2>1, Zenon
  <2>4. \A v \in Workers \ {w} : hand'[v] = hand[v]
    BY <1>0, <2>1, InHand, Zenon
  <2>5. SafeHand(hand[w]) => Token' \/ Final(durable)'
    <3>1. CASE "retry" \in hand[w].outs /\ SafeRec(hand[w].again)
      <4>1. PICK x : x = hand[w].again
        BY Zenon
      <4>2. SafeRec(x)' /\ x \in DOMAIN Waiting'
        BY <2>2, <2>3, <3>1, <4>1, MovedSafe, Zenon
      <4> QED
        BY <4>2, Zenon DEF Token
    <3>2. CASE Final(hand[w].outs)
      <4>1. UNCHANGED settings /\ past'.ends = past.ends
        BY <2>2, Zenon DEF Moved, around
      <4> QED
        BY <2>3, <3>2, <4>1, Zenon DEF Final
    <3> QED
      BY <2>1, <3>1, <3>2, Zenon DEF SafeHand
  <2> QED
    BY <2>1, <2>2, <2>3, <2>4, <2>5, GrowingToken, Zenon
<1>8. CASE Commit(w)
  <2>1. hand[w].at = "commit" /\ UNCHANGED <<jobs, retries, retrier>> /\ hand' = [hand EXCEPT ![w] = Idle]
    BY <1>8, Zenon DEF Commit
  <2>2. Moved(0) /\ Waiting' = Waiting
    BY <1>0, <1>8, <2>1, FlowMoves, WaitingSteps, Zenon
  <2>3. ~SafeHand(hand[w]) /\ \A v \in Workers \ {w} : hand'[v] = hand[v]
    BY <1>0, <2>1, InHand, Zenon DEF SafeHand
  <2> QED
    BY <2>1, <2>2, <2>3, GrowingToken, Zenon
<1>9. ASSUME NEW r \in DOMAIN jobs, Deliver(w, r) PROVE EndInv'
  <2>1. /\ hand[w] = Idle /\ jobs' = Without(jobs, r) /\ UNCHANGED <<retries, retrier, durable>>
        /\ hand' = [hand EXCEPT ![w] = [at |-> "check", rec |-> r]]
    BY <1>9, Zenon DEF Deliver
  <2>2. Moved(0) /\ Waiting' = Waiting
    BY <1>0, <1>9, <2>1, FlowMoves, WaitingSteps, Zenon
  <2>3. /\ hand'[w].at = "check" /\ hand'[w].rec = r
        /\ \A v \in Workers \ {w} : hand'[v] = hand[v]
    BY <1>0, <2>1, InHand, Zenon
  <2>4. ~SafeHand(hand[w])
    BY <2>1 DEF SafeHand, Idle
  <2>5. DOMAIN jobs \ {r} \subseteq DOMAIN jobs'
    BY <1>0, <2>1, RemoveTopic, Zenon
  <2>6. SafeRec(r) => SafeHand(hand[w])'
    <3>1. SafeRec(r) => SafeRec(r)'
      BY <2>2, MovedSafe, Zenon
    <3> QED
      BY <2>3, <3>1, Zenon DEF SafeHand, SafeRec
  <2>7. \A v \in Workers \ {w} : SafeHand(hand[v]) => SafeHand(hand[v])'
    <3>1. UNCHANGED <<settings, dedup>> /\ past'.ends = past.ends
      BY <2>2, Zenon DEF Moved, around
    <3> QED
      BY <2>3, <3>1, Zenon DEF SafeHand, SafeRec, Final
  <2>8. Token => Token'
    BY <2>2, <2>4, <2>5, <2>6, <2>7, MovedSafe, Zenon DEF Token
  <2> QED
    BY <2>2, <2>8, MovedSafe, Zenon DEF EndInv
<1> QED
  BY <1>3, <1>4, <1>6, <1>7, <1>8, <1>9, Zenon DEF Moving

\* So do the retry consumer, the forwarder and the operator.
LEMMA RetryMovingEnd ==
    ASSUME BaseInv, EndInv, RetryMoving
    PROVE  EndInv'
<1>0. TypeOK /\ IsTopic(jobs, Unmarked) /\ IsTopic(retries, Recs) /\ IsTopic(Waiting, Recs)
  BY WaitingSteps, Zenon DEF BaseInv, TypeOK
<1>1. ASSUME NEW r \in DOMAIN retries, RetryDispatch(r) PROVE EndInv'
  <2>1. /\ ~r.skip /\ jobs' = With(jobs, [r EXCEPT !.deferred = FALSE]) /\ retrier = None
        /\ retrier' = [at |-> "commit", rec |-> r] /\ UNCHANGED <<retries, hand>>
    BY <1>1, Zenon DEF RetryDispatch, Handling, ToCommit, Skips
  <2>2. Moved(0)
    BY <1>0, <1>1, RetryMoves, Zenon
  <2>3. r \in DOMAIN Waiting /\ Waiting' = Without(Waiting, r)
    BY <1>0, <1>1, <2>1, WaitingSteps, Zenon
  <2>4. DOMAIN Waiting \ {r} \subseteq DOMAIN Waiting'
    BY <1>0, <2>3, RemoveTopic, Zenon
  <2>5. PICK d : d = [r EXCEPT !.deferred = FALSE]
    BY Zenon
  <2>6. d.slot = r.slot /\ d.reclaim = r.reclaim
    <3>1. r \in Records
      BY <1>0, Zenon DEF IsTopic, Recs
    <3> QED
      BY <2>5, <3>1, Zenon DEF Records
  <2>7. d \in DOMAIN jobs' /\ DOMAIN jobs \subseteq DOMAIN jobs'
    BY <2>1, <2>5, Zenon DEF With
  <2>8. SafeRec(r) => SafeRec(d)'
    <3>1. SafeRec(r) => SafeRec(d)
      BY <2>6, Zenon DEF SafeRec
    <3> QED
      BY <2>2, <3>1, MovedSafe, Zenon
  <2>9. \A w \in Workers : SafeHand(hand[w]) => SafeHand(hand[w])'
    <3>1. UNCHANGED <<settings, dedup, hand>> /\ past'.ends = past.ends
      BY <2>1, <2>2, Zenon DEF Moved, around
    <3> QED
      BY <3>1, Zenon DEF SafeHand, SafeRec, Final
  <2>10. Token => Token'
    BY <2>2, <2>4, <2>7, <2>8, <2>9, MovedSafe, Zenon DEF Token
  <2> QED
    BY <2>2, <2>10, MovedSafe, Zenon DEF EndInv
<1>2. ASSUME NEW r \in DOMAIN retries, RetryFails(r) PROVE EndInv'
  <2>1. UNCHANGED <<retries, hand, retrier>>
    BY <1>2, Zenon DEF RetryFails
  <2>2. Waiting' = Waiting
    BY <1>0, <2>1, WaitingSteps, Zenon
  <2>3. /\ \E n \in {0, 1} : Moved(n)
        /\ jobs' = jobs \/ jobs' = With(jobs, [r EXCEPT !.deferred = FALSE])
    BY <1>0, <1>2, RetryMoves, Zenon
  <2>4. DOMAIN jobs \subseteq DOMAIN jobs'
    BY <2>3, Zenon DEF With
  <2> QED
    BY <2>1, <2>2, <2>3, <2>4, GrowingToken, Zenon
<1>3. ASSUME RetryCommit PROVE EndInv'
  <2>1. Moved(0) /\ Waiting' = Waiting /\ UNCHANGED <<jobs, hand>>
    BY <1>0, <1>3, RetryMoves, WaitingSteps, Zenon DEF RetryCommit
  <2> QED
    BY <2>1, GrowingToken, Zenon
<1>4. ASSUME RetryCrash PROVE EndInv'
  <2>1. Moved(1) /\ (\E x \in Recs : Waiting' = With(Waiting, x)) /\ UNCHANGED <<jobs, hand>>
    BY <1>0, <1>4, RetryMoves, WaitingSteps, Zenon DEF RetryCrash
  <2>2. DOMAIN Waiting \subseteq DOMAIN Waiting'
    BY <2>1, Zenon DEF With
  <2> QED
    BY <2>1, <2>2, GrowingToken, Zenon
<1>5. ASSUME Reforward PROVE EndInv'
  <2>1. Moved(1) /\ jobs' = With(jobs, First) /\ UNCHANGED <<retries, retrier, hand>>
    BY <1>0, <1>5, RetryMoves, Zenon DEF Reforward
  <2>2. DOMAIN jobs \subseteq DOMAIN jobs' /\ Waiting' = Waiting
    BY <1>0, <2>1, WaitingSteps, Zenon DEF With
  <2> QED
    BY <2>1, <2>2, GrowingToken, Zenon
<1>6. ASSUME SetSkipWatermarks PROVE EndInv'
  <2>1. Moved(0) /\ UNCHANGED <<jobs, hand>> /\ retrier = None /\ retrier' = None
    BY <1>0, <1>6, SkipMarks, Zenon DEF SetSkipWatermarks
  <2>2. Waiting = retries /\ Waiting' = retries'
    BY <1>0, <2>1, WaitingSteps, Zenon
  <2>3. ASSUME NEW r \in DOMAIN Waiting, SafeRec(r) PROVE Token'
    <3>1. PICK s : s = [r EXCEPT !.skip = TRUE]
      BY Zenon
    <3>2. s \in DOMAIN Waiting'
      BY <1>0, <1>6, <2>2, <2>3, <3>1, SkipMarks, Zenon
    <3>3. r \in Records
      BY <1>0, <2>3, Zenon DEF IsTopic, Recs
    <3>4. s.slot = r.slot /\ s.reclaim = r.reclaim
      BY <3>1, <3>3, Zenon DEF Records
    <3>5. SafeRec(s)
      BY <2>3, <3>4, Zenon DEF SafeRec
    <3>6. SafeRec(s)'
      BY <2>1, <3>5, MovedSafe, Zenon
    <3> QED
      BY <3>2, <3>6, Zenon DEF Token
  <2>4. \A w \in Workers : SafeHand(hand[w]) => SafeHand(hand[w])'
    <3>1. UNCHANGED <<settings, dedup, hand>> /\ past'.ends = past.ends
      BY <2>1, Zenon DEF Moved, around
    <3> QED
      BY <3>1, Zenon DEF SafeHand, SafeRec, Final
  <2>5. Token => Token'
    BY <2>1, <2>3, <2>4, MovedSafe, Zenon DEF Token
  <2> QED
    BY <2>1, <2>5, MovedSafe, Zenon DEF EndInv
<1> QED
  BY <1>1, <1>2, <1>3, <1>4, <1>5, <1>6, Zenon DEF RetryMoving

\* No step takes the last record that leads to the end of a job before that end is
\* durable, but for a cancelled batch and a drop.
LEMMA EndInvStep == BaseInv /\ EndInv /\ [Next]_vars => EndInv'
<1> SUFFICES ASSUME BaseInv, EndInv, [Next]_vars PROVE EndInv'
  BY Zenon
<1>0. TypeOK /\ (known => batchCancelled)
  BY Zenon DEF BaseInv
<1>1. ASSUME NEW w \in Workers, DecideStep(w) PROVE EndInv'
  BY <1>1, DecideEnd, Zenon
<1>2. ASSUME NEW w \in Workers, RunStep(w) PROVE EndInv'
  <2>0. PICK via \in {"slot", "plain", "orphan"} :
            hand' = [hand EXCEPT ![w] = [at |-> "run", rec |-> hand[w].rec, via |-> via]]
    BY <1>2, Zenon DEF RunStep
  <2>1. hand'[w] = [at |-> "run", rec |-> hand[w].rec, via |-> via]
    BY <1>0, <2>0, InHand, Zenon
  <2>2. SafeHand(hand[w])'
    BY <2>1 DEF SafeHand
  <2> QED
    BY <2>2, Zenon DEF EndInv, Token
<1>3. ASSUME NEW w \in Workers, Moving(w) PROVE EndInv'
  BY <1>3, MovingEnd, Zenon
<1>4. ASSUME NEW r \in DOMAIN retries, RetryEndStep(r) PROVE EndInv'
  BY <1>4, Zenon DEF RetryEndStep, EndInv
<1>5. CASE RetryMoving
  BY <1>5, RetryMovingEnd, Zenon
<1>6. ASSUME UNCHANGED <<settings, jobs, retries, hand, retrier, durable>>, dedup' \in BOOLEAN, dedup' => dedup,
             batchCancelled => batchCancelled', past.dropped => past'.dropped, past'.ends = past.ends
      PROVE  EndInv'
  <2>1. dedup = FALSE => dedup' = FALSE
    BY <1>6, Zenon
  <2>2. \A r : SafeRec(r) => SafeRec(r)'
    BY <1>6, <2>1, Zenon DEF SafeRec
  <2>3. \A w \in Workers : SafeHand(hand[w]) => SafeHand(hand[w])'
    BY <1>6, <2>1, Zenon DEF SafeHand, SafeRec, Final
  <2>4. Waiting' = Waiting
    BY <1>0, <1>6, WaitingSteps, Zenon
  <2>5. Token => Token'
    BY <1>6, <2>2, <2>3, <2>4, Zenon DEF Token
  <2>6. Final(durable) => Final(durable)'
    BY <1>6, Zenon DEF Final
  <2> QED
    BY <1>6, <2>5, <2>6, Zenon DEF EndInv
<1>7. CASE QuietStep
  BY <1>6, <1>7, Zenon DEF QuietStep, PastKept
<1>8. CASE UNCHANGED vars
  BY <1>0, <1>6, <1>8, Zenon DEF vars, TypeOK
<1> QED
  BY <1>0, <1>1, <1>2, <1>3, <1>4, <1>5, <1>7, <1>8, StepKinds, Zenon

\* When no record of a job is left, its end is durable: for every mix of crashes,
\* redeliveries, partial produces and operator actions, every number of workers and
\* retries, both execution modes (applyJobSideEffects, applyRetryOutcome; a duplicate
\* dropped under watermark execution and a cancelled batch excepted).
THEOREM NothingEverVanishes == Spec => []NothingVanishes
<1>1. Init => EndInv
  <2> SUFFICES ASSUME Init PROVE EndInv
    BY Zenon
  <2>1. First \in DOMAIN jobs /\ dedup = FALSE
    BY Zenon DEF Init, With
  <2> QED
    BY <2>1, Zenon DEF EndInv, Token, SafeRec
<1>2. BaseInv /\ EndInv => NothingVanishes
  <2> SUFFICES ASSUME BaseInv, EndInv, ~Live, ~past.dropped, ~batchCancelled PROVE Final(durable)
    BY Zenon DEF NothingVanishes, Final
  <2>1. jobs = NoRecords /\ Waiting = NoRecords /\ \A w \in Workers : hand[w] = Idle
    BY Zenon DEF Live, Queued
  <2>2. DOMAIN NoRecords = {} /\ Idle.at = "idle"
    BY Zenon DEF NoRecords, Idle
  <2>3. ~Token
    BY <2>1, <2>2, Zenon DEF Token, SafeHand
  <2> QED
    BY <2>3, Zenon DEF EndInv
<1> QED
  BY <1>1, <1>2, BaseInvInit, BaseInvStep, EndInvStep, PTL DEF Spec

-----------------------------------------------------------------------------
(* A job runs within the budget of its attempts, and its lock lasts as long as
   it may run.  Both count: a record on a topic or in a worker's hands is charged
   with the runs that can come of it, every step moves charges or pays them, and
   only a copy made by redelivery adds to them *)

-----------------------------------------------------------------------------
(* What a step does to the charges *)

\* A record of attempt a is charged before[a] until it runs, after[a] while it runs: a
\* run costs unit, a retry comes out of what is left, and no record is charged more than c.
Costs(m, before, after, unit, c) ==
    /\ before \in [Nat -> Nat] /\ after \in [Nat -> Nat] /\ unit \in {0, 1} /\ c \in Nat
    /\ \A a \in Nat : a <= m => before[a] <= c /\ after[a] + unit <= before[a]
    /\ \A a \in Nat : a + 1 <= m => before[a + 1] <= after[a]

\* What is charged to a worker with h in hand.
Charge(before, after, h) ==
    IF h.at = "check" THEN before[h.rec.attempt]
    ELSE IF h.at = "run" THEN after[h.rec.attempt]
    ELSE IF h.at = "apply" /\ "retry" \in h.outs THEN before[h.again.attempt]
    ELSE 0

\* A topic B becomes C, and d more is charged to it; the same for the workers.
TopicFlow(B, C, before, d) ==
    \/ C = B /\ d = 0
    \/ \E x \in Recs : C = With(B, x) /\ d = before[x.attempt]
    \/ \E x \in DOMAIN B : C = Without(B, x) /\ d = 0 - before[x.attempt]
HandFlow(before, after, d) ==
    \/ hand' = hand /\ d = 0
    \/ \E w \in Workers : /\ \A v \in Workers \ {w} : hand'[v] = hand[v]
                          /\ d = Charge(before, after, hand'[w]) - Charge(before, after, hand[w])

\* All in all at most n more is charged.
Flow(before, after, n) ==
    \E dj \in Int, dw \in Int, dh \in Int :
        /\ TopicFlow(jobs, jobs', before, dj) /\ TopicFlow(Waiting, Waiting', before, dw)
        /\ HandFlow(before, after, dh)
        /\ dj + dw + dh <= n

\* Charges are numbers.
LEMMA ChargeType ==
    ASSUME TypeOK, TypeOK', NEW before \in [Nat -> Nat], NEW after \in [Nat -> Nat], NEW w \in Workers
    PROVE  /\ Charge(before, after, hand[w]) \in Nat
           /\ Charge(before, after, hand'[w]) \in Nat
<1>1. ASSUME NEW h, NEW R, R \subseteq Records,
             h.at \in {"idle", "check", "run", "apply", "commit"}, h.at # "idle" => h.rec \in R,
             h.at = "apply" /\ "retry" \in h.outs => h.again \in R
      PROVE  Charge(before, after, h) \in Nat
  <2>1. \A r \in R : r.attempt \in Nat
    BY <1>1, Zenon DEF Records
  <2> QED
    BY <1>1, <2>1, Zenon DEF Charge
<1>2. IsHand(hand[w]) /\ IsHand(hand[w])' /\ Unmarked \subseteq Records /\ Unmarked' \subseteq Records
  BY Zenon DEF TypeOK, Unmarked, Recs
<1>3. Charge(before, after, hand[w]) \in Nat
  BY <1>1, <1>2, Zenon DEF IsHand
<1>4. Charge(before, after, hand'[w]) \in Nat
  BY <1>1, <1>2, Zenon DEF IsHand
<1> QED
  BY <1>3, <1>4, Zenon

\* What is known of the charge of a record.
LEMMA RecordCost ==
    ASSUME NEW before, NEW after, NEW unit, NEW c, Costs(settings.maxRetries, before, after, unit, c), NEW r \in Recs
    PROVE  /\ before[r.attempt] \in Nat /\ before[r.attempt] <= c /\ after[r.attempt] \in Nat
           /\ after[r.attempt] + unit <= before[r.attempt]
           /\ \A s \in Recs : s.attempt = r.attempt + 1 => before[s.attempt] <= after[r.attempt]
<1>1. r.attempt \in Nat /\ r.attempt <= settings.maxRetries
  BY Zenon DEF Recs, Records
<1>2. \A s \in Recs : s.attempt <= settings.maxRetries
  BY Zenon DEF Recs
<1> QED
  BY <1>1, <1>2, Zenon DEF Costs

\* The flows of a step add up.
LEMMA FlowBy ==
    ASSUME NEW before, NEW after, NEW dj \in Int, NEW dw \in Int, NEW dh \in Int, NEW n \in Int,
           TopicFlow(jobs, jobs', before, dj), TopicFlow(Waiting, Waiting', before, dw),
           HandFlow(before, after, dh), dj + dw + dh <= n
    PROVE  Flow(before, after, n)
BY Zenon DEF Flow

\* An outcome: a retry is charged what is left, and without one nothing is.
LEMMA DecideFlow ==
    ASSUME TypeOK, TypeOK', NEW before, NEW after, NEW unit, NEW c,
           Costs(settings.maxRetries, before, after, unit, c), NEW w \in Workers, DecideStep(w)
    PROVE  /\ Flow(before, after, 0)
           /\ lock' = lock \/ Flow(before, after, 0 - Charge(before, after, hand[w]))
<1> DEFINE k == Charge(before, after, hand[w])
           k2 == Charge(before, after, hand'[w])
<1>1. k \in Nat /\ k2 \in Nat
  BY ChargeType, Zenon DEF Costs
<1>2. jobs' = jobs /\ Waiting' = Waiting /\ hand[w].at \in {"check", "run"} /\ hand[w].rec \in Recs
  BY WaitingSteps, Zenon DEF DecideStep, TypeOK, IsHand, Unmarked
<1>3. PICK outs, again :
        /\ outs \in SUBSET Outputs /\ Decided(w, outs, again)
        /\ "retry" \in outs =>
             /\ again \in Unmarked /\ lock' = lock
             /\ \/ again.attempt = hand[w].rec.attempt + 1
                \/ again.attempt = hand[w].rec.attempt /\ hand[w].at = "check"
  BY Zenon DEF DecideStep
<1>4. /\ hand'[w] = [at |-> "apply", rec |-> hand[w].rec, outs |-> outs, again |-> again]
      /\ \A v \in Workers \ {w} : hand'[v] = hand[v]
  BY <1>3, InHand, Zenon DEF Decided
<1>5. HandFlow(before, after, k2 - k)
  BY <1>4, Zenon DEF HandFlow
<1>6. k2 = IF "retry" \in outs THEN before[again.attempt] ELSE 0
  BY <1>4 DEF Charge
<1>7. k = IF hand[w].at = "check" THEN before[hand[w].rec.attempt] ELSE after[hand[w].rec.attempt]
  BY <1>2, Zenon DEF Charge
<1>8. "retry" \in outs => again \in Recs
  BY <1>3, Zenon DEF Unmarked
<1> HIDE DEF k, k2
<1>9. k2 - k <= 0
  <2>1. /\ before[hand[w].rec.attempt] \in Nat /\ after[hand[w].rec.attempt] \in Nat
        /\ after[hand[w].rec.attempt] + unit <= before[hand[w].rec.attempt]
        /\ \A s \in Recs : s.attempt = hand[w].rec.attempt + 1 => before[s.attempt] <= after[hand[w].rec.attempt]
    BY <1>2, RecordCost, Zenon
  <2> unit \in {0, 1}
    BY Zenon DEF Costs
  <2>2. CASE "retry" \notin outs
    BY <1>1, <1>6, <2>2
  <2>3. CASE "retry" \in outs
    BY <1>1, <1>3, <1>6, <1>7, <1>8, <2>1, <2>3
  <2> QED
    BY <2>2, <2>3, Zenon
<1>10. ASSUME NEW n \in Int, k2 - k <= n PROVE Flow(before, after, n)
  <2>1. TopicFlow(jobs, jobs', before, 0) /\ TopicFlow(Waiting, Waiting', before, 0)
    BY <1>2, Zenon DEF TopicFlow
  <2>2. k2 - k \in Int /\ 0 + 0 + (k2 - k) <= n
    BY <1>1, <1>10
  <2> QED
    BY <1>5, <2>1, <2>2, FlowBy
<1>11. lock' # lock => k2 = 0
  BY <1>3, <1>6, Zenon
<1> QED
  BY <1>1, <1>9, <1>10, <1>11 DEF k

\* A run is paid for.
LEMMA RunFlow ==
    ASSUME TypeOK, TypeOK', NEW before, NEW after, NEW unit, NEW c,
           Costs(settings.maxRetries, before, after, unit, c), NEW w \in Workers, RunStep(w)
    PROVE  Flow(before, after, 0 - unit)
<1> DEFINE k == Charge(before, after, hand[w])
           k2 == Charge(before, after, hand'[w])
<1>1. jobs' = jobs /\ Waiting' = Waiting /\ hand[w].at = "check" /\ hand[w].rec \in Recs
  BY WaitingSteps, Zenon DEF RunStep, TypeOK, IsHand, Unmarked
<1>2. PICK via \in {"slot", "plain", "orphan"} :
        hand' = [hand EXCEPT ![w] = [at |-> "run", rec |-> hand[w].rec, via |-> via]]
  BY Zenon DEF RunStep
<1>3. /\ hand'[w] = [at |-> "run", rec |-> hand[w].rec, via |-> via]
      /\ \A v \in Workers \ {w} : hand'[v] = hand[v]
  BY <1>2, InHand, Zenon
<1>4. HandFlow(before, after, k2 - k)
  BY <1>3, Zenon DEF HandFlow
<1>5. k = before[hand[w].rec.attempt] /\ k2 = after[hand[w].rec.attempt]
  BY <1>1, <1>3 DEF Charge
<1> HIDE DEF k, k2
<1>6. k \in Nat /\ k2 \in Nat /\ k2 + unit <= k /\ unit \in {0, 1}
  BY <1>1, <1>5, RecordCost, Zenon DEF Costs
<1>7. TopicFlow(jobs, jobs', before, 0) /\ TopicFlow(Waiting, Waiting', before, 0)
  BY <1>1, Zenon DEF TopicFlow
<1>8. k2 - k \in Int /\ 0 - unit \in Int /\ 0 + 0 + (k2 - k) <= 0 - unit
  BY <1>6
<1> QED
  BY <1>4, <1>7, <1>8, FlowBy

\* Nothing happens to a topic, to the workers.
LEMMA NoFlow ==
    ASSUME NEW before, NEW after
    PROVE  /\ jobs' = jobs => TopicFlow(jobs, jobs', before, 0)
           /\ Waiting' = Waiting => TopicFlow(Waiting, Waiting', before, 0)
           /\ hand' = hand => HandFlow(before, after, 0)
BY Zenon DEF TopicFlow, HandFlow

\* A record more on a topic is charged c at most.
LEMMA AddFlow ==
    ASSUME NEW before, NEW after, NEW unit, NEW c, Costs(settings.maxRetries, before, after, unit, c),
           NEW B, NEW C, NEW x \in Recs, C = With(B, x)
    PROVE  \E d \in Int : d <= c /\ TopicFlow(B, C, before, d)
<1>1. before[x.attempt] \in Nat /\ before[x.attempt] <= c
  BY RecordCost, Zenon
<1>2. TopicFlow(B, C, before, before[x.attempt])
  BY Zenon DEF TopicFlow
<1> QED
  BY <1>1, <1>2

\* What the workers move costs what it did, and c for a copy.
LEMMA MovingFlow ==
    ASSUME TypeOK, TypeOK', NEW before, NEW after, NEW unit, NEW c,
           Costs(settings.maxRetries, before, after, unit, c), NEW w \in Workers, Moving(w)
    PROVE  (Moved(0) /\ Flow(before, after, 0)) \/ (Moved(1) /\ Flow(before, after, c))
<1> DEFINE k == Charge(before, after, hand[w])
           k2 == Charge(before, after, hand'[w])
<1>1. k \in Nat /\ k2 \in Nat /\ c \in Nat
  BY ChargeType, Zenon DEF Costs
<1>2. ASSUME NEW h, hand' = [hand EXCEPT ![w] = h] PROVE hand'[w] = h /\ HandFlow(before, after, k2 - k)
  BY <1>2, InHand, Zenon DEF HandFlow
<1>3. ASSUME NEW h, hand' = [hand EXCEPT ![w] = h], h.at \in {"idle", "commit"}
      PROVE  HandFlow(before, after, 0 - k)
  <2>1. k2 = 0
    BY <1>2, <1>3, Zenon DEF Charge
  <2> QED
    BY <1>2, <1>3, <2>1, Zenon
<1>4. ASSUME hand[w] # Idle, Redelivered(hand[w].rec)
      PROVE  \E d \in Int : d <= c /\ TopicFlow(jobs, jobs', before, d)
  <2>1. hand[w].rec \in Unmarked
    BY <1>4, Zenon DEF TypeOK, IsHand
  <2>2. PICK r : r = Returned(hand[w].rec)
    BY Zenon
  <2>3. r \in Recs /\ jobs' = With(jobs, r)
    BY <1>4, <2>1, <2>2, ReturnedFields, Zenon DEF Redelivered, Returned, Unmarked
  <2> QED
    BY <2>3, AddFlow, Zenon
<1>5. ASSUME NEW landed \in SUBSET hand[w].outs, hand[w].at = "apply",
             Published(landed, hand[w].again), UNCHANGED retrier
      PROVE  \E d \in {0, k} : d <= c /\ TopicFlow(Waiting, Waiting', before, d)
  <2>1. \/ "retry" \notin landed /\ retries' = retries
        \/ "retry" \in landed /\ hand[w].again \in Unmarked /\ retries' = With(retries, hand[w].again)
    BY <1>5, PublishedFields, Zenon
  <2>2. CASE "retry" \notin landed /\ retries' = retries
    BY <1>1, <1>5, <2>2, WaitingSteps, NoFlow
  <2>3. CASE "retry" \in landed /\ hand[w].again \in Unmarked /\ retries' = With(retries, hand[w].again)
    <3>1. hand[w].again \in Recs /\ k = before[hand[w].again.attempt]
      BY <1>5, <2>3, Zenon DEF Unmarked, Charge
    <3>2. Waiting' = With(Waiting, hand[w].again)
      BY <1>5, <2>3, <3>1, WaitingSteps, Zenon
    <3>3. k <= c
      BY <3>1, RecordCost, Zenon
    <3>4. TopicFlow(Waiting, Waiting', before, k)
      BY <3>1, <3>2, Zenon DEF TopicFlow
    <3> HIDE DEF k
    <3> QED
      BY <3>3, <3>4, Zenon
  <2> QED
    BY <2>1, <2>2, <2>3, Zenon
<1>6. ASSUME NEW r \in DOMAIN jobs, Deliver(w, r) PROVE Moved(0) /\ Flow(before, after, 0)
  <2>1. /\ hand[w] = Idle /\ jobs' = Without(jobs, r) /\ hand' = [hand EXCEPT ![w] = [at |-> "check", rec |-> r]]
        /\ Waiting' = Waiting
    BY <1>6, WaitingSteps, Zenon DEF Deliver
  <2>6. hand'[w] = [at |-> "check", rec |-> r] /\ HandFlow(before, after, k2 - k)
    BY <1>2, <2>1, Zenon
  <2>9. k = 0
    <3>1. hand[w].at = "idle"
      BY <2>1 DEF Idle
    <3> QED
      BY <3>1, Zenon DEF Charge
  <2>2. k2 = before[r.attempt]
    BY <2>6 DEF Charge
  <2>3. TopicFlow(jobs, jobs', before, 0 - before[r.attempt])
    BY <2>1, Zenon DEF TopicFlow
  <2> HIDE DEF k, k2
  <2>4. TopicFlow(jobs, jobs', before, 0 - k2)
    BY <2>2, <2>3, Zenon
  <2>5. (0 - k2) + 0 + (k2 - k) <= 0 /\ 0 - k2 \in Int /\ 0 \in Int /\ k2 - k \in Int
    BY <1>1, <2>2, <2>9
  <2>8. TopicFlow(Waiting, Waiting', before, 0)
    BY <2>1, NoFlow, Zenon
  <2>7. Flow(before, after, 0)
    BY <2>4, <2>5, <2>6, <2>8, FlowBy, Zenon
  <2> QED
    BY <1>6, <2>7, FlowMoves, Zenon
<1>7. ASSUME Apply(w) PROVE Moved(0) /\ Flow(before, after, 0)
  <2>1. /\ hand[w].at = "apply" /\ Published(hand[w].outs, hand[w].again) /\ jobs' = jobs /\ UNCHANGED retrier
        /\ HandFlow(before, after, 0 - k)
    BY <1>3, <1>7, Zenon DEF Apply
  <2>2. PICK d \in {0, k} : TopicFlow(Waiting, Waiting', before, d)
    BY <1>5, <2>1, Zenon
  <2> HIDE DEF k, k2
  <2>3. 0 + d + (0 - k) <= 0 /\ d \in Int /\ 0 \in Int /\ 0 - k \in Int
    BY <1>1
  <2>5. TopicFlow(jobs, jobs', before, 0)
    BY <2>1, NoFlow, Zenon
  <2>4. Flow(before, after, 0)
    BY <2>1, <2>2, <2>3, <2>5, FlowBy, Zenon
  <2> QED
    BY <1>7, <2>4, FlowMoves, Zenon
<1>8. ASSUME NEW landed \in SUBSET hand[w].outs, ApplyFails(w, landed)
      PROVE  Moved(1) /\ Flow(before, after, c)
  <2>1. /\ hand[w].at = "apply" /\ Published(landed, hand[w].again) /\ Redelivered(hand[w].rec) /\ UNCHANGED retrier
        /\ HandFlow(before, after, 0 - k)
    BY <1>3, <1>8, Zenon DEF ApplyFails, Idle
  <2>2. PICK d \in {0, k} : TopicFlow(Waiting, Waiting', before, d)
    BY <1>5, <2>1, Zenon
  <2>3. PICK e \in Int : e <= c /\ TopicFlow(jobs, jobs', before, e)
    <3>1. hand[w] # Idle
      BY <2>1 DEF Idle
    <3> QED
      BY <1>4, <2>1, <3>1, Zenon
  <2> HIDE DEF k, k2
  <2>4. e + d + (0 - k) <= c /\ d \in Int /\ 0 - k \in Int /\ c \in Int
    BY <1>1, <2>3
  <2>5. Flow(before, after, c)
    BY <2>1, <2>2, <2>3, <2>4, FlowBy, Zenon
  <2> QED
    BY <1>8, <2>1, <2>5, FlowMoves, Zenon
<1>9. ASSUME NEW landed \in SUBSET hand[w].outs, ApplyAgain(w, landed)
      PROVE  Moved(1) /\ Flow(before, after, c)
  <2>1. /\ hand[w].at = "apply" /\ Published(landed, hand[w].again) /\ UNCHANGED <<jobs, hand, retrier>>
    BY <1>9, Zenon DEF ApplyAgain
  <2>2. PICK d \in {0, k} : d <= c /\ TopicFlow(Waiting, Waiting', before, d)
    BY <1>5, <2>1, Zenon
  <2> HIDE DEF k, k2
  <2>3. 0 + d + 0 <= c /\ d \in Int
    BY <1>1, <2>2
  <2>4. Flow(before, after, c)
    BY <1>1, <2>1, <2>2, <2>3, NoFlow, FlowBy
  <2> QED
    BY <1>9, <2>1, <2>4, FlowMoves, Zenon
<1>10. ASSUME Commit(w) PROVE Moved(0) /\ Flow(before, after, 0)
  <2>1. jobs' = jobs /\ Waiting' = Waiting /\ HandFlow(before, after, 0 - k)
    BY <1>3, <1>10, WaitingSteps, Zenon DEF Commit, Idle
  <2> HIDE DEF k, k2
  <2>2. 0 + 0 + (0 - k) <= 0 /\ 0 - k \in Int
    BY <1>1
  <2>3. Flow(before, after, 0)
    BY <2>1, <2>2, NoFlow, FlowBy
  <2> QED
    BY <1>10, <2>3, FlowMoves, Zenon
<1>11. ASSUME Crash(w) \/ Redeliver(w) PROVE Moved(1) /\ Flow(before, after, c)
  <2>1. /\ hand[w] # Idle /\ Redelivered(hand[w].rec) /\ Waiting' = Waiting
        /\ hand' = [hand EXCEPT ![w] = Idle] \/ hand' = hand
    BY <1>11, WaitingSteps, Zenon DEF Crash, Redeliver
  <2>2. PICK e \in Int : e <= c /\ TopicFlow(jobs, jobs', before, e)
    BY <1>4, <2>1, Zenon
  <2>3. HandFlow(before, after, 0 - k) \/ HandFlow(before, after, 0)
    BY <1>3, <2>1, NoFlow, Zenon DEF Idle
  <2> HIDE DEF k, k2
  <2>4. e + 0 + (0 - k) <= c /\ 0 - k \in Int /\ e + 0 + 0 <= c
    BY <1>1, <2>2
  <2>5. Flow(before, after, c)
    BY <1>1, <2>1, <2>2, <2>3, <2>4, NoFlow, FlowBy
  <2> QED
    BY <1>11, <2>5, FlowMoves, Zenon
<1> QED
  BY <1>6, <1>7, <1>8, <1>9, <1>10, <1>11, Zenon DEF Moving

\* The same for what the retry consumer and the forwarder move; marking is apart.
LEMMA RetryFlow ==
    ASSUME TypeOK, NEW before, NEW after, NEW unit, NEW c,
           Costs(settings.maxRetries, before, after, unit, c), RetryMoving
    PROVE  \/ Moved(0) /\ Flow(before, after, 0)
           \/ Moved(1) /\ Flow(before, after, c)
           \/ SetSkipWatermarks
<1>1. c \in Nat /\ HandFlow(before, after, 0)
  BY NoFlow, Zenon DEF Costs, RetryMoving, RetryDispatch, RetryFails, RetryCommit, RetryCrash, Reforward,
     SetSkipWatermarks
<1>2. \A r \in DOMAIN retries : r \in Recs /\ (~Skips(r) => r.skip = FALSE)
  BY Zenon DEF TypeOK, IsTopic, Skips, Recs, Records
<1>3. ASSUME NEW r \in DOMAIN retries, RetryDispatch(r) PROVE Moved(0) /\ Flow(before, after, 0)
  <2>1. /\ ~Skips(r) /\ jobs' = With(jobs, [r EXCEPT !.deferred = FALSE]) /\ retrier = None
        /\ retrier' = [at |-> "commit", rec |-> r] /\ UNCHANGED retries
    BY <1>3, Zenon DEF RetryDispatch, Handling, ToCommit
  <2>2. PICK d : d = [r EXCEPT !.deferred = FALSE]
    BY Zenon
  <2>3. d \in Recs /\ d.attempt = r.attempt
    BY <1>2, <2>1, <2>2, DispatchedFields, Zenon DEF Unmarked
  <2>4. r \in DOMAIN Waiting /\ Waiting' = Without(Waiting, r)
    BY <2>1, WaitingSteps, Zenon
  <2>5. PICK n : n = before[r.attempt]
    BY Zenon
  <2>6. TopicFlow(jobs, jobs', before, n)
    BY <2>1, <2>2, <2>3, <2>5, Zenon DEF TopicFlow
  <2>7. TopicFlow(Waiting, Waiting', before, 0 - n)
    BY <2>4, <2>5, Zenon DEF TopicFlow
  <2>8. n \in Nat
    BY <1>2, <2>5, RecordCost, Zenon
  <2>9. n \in Int /\ 0 - n \in Int /\ n + (0 - n) + 0 <= 0
    BY <2>8
  <2>10. Flow(before, after, 0)
    BY <1>1, <2>6, <2>7, <2>9, FlowBy
  <2> QED
    BY <1>3, <2>10, RetryMoves, Zenon
<1>4. ASSUME NEW e \in Int, NEW d \in Int, TopicFlow(jobs, jobs', before, e), TopicFlow(Waiting, Waiting', before, d),
             NEW n \in Int, e + d <= n
      PROVE  Flow(before, after, n)
  <2>1. e + d + 0 <= n
    BY <1>4
  <2> QED
    BY <1>1, <1>4, <2>1, FlowBy
<1>5. ASSUME NEW r \in DOMAIN retries, RetryFails(r)
      PROVE  (Moved(0) /\ Flow(before, after, 0)) \/ (Moved(1) /\ Flow(before, after, c))
  <2>1. TopicFlow(Waiting, Waiting', before, 0)
    BY <1>5, WaitingSteps, NoFlow, Zenon DEF RetryFails
  <2>2. CASE Moved(0) /\ jobs' = jobs
    BY <1>4, <2>1, <2>2, NoFlow
  <2>3. CASE Moved(1) /\ ~Skips(r) /\ jobs' = With(jobs, [r EXCEPT !.deferred = FALSE])
    <3>1. [r EXCEPT !.deferred = FALSE] \in Recs
      BY <1>2, <2>3, DispatchedFields, Zenon DEF Unmarked
    <3>2. PICK e \in Int : e <= c /\ TopicFlow(jobs, jobs', before, e)
      BY <2>3, <3>1, AddFlow, Zenon
    <3> QED
      BY <1>1, <1>4, <2>1, <2>3, <3>2
  <2> QED
    BY <1>5, <2>2, <2>3, RetryMoves, Zenon
<1>6. ASSUME RetryCommit PROVE Moved(0) /\ Flow(before, after, 0)
  <2>1. jobs' = jobs /\ Waiting' = Waiting
    BY <1>6, WaitingSteps, Zenon DEF RetryCommit
  <2> QED
    BY <1>4, <1>6, <2>1, NoFlow, RetryMoves
<1>7. ASSUME RetryCrash PROVE Moved(1) /\ Flow(before, after, c)
  <2>1. jobs' = jobs
    BY <1>7, Zenon DEF RetryCrash
  <2>2. PICK x \in Recs : Waiting' = With(Waiting, x)
    BY <1>7, WaitingSteps, Zenon
  <2>3. PICK d \in Int : d <= c /\ TopicFlow(Waiting, Waiting', before, d)
    BY <2>2, AddFlow, Zenon
  <2> QED
    BY <1>1, <1>4, <1>7, <2>1, <2>3, NoFlow, RetryMoves
<1>8. ASSUME Reforward PROVE Moved(1) /\ Flow(before, after, c)
  <2>1. Waiting' = Waiting /\ jobs' = With(jobs, First) /\ First \in Recs
    BY <1>8, WaitingSteps, FirstFields, Zenon DEF Reforward, Unmarked
  <2>2. PICK e \in Int : e <= c /\ TopicFlow(jobs, jobs', before, e)
    BY <2>1, AddFlow, Zenon
  <2> QED
    BY <1>1, <1>4, <1>8, <2>1, <2>2, NoFlow, RetryMoves
<1> QED
  BY <1>3, <1>5, <1>6, <1>7, <1>8, Zenon DEF RetryMoving

-----------------------------------------------------------------------------
(* Counting what is charged *)

INSTANCE FiniteSetTheorems

\* Adding to a finite set what it does not share adds up.
LEMMA DisjointUnion ==
    ASSUME NEW A, NEW B, IsFiniteSet(A), IsFiniteSet(B), A \cap B = {}
    PROVE  /\ IsFiniteSet(A \cup B)
           /\ Cardinality(A \cup B) = Cardinality(A) + Cardinality(B)
<1>1. Cardinality(A \cap B) = 0
  BY FS_EmptySet, Zenon
<1>2. Cardinality(A) \in Nat /\ Cardinality(B) \in Nat
  BY FS_CardinalityType, Zenon
<1>3. /\ IsFiniteSet(A \cup B)
      /\ Cardinality(A \cup B) = Cardinality(A) + Cardinality(B) - Cardinality(A \cap B)
  BY FS_Union, Zenon
<1> QED
  BY <1>1, <1>2, <1>3

\* The numbers up to n, labelled.
LEMMA Labelled ==
    ASSUME NEW x, NEW n \in Nat
    PROVE  IsFiniteSet({x} \X (1..n)) /\ Cardinality({x} \X (1..n)) = n
<1>1. IsFiniteSet({x}) /\ Cardinality({x}) = 1
  BY FS_Singleton, Zenon
<1>2. IsFiniteSet(1..n) /\ Cardinality(1..n) = IF 1 > n THEN 0 ELSE n - 1 + 1
  BY FS_Interval
<1>3. Cardinality(1..n) = n
  BY <1>2
<1>4. PICK K : K = 1..n
  BY Zenon
<1>5. IsFiniteSet(K) /\ Cardinality(K) = n
  BY <1>2, <1>3, <1>4, Zenon
<1>6. IsFiniteSet({x} \X K) /\ Cardinality({x} \X K) = Cardinality({x}) * Cardinality(K)
  BY <1>1, <1>5, FS_Product, Zenon
<1>7. Cardinality({x}) * Cardinality(K) = n
  BY <1>1, <1>5
<1> QED
  BY <1>4, <1>6, <1>7, Zenon

\* What is charged to the records of a topic; to the workers, f[w] to each.
Runs(B, before) ==
    {t \in (Records \X Nat) \X Nat :
        t[1][1] \in DOMAIN B /\ t[1][2] \in 1..B[t[1][1]] /\ t[2] \in 1..before[t[1][1].attempt]}
HandRuns(f) == {t \in Workers \X Nat : t[2] \in 1..f[t[1]]}

\* A record more on a topic.
LEMMA AddRuns ==
    ASSUME NEW B, IsTopic(B, Records), NEW x \in Records, NEW before \in [Nat -> Nat],
           IsFiniteSet(Runs(B, before)) \/ IsFiniteSet(Runs(With(B, x), before))
    PROVE  /\ IsFiniteSet(Runs(B, before)) /\ IsFiniteSet(Runs(With(B, x), before))
           /\ Cardinality(Runs(With(B, x), before)) = Cardinality(Runs(B, before)) + before[x.attempt]
<1> DEFINE n == IF x \in DOMAIN B THEN B[x] + 1 ELSE 1
           C == With(B, x)
           more == {<<x, n>>} \X (1..before[x.attempt])
<1>1. /\ n \in Nat /\ n \in 1..n /\ x.attempt \in Nat /\ before[x.attempt] \in Nat
      /\ DOMAIN C = DOMAIN B \cup {x} /\ C[x] = n
      /\ \A y \in DOMAIN B \ {x} : C[y] = B[y]
      /\ x \in DOMAIN B => B[x] = n - 1 /\ B[x] \in Nat
      /\ x \notin DOMAIN B => n = 1
  <2>1. n \in Nat /\ n \in 1..n /\ x.attempt \in Nat /\ before[x.attempt] \in Nat
    BY DEF IsTopic, Records
  <2>2. DOMAIN C = DOMAIN B \cup {x} /\ C[x] = n /\ \A y \in DOMAIN B \ {x} : C[y] = B[y]
    BY Zenon DEF With, IsTopic
  <2>3. x \in DOMAIN B => B[x] = n - 1 /\ B[x] \in Nat
    BY DEF IsTopic
  <2> QED
    BY <2>1, <2>2, <2>3, Zenon
<1> HIDE DEF n, C
<1>2. ASSUME NEW t \in Runs(C, before) PROVE t \in Runs(B, before) \cup more
  <2>1. /\ t = <<<<t[1][1], t[1][2]>>, t[2]>> /\ t \in (Records \X Nat) \X Nat
        /\ t[1][1] \in DOMAIN C /\ t[1][2] \in 1..C[t[1][1]] /\ t[2] \in 1..before[t[1][1].attempt]
    BY DEF Runs
  <2>2. CASE t[1][1] # x
    BY <1>1, <2>1, <2>2, Zenon DEF Runs
  <2>3. CASE t[1][1] = x /\ t[1][2] = n
    BY <2>1, <2>3
  <2>4. CASE t[1][1] = x /\ t[1][2] # n
    BY <1>1, <2>1, <2>4 DEF Runs
  <2> QED
    BY <2>2, <2>3, <2>4, Zenon
<1>3. Runs(B, before) \subseteq Runs(C, before)
  BY <1>1 DEF Runs
<1>4. more \subseteq Runs(C, before)
  BY <1>1 DEF Runs
<1>5. Runs(B, before) \cap more = {}
  BY <1>1 DEF Runs
<1>6. Runs(C, before) = Runs(B, before) \cup more
  BY <1>2, <1>3, <1>4, Zenon
<1>7. IsFiniteSet(more) /\ Cardinality(more) = before[x.attempt]
  BY <1>1, Labelled, Zenon
<1> HIDE DEF more
<1>8. IsFiniteSet(Runs(B, before))
  BY <1>3, FS_Subset, Zenon DEF C
<1>9. /\ IsFiniteSet(Runs(B, before) \cup more)
      /\ Cardinality(Runs(B, before) \cup more) = Cardinality(Runs(B, before)) + Cardinality(more)
  BY <1>5, <1>7, <1>8, DisjointUnion, Zenon
<1> QED
  BY <1>6, <1>7, <1>8, <1>9, Zenon DEF C

\* A record less.
LEMMA RemoveRuns ==
    ASSUME NEW B, IsTopic(B, Records), NEW x \in DOMAIN B, NEW before \in [Nat -> Nat], IsFiniteSet(Runs(B, before))
    PROVE  /\ IsFiniteSet(Runs(Without(B, x), before))
           /\ Cardinality(Runs(B, before)) = Cardinality(Runs(Without(B, x), before)) + before[x.attempt]
<1>1. PICK C : C = Without(B, x)
  BY Zenon
<1>2. x \in Records /\ IsTopic(C, Records) /\ With(C, x) = B
  BY <1>1, RemoveTopic, Zenon DEF IsTopic
<1>3. IsFiniteSet(Runs(C, before)) /\ Cardinality(Runs(B, before)) = Cardinality(Runs(C, before)) + before[x.attempt]
  BY <1>2, AddRuns, Zenon
<1> QED
  BY <1>1, <1>3, Zenon

\* A step of one worker.
LEMMA ChangeHandRuns ==
    ASSUME NEW f \in [Workers -> Nat], NEW g \in [Workers -> Nat], NEW w \in Workers,
           \A v \in Workers \ {w} : g[v] = f[v], IsFiniteSet(HandRuns(f))
    PROVE  /\ IsFiniteSet(HandRuns(g))
           /\ Cardinality(HandRuns(g)) = Cardinality(HandRuns(f)) + (g[w] - f[w])
<1> DEFINE rest == {t \in Workers \X Nat : t[1] # w /\ t[2] \in 1..f[t[1]]}
           F == {w} \X (1..f[w])
           G == {w} \X (1..g[w])
<1>1. HandRuns(f) = rest \cup F /\ rest \cap F = {} /\ HandRuns(g) = rest \cup G /\ rest \cap G = {}
  BY DEF HandRuns
<1>2. IsFiniteSet(rest)
  BY <1>1, FS_Subset, Zenon
<1>3. f[w] \in Nat /\ g[w] \in Nat
  BY Zenon
<1>4. IsFiniteSet(F) /\ Cardinality(F) = f[w] /\ IsFiniteSet(G) /\ Cardinality(G) = g[w]
  BY <1>3, Labelled, Zenon
<1> HIDE DEF rest, F, G
<1>5. /\ Cardinality(HandRuns(f)) = Cardinality(rest) + f[w]
      /\ IsFiniteSet(HandRuns(g)) /\ Cardinality(HandRuns(g)) = Cardinality(rest) + g[w]
  <2>1. /\ Cardinality(rest \cup F) = Cardinality(rest) + Cardinality(F)
        /\ IsFiniteSet(rest \cup G) /\ Cardinality(rest \cup G) = Cardinality(rest) + Cardinality(G)
    BY <1>1, <1>2, <1>4, DisjointUnion, Zenon
  <2> QED
    BY <1>1, <1>4, <2>1, Zenon
<1>6. Cardinality(rest) \in Nat
  BY <1>2, FS_CardinalityType, Zenon
<1> QED
  BY <1>3, <1>5, <1>6

\* The watermarks mark what is there.
LEMMA MarkRuns ==
    ASSUME TypeOK, SetSkipWatermarks, NEW before, IsFiniteSet(Runs(retries, before))
    PROVE  /\ IsFiniteSet(Runs(retries', before))
           /\ Cardinality(Runs(retries', before)) <= Cardinality(Runs(retries, before))
<1> DEFINE Clear(s) == [s EXCEPT !.skip = FALSE]
           Mark(s) == [s EXCEPT !.skip = TRUE]
           f == [t \in Runs(retries', before) |-> <<<<Clear(t[1][1]), t[1][2]>>, t[2]>>]
<1>1. \A s \in DOMAIN retries' : /\ Clear(s) \in DOMAIN retries /\ s = Mark(Clear(s))
                                 /\ retries'[s] = retries[Clear(s)] /\ s.attempt = Clear(s).attempt
  BY SkipMarks, Zenon
<1>2. \A r \in DOMAIN retries : r \in Records
  BY Zenon DEF TypeOK, IsTopic, Recs
<1> HIDE DEF Clear, Mark
<1>3. ASSUME NEW t \in Runs(retries', before) PROVE f[t] \in Runs(retries, before)
  <2>1. /\ t[1][1] \in DOMAIN retries' /\ t[1][2] \in Nat /\ t[2] \in Nat
        /\ t[1][2] \in 1..retries'[t[1][1]] /\ t[2] \in 1..before[t[1][1].attempt]
    BY Zenon DEF Runs
  <2>2. /\ Clear(t[1][1]) \in DOMAIN retries /\ Clear(t[1][1]) \in Records
        /\ t[1][2] \in 1..retries[Clear(t[1][1])] /\ t[2] \in 1..before[Clear(t[1][1]).attempt]
    BY <1>1, <1>2, <2>1, Zenon
  <2> QED
    BY <2>1, <2>2, Zenon DEF Runs
<1>4. ASSUME NEW t \in Runs(retries', before), NEW u \in Runs(retries', before), f[t] = f[u] PROVE t = u
  <2>1. /\ t \in (Records \X Nat) \X Nat /\ u \in (Records \X Nat) \X Nat
        /\ t[1][1] \in DOMAIN retries' /\ u[1][1] \in DOMAIN retries'
    BY Zenon DEF Runs
  <2>2. Clear(t[1][1]) = Clear(u[1][1]) /\ t[1][2] = u[1][2] /\ t[2] = u[2]
    BY <1>4, Zenon
  <2>3. t[1][1] = Mark(Clear(t[1][1])) /\ u[1][1] = Mark(Clear(u[1][1]))
    BY <1>1, <2>1, Zenon
  <2>4. t[1][1] = u[1][1]
    BY <2>2, <2>3, Zenon
  <2>5. t = <<<<t[1][1], t[1][2]>>, t[2]>> /\ u = <<<<u[1][1], u[1][2]>>, u[2]>>
    BY <2>1
  <2> QED
    BY <2>2, <2>4, <2>5, Zenon
<1>5. f \in Injection(Runs(retries', before), Runs(retries, before))
  BY <1>3, <1>4, Zenon DEF Injection, IsInjective
<1> HIDE DEF f
<1> QED
  BY <1>5, FS_Injection, Zenon

-----------------------------------------------------------------------------
(* What is paid and what is charged *)

Charges(before, after) == [w \in Workers |-> Charge(before, after, hand[w])]

Counted(before, after) ==
    /\ IsFiniteSet(Runs(jobs, before)) /\ IsFiniteSet(Runs(Waiting, before))
    /\ IsFiniteSet(HandRuns(Charges(before, after)))
Total(before, after) ==
    Cardinality(Runs(jobs, before)) + Cardinality(Runs(Waiting, before))
        + Cardinality(HandRuns(Charges(before, after)))

\* The runs paid for.
Spent(unit) == IF unit = 1 THEN past.runs ELSE 0

\* The total is a number.
LEMMA TotalType ==
    ASSUME NEW before, NEW after
    PROVE  /\ Counted(before, after) => Total(before, after) \in Nat
           /\ Counted(before, after)' => Total(before, after)' \in Nat
<1>1. Counted(before, after) => Total(before, after) \in Nat
  BY FS_CardinalityType DEF Counted, Total
<1>2. Counted(before, after)' => Total(before, after)' \in Nat
  BY FS_CardinalityType DEF Counted, Total
<1> QED
  BY <1>1, <1>2, Zenon

\* What is charged to a topic after a flow.
LEMMA TopicCost ==
    ASSUME NEW B, NEW C, IsTopic(B, Records), NEW before \in [Nat -> Nat], IsFiniteSet(Runs(B, before)),
           NEW d, TopicFlow(B, C, before, d)
    PROVE  IsFiniteSet(Runs(C, before)) /\ Cardinality(Runs(C, before)) = Cardinality(Runs(B, before)) + d
<1>0. Cardinality(Runs(B, before)) \in Nat
  BY FS_CardinalityType, Zenon
<1>1. CASE C = B /\ d = 0
  BY <1>0, <1>1
<1>2. ASSUME NEW x \in Recs, C = With(B, x), d = before[x.attempt]
      PROVE  IsFiniteSet(Runs(C, before)) /\ Cardinality(Runs(C, before)) = Cardinality(Runs(B, before)) + d
  BY <1>2, AddRuns, Zenon DEF Recs
<1>3. ASSUME NEW x \in DOMAIN B, C = Without(B, x), d = 0 - before[x.attempt]
      PROVE  IsFiniteSet(Runs(C, before)) /\ Cardinality(Runs(C, before)) = Cardinality(Runs(B, before)) + d
  <2>1. /\ IsFiniteSet(Runs(C, before))
        /\ Cardinality(Runs(B, before)) = Cardinality(Runs(C, before)) + before[x.attempt]
    BY <1>3, RemoveRuns, Zenon
  <2>2. Cardinality(Runs(C, before)) \in Nat
    BY <2>1, FS_CardinalityType, Zenon
  <2>3. before[x.attempt] \in Nat
    BY Zenon DEF IsTopic, Records
  <2> QED
    BY <1>0, <1>3, <2>1, <2>2, <2>3
<1> QED
  BY <1>1, <1>2, <1>3, Zenon DEF TopicFlow

\* What is charged to the workers after a flow.
LEMMA HandCost ==
    ASSUME TypeOK, TypeOK', NEW before \in [Nat -> Nat], NEW after \in [Nat -> Nat],
           IsFiniteSet(HandRuns(Charges(before, after))), NEW d, HandFlow(before, after, d)
    PROVE  /\ IsFiniteSet(HandRuns(Charges(before, after)))'
           /\ Cardinality(HandRuns(Charges(before, after)))' = Cardinality(HandRuns(Charges(before, after))) + d
<1> DEFINE f == [v \in Workers |-> Charge(before, after, hand[v])]
           g == [v \in Workers |-> Charge(before, after, hand'[v])]
<1>1. f \in [Workers -> Nat] /\ g \in [Workers -> Nat]
  BY ChargeType, Zenon
<1>2. Charges(before, after) = f /\ Charges(before, after)' = g
  BY Zenon DEF Charges
<1>3. HandRuns(Charges(before, after))' = HandRuns(g) /\ HandRuns(Charges(before, after)) = HandRuns(f)
  BY <1>2, Zenon DEF HandRuns
<1>4. IsFiniteSet(HandRuns(g)) /\ Cardinality(HandRuns(g)) = Cardinality(HandRuns(f)) + d
  <2>1. CASE hand' = hand /\ d = 0
    <3>1. f = g
      BY <2>1, Zenon
    <3>2. Cardinality(HandRuns(f)) \in Nat
      BY <1>3, FS_CardinalityType, Zenon
    <3> HIDE DEF f, g
    <3> QED
      BY <1>3, <2>1, <3>1, <3>2
  <2>2. ASSUME NEW w \in Workers, \A v \in Workers \ {w} : hand'[v] = hand[v],
               d = Charge(before, after, hand'[w]) - Charge(before, after, hand[w])
        PROVE  IsFiniteSet(HandRuns(g)) /\ Cardinality(HandRuns(g)) = Cardinality(HandRuns(f)) + d
    <3>1. d = g[w] - f[w] /\ \A v \in Workers \ {w} : g[v] = f[v]
      BY <2>2, Zenon
    <3> HIDE DEF f, g
    <3> QED
      BY <1>1, <1>3, <3>1, ChangeHandRuns, Zenon
  <2> QED
    BY <2>1, <2>2, Zenon DEF HandFlow
<1> QED
  BY <1>3, <1>4, Zenon

\* The total after a flow.
LEMMA FlowCost ==
    ASSUME TypeOK, TypeOK', NEW before \in [Nat -> Nat], NEW after \in [Nat -> Nat],
           Counted(before, after), NEW n \in Int, Flow(before, after, n)
    PROVE  Counted(before, after)' /\ Total(before, after)' <= Total(before, after) + n
<1>1. PICK dj \in Int, dw \in Int, dh \in Int :
        /\ TopicFlow(jobs, jobs', before, dj) /\ TopicFlow(Waiting, Waiting', before, dw)
        /\ HandFlow(before, after, dh)
        /\ dj + dw + dh <= n
  BY Zenon DEF Flow
<1>2. IsTopic(jobs, Records) /\ IsTopic(Waiting, Records)
  BY WaitingSteps, Zenon DEF TypeOK, IsTopic, Unmarked, Recs
<1>3. /\ IsFiniteSet(Runs(jobs', before)) /\ Cardinality(Runs(jobs', before)) = Cardinality(Runs(jobs, before)) + dj
      /\ IsFiniteSet(Runs(Waiting', before))
      /\ Cardinality(Runs(Waiting', before)) = Cardinality(Runs(Waiting, before)) + dw
  BY <1>1, <1>2, TopicCost DEF Counted
<1>4. /\ IsFiniteSet(HandRuns(Charges(before, after)))'
      /\ Cardinality(HandRuns(Charges(before, after)))' = Cardinality(HandRuns(Charges(before, after))) + dh
  BY <1>1, HandCost, Zenon DEF Counted
<1>5. Counted(before, after)'
  BY <1>3, <1>4, Zenon DEF Counted, Runs
<1>6. /\ Cardinality(Runs(jobs, before)) \in Nat /\ Cardinality(Runs(Waiting, before)) \in Nat
      /\ Cardinality(HandRuns(Charges(before, after))) \in Nat
  BY FS_CardinalityType, Zenon DEF Counted
<1>7. Total(before, after)' =
        Cardinality(Runs(jobs', before)) + Cardinality(Runs(Waiting', before))
            + Cardinality(HandRuns(Charges(before, after)))'
  BY Zenon DEF Total, Runs
<1> QED
  BY <1>1, <1>3, <1>4, <1>5, <1>6, <1>7 DEF Total

\* A step pays for what it starts out of what is charged already, unless a copy is made.
CostStep(before, after, unit, c) ==
    /\ Counted(before, after)'
    /\ \/ /\ past'.copies = past.copies
          /\ Spent(unit)' + Total(before, after)' <= Spent(unit) + Total(before, after)
       \/ /\ past'.copies = past.copies + 1
          /\ Spent(unit)' + Total(before, after)' <= Spent(unit) + Total(before, after) + c

\* No step costs more than is charged, except for the copies it makes.
LEMMA StepCost ==
    ASSUME BaseInv, [Next]_vars, NEW before, NEW after, NEW unit, NEW c,
           Costs(settings.maxRetries, before, after, unit, c), Counted(before, after)
    PROVE  CostStep(before, after, unit, c) /\ settings' = settings
<1>0. TypeOK /\ (known => batchCancelled) /\ TypeOK'
  BY BaseInvStep, Zenon DEF BaseInv
<1>1. /\ before \in [Nat -> Nat] /\ after \in [Nat -> Nat] /\ unit \in {0, 1} /\ c \in Nat
      /\ past.runs \in Nat /\ Total(before, after) \in Nat
      /\ Counted(before, after)' => Total(before, after)' \in Nat
  BY <1>0, TotalType, Zenon DEF Costs, TypeOK, Pasts
<1>2. ASSUME NEW n \in {0, c}, Flow(before, after, n)
      PROVE  Counted(before, after)' /\ Total(before, after)' <= Total(before, after) + n
  BY <1>0, <1>1, <1>2, FlowCost
<1>3. ASSUME Moved(0), Counted(before, after)', Total(before, after)' <= Total(before, after)
      PROVE  CostStep(before, after, unit, c) /\ settings' = settings
  <2>2. past.copies \in Nat
    BY <1>0, Zenon DEF TypeOK, Pasts
  <2>1. settings' = settings /\ past'.copies = past.copies /\ past'.runs = past.runs
    BY <1>3, <2>2 DEF Moved, around
  <2> QED
    BY <1>1, <1>3, <2>1 DEF CostStep, Spent
<1>4. ASSUME Moved(1), Flow(before, after, c) PROVE CostStep(before, after, unit, c) /\ settings' = settings
  <2>1. settings' = settings /\ past'.copies = past.copies + 1 /\ past'.runs = past.runs
    BY <1>4, Zenon DEF Moved, around
  <2>2. Counted(before, after)' /\ Total(before, after)' <= Total(before, after) + c
    BY <1>2, <1>4, Zenon
  <2> QED
    BY <1>1, <2>1, <2>2 DEF CostStep, Spent
<1>5. ASSUME Flow(before, after, 0), past'.runs = past.runs, past'.copies = past.copies
      PROVE  CostStep(before, after, unit, c)
  <2>1. Counted(before, after)' /\ Total(before, after)' <= Total(before, after) + 0
    BY <1>2, <1>5, Zenon
  <2> QED
    BY <1>1, <1>5, <2>1 DEF CostStep, Spent
<1>6. ASSUME UNCHANGED <<jobs, retries, hand, retrier, settings>>, past'.runs = past.runs, past'.copies = past.copies
      PROVE  CostStep(before, after, unit, c) /\ settings' = settings
  <2>1. Waiting' = Waiting
    BY <1>0, <1>6, WaitingSteps, Zenon
  <2>2. /\ TopicFlow(jobs, jobs', before, 0) /\ TopicFlow(Waiting, Waiting', before, 0)
        /\ HandFlow(before, after, 0)
    BY <1>6, <2>1, NoFlow, Zenon
  <2>3. 0 \in Int /\ 0 + 0 + 0 <= 0
    OBVIOUS
  <2>4. Flow(before, after, 0)
    BY <2>2, <2>3, FlowBy, Zenon
  <2> QED
    BY <1>5, <1>6, <2>4, Zenon
<1>7. ASSUME NEW w \in Workers, DecideStep(w) PROVE CostStep(before, after, unit, c) /\ settings' = settings
  <2>1. Flow(before, after, 0)
    BY <1>0, <1>7, DecideFlow, Zenon
  <2> QED
    BY <1>5, <1>7, <2>1, Zenon DEF DecideStep, around
<1>8. ASSUME NEW w \in Workers, RunStep(w) PROVE CostStep(before, after, unit, c) /\ settings' = settings
  <2>1. Flow(before, after, 0 - unit) /\ 0 - unit \in Int
    BY <1>0, <1>1, <1>8, RunFlow
  <2>2. Counted(before, after)' /\ Total(before, after)' <= Total(before, after) + (0 - unit)
    BY <1>0, <1>1, <2>1, FlowCost, Zenon
  <2>3. past'.runs \in {past.runs, past.runs + 1} /\ past'.copies = past.copies /\ settings' = settings
    BY <1>8, Zenon DEF RunStep, around
  <2> QED
    BY <1>1, <2>2, <2>3 DEF CostStep, Spent
<1>9. ASSUME NEW w \in Workers, Moving(w) PROVE CostStep(before, after, unit, c) /\ settings' = settings
  <2>1. (Moved(0) /\ Flow(before, after, 0)) \/ (Moved(1) /\ Flow(before, after, c))
    BY <1>0, <1>9, MovingFlow, Zenon
  <2> QED
    BY <1>1, <1>2, <1>3, <1>4, <2>1
<1>10. ASSUME NEW r \in DOMAIN retries, RetryEndStep(r)
       PROVE  CostStep(before, after, unit, c) /\ settings' = settings
  <2>1. /\ retrier = None /\ retrier' = [at |-> "commit", rec |-> r] /\ UNCHANGED <<jobs, retries, hand, around>>
        /\ past'.runs = past.runs /\ past'.copies = past.copies
    BY <1>10, Zenon DEF RetryEndStep
  <2>2. r \in Recs /\ r \in DOMAIN Waiting /\ Waiting' = Without(Waiting, r)
    BY <1>0, <2>1, WaitingSteps, Zenon DEF TypeOK, IsTopic
  <2>3. PICK n : n = before[r.attempt]
    BY Zenon
  <2>4. n \in Nat /\ TopicFlow(Waiting, Waiting', before, 0 - n)
    BY <2>2, <2>3, RecordCost, Zenon DEF TopicFlow
  <2>5. 0 \in Int /\ 0 - n \in Int /\ 0 + (0 - n) + 0 <= 0
    BY <2>4
  <2>6. TopicFlow(jobs, jobs', before, 0) /\ HandFlow(before, after, 0)
    BY <2>1, NoFlow, Zenon
  <2>7. Flow(before, after, 0)
    BY <2>4, <2>5, <2>6, FlowBy, Zenon
  <2> QED
    BY <1>5, <2>1, <2>7, Zenon DEF around
<1>11. ASSUME SetSkipWatermarks PROVE CostStep(before, after, unit, c) /\ settings' = settings
  <2>1. Moved(0) /\ UNCHANGED <<jobs, hand>> /\ Waiting = retries /\ Waiting' = retries'
    BY <1>0, <1>11, SkipMarks, WaitingSteps, Zenon DEF SetSkipWatermarks
  <2>2. /\ IsFiniteSet(Runs(retries', before))
        /\ Cardinality(Runs(retries', before)) <= Cardinality(Runs(retries, before))
    BY <1>0, <1>11, <2>1, MarkRuns, Zenon DEF Counted
  <2>3. /\ Runs(jobs, before)' = Runs(jobs, before) /\ Runs(Waiting, before)' = Runs(retries', before)
        /\ HandRuns(Charges(before, after))' = HandRuns(Charges(before, after))
    BY <2>1, Zenon DEF Runs, HandRuns, Charges
  <2>4. Counted(before, after)'
    BY <2>2, <2>3, Zenon DEF Counted
  <2>5. /\ Cardinality(Runs(jobs, before)) \in Nat /\ Cardinality(Runs(retries', before)) \in Nat
        /\ Cardinality(Runs(retries, before)) \in Nat /\ Cardinality(HandRuns(Charges(before, after))) \in Nat
    BY <2>1, <2>2, FS_CardinalityType, Zenon DEF Counted
  <2>6. Total(before, after)' <= Total(before, after)
    BY <2>1, <2>2, <2>3, <2>5 DEF Total
  <2> QED
    BY <1>3, <2>1, <2>4, <2>6, Zenon
<1>12. ASSUME RetryMoving PROVE CostStep(before, after, unit, c) /\ settings' = settings
  <2>1. \/ Moved(0) /\ Flow(before, after, 0)
        \/ Moved(1) /\ Flow(before, after, c)
        \/ SetSkipWatermarks
    BY <1>0, <1>12, RetryFlow, Zenon
  <2> QED
    BY <1>1, <1>2, <1>3, <1>4, <1>11, <2>1
<1> QED
  BY <1>0, <1>6, <1>7, <1>8, <1>9, <1>10, <1>12, StepKinds, Zenon DEF QuietStep, vars

\* What is paid for and what is charged is within c for the job and each copy of it.
CostInv(before, after, unit, c) ==
    Counted(before, after) /\ Spent(unit) + Total(before, after) <= c * (past.copies + 1)

\* Whatever the weights, every step keeps the runs made so far plus the weight of
\* what the topics and hands still hold within c for the job and each of its copies.
LEMMA CostInvStep ==
    ASSUME BaseInv, [Next]_vars, NEW before, NEW after, NEW unit, NEW c,
           Costs(settings.maxRetries, before, after, unit, c), CostInv(before, after, unit, c)
    PROVE  CostInv(before, after, unit, c)'
<1>1. CostStep(before, after, unit, c) /\ c \in Nat
  BY StepCost, Zenon DEF CostInv, Costs
<1>2. /\ past.copies \in Nat /\ past'.copies \in Nat /\ Spent(unit) \in Nat /\ Spent(unit)' \in Nat
  BY BaseInvStep, Zenon DEF BaseInv, TypeOK, Pasts, Spent
<1>3. Total(before, after) \in Nat /\ Total(before, after)' \in Nat
  BY <1>1, TotalType, Zenon DEF CostInv, CostStep
<1>4. \A n \in Nat : c * (n + 1 + 1) = c * (n + 1) + c /\ c * (n + 1) \in Nat
  BY <1>1
<1> QED
  BY <1>1, <1>2, <1>3, <1>4 DEF CostInv, CostStep

\* The first record is the only one.
LEMMA CostInvInit ==
    ASSUME Init, TypeOK, NEW before, NEW after, NEW unit, NEW c, Costs(settings.maxRetries, before, after, unit, c)
    PROVE  CostInv(before, after, unit, c)
<1>1. /\ jobs = With(NoRecords, First) /\ Waiting = NoRecords /\ \A w \in Workers : hand[w] = Idle
      /\ past.runs = 0 /\ past.copies = 0
  BY Zenon DEF Init, Waiting
<1>2. PICK x \in Recs : x = First
  BY FirstFields, Zenon DEF Unmarked
<1>3. before[x.attempt] \in Nat /\ before[x.attempt] <= c /\ before \in [Nat -> Nat] /\ c \in Nat /\ x \in Records
  BY RecordCost, Zenon DEF Costs, Recs
<1>4. IsTopic(NoRecords, Records) /\ Runs(NoRecords, before) = {}
  BY Zenon DEF IsTopic, NoRecords, Runs
<1>5. IsFiniteSet({}) /\ Cardinality({}) = 0
  BY FS_EmptySet, Zenon
<1>6. IsFiniteSet(Runs(jobs, before)) /\ Cardinality(Runs(jobs, before)) = 0 + before[x.attempt]
  <2>1. PICK B : B = NoRecords
    BY Zenon
  <2>2. IsTopic(B, Records) /\ IsFiniteSet(Runs(B, before)) /\ Cardinality(Runs(B, before)) = 0
    BY <1>4, <1>5, <2>1, Zenon
  <2>3. /\ IsFiniteSet(Runs(With(B, x), before))
        /\ Cardinality(Runs(With(B, x), before)) = Cardinality(Runs(B, before)) + before[x.attempt]
    BY <1>3, <2>2, AddRuns, Zenon
  <2> QED
    BY <1>1, <1>2, <2>1, <2>2, <2>3, Zenon
<1>7. HandRuns(Charges(before, after)) = {}
  <2>1. Charge(before, after, Idle) = 0
    BY Zenon DEF Charge, Idle
  <2>2. \A w \in Workers : Charges(before, after)[w] = 0
    BY <1>1, <2>1, Zenon DEF Charges
  <2> QED
    BY <2>2 DEF HandRuns
<1>8. Counted(before, after) /\ Total(before, after) = before[x.attempt]
  BY <1>1, <1>3, <1>4, <1>5, <1>6, <1>7 DEF Counted, Total
<1> QED
  BY <1>1, <1>3, <1>8 DEF CostInv, Spent

-----------------------------------------------------------------------------
(* The budget of attempts *)

\* A record of attempt a can still run for the attempts a to m.
From(m) == [a \in Nat |-> IF a <= m THEN m + 1 - a ELSE 0]
Later(m) == [a \in Nat |-> IF a <= m THEN m - a ELSE 0]

\* The weights of the retry budget: a record of attempt n may still run m + 1 - n times.
LEMMA BudgetCosts == ASSUME NEW m \in Nat PROVE Costs(m, From(m), Later(m), 1, m + 1)
<1>1. /\ From(m) \in [Nat -> Nat] /\ Later(m) \in [Nat -> Nat]
      /\ \A a \in Nat : a <= m => From(m)[a] = m + 1 - a /\ Later(m)[a] = m - a
  BY DEF From, Later
<1> QED
  BY <1>1 DEF Costs

\* The runs made and the runs the records still stand for are within the budget.
BudgetInv == \E m \in Nat : m = settings.maxRetries /\ CostInv(From(m), Later(m), 1, m + 1)

\* The handler runs at most once for each attempt of the job and of each copy that
\* redelivery made of a record, whatever the interleaving of workers, retry consumer
\* and faults (Process, buildRetryPayload): retries add up, never multiply.
THEOREM BudgetHolds == Spec => []RetryBudget
<1>1. Init => BudgetInv
  <2> SUFFICES ASSUME Init PROVE BudgetInv
    BY Zenon
  <2>1. TypeOK
    BY BaseInvInit, Zenon DEF BaseInv
  <2>2. PICK m \in Nat : m = settings.maxRetries
    BY <2>1, Zenon DEF TypeOK, Settings
  <2> QED
    BY <2>1, <2>2, BudgetCosts, CostInvInit, Zenon DEF BudgetInv
<1>2. BaseInv /\ BudgetInv /\ [Next]_vars => BudgetInv'
  <2> SUFFICES ASSUME BaseInv, BudgetInv, [Next]_vars PROVE BudgetInv'
    BY Zenon
  <2>1. PICK m \in Nat : m = settings.maxRetries /\ CostInv(From(m), Later(m), 1, m + 1)
    BY Zenon DEF BudgetInv
  <2>2. CostInv(From(m), Later(m), 1, m + 1)'
    BY <2>1, BudgetCosts, CostInvStep, Zenon
  <2>3. settings' = settings
    BY <2>1, BudgetCosts, StepCost, Zenon DEF CostInv
  <2> QED
    BY <2>1, <2>2, <2>3, Zenon DEF BudgetInv
<1>3. BaseInv /\ BudgetInv => RetryBudget
  <2> SUFFICES ASSUME BaseInv, BudgetInv PROVE RetryBudget
    BY Zenon
  <2>1. PICK m \in Nat : m = settings.maxRetries /\ CostInv(From(m), Later(m), 1, m + 1)
    BY Zenon DEF BudgetInv
  <2>2. Total(From(m), Later(m)) \in Nat /\ past.runs \in Nat /\ past.copies \in Nat
    BY <2>1, TotalType, Zenon DEF CostInv, BaseInv, TypeOK, Pasts
  <2>3. past.runs + Total(From(m), Later(m)) <= (m + 1) * (past.copies + 1)
    BY <2>1, Zenon DEF CostInv, Spent
  <2>4. (m + 1) * (past.copies + 1) \in Nat
    BY <2>2
  <2> QED
    BY <2>1, <2>2, <2>3, <2>4 DEF RetryBudget
<1> QED
  BY <1>1, <1>2, <1>3, BaseInvInit, BaseInvStep, PTL DEF Spec

-----------------------------------------------------------------------------
(* The uniqueness lock *)

\* Every record whose outcome is to come counts as one.
One == [a \in Nat |-> 1]

\* The weights of the uniqueness lock: each record that may still run weighs one.
LEMMA OneCosts == \A m \in Nat : Costs(m, One, One, 0, 1)
BY DEF Costs, One

\* There are at most as many records as the job and its copies.  The lock stays until
\* the job ends; while there are no copies it goes with the last record; once the job
\* has ended it is gone, unless its release failed.
LockInv ==
    /\ CostInv(One, One, 0, 1)
    /\ settings.uniq /\ past.lockEnded = FALSE /\ past.ends = {} => lock = TRUE
    /\ settings.uniq /\ past.lockEnded = FALSE /\ past.copies = 0 /\ past.inRetry = FALSE
         => lock = TRUE \/ Total(One, One) = 0
    /\ past.ends # {} /\ past.inRetry = FALSE /\ past.kept = FALSE => lock = FALSE

\* Before its TTL no step frees the uniqueness lock of a job that has not ended, nor of
\* one without redeliveries while a record of it may run; and none leaves it held after
\* an end that releases it.
LEMMA LockInvStep == BaseInv /\ LockInv /\ [Next]_vars => LockInv'
<1> SUFFICES ASSUME BaseInv, LockInv, [Next]_vars PROVE LockInv'
  BY Zenon
<1>0. TypeOK /\ (known => batchCancelled) /\ TypeOK'
  BY BaseInvStep, Zenon DEF BaseInv
<1>1. Costs(settings.maxRetries, One, One, 0, 1)
  BY <1>0, OneCosts, Zenon DEF TypeOK, Settings
<1>2. CostInv(One, One, 0, 1)' /\ CostStep(One, One, 0, 1) /\ settings' = settings
  BY <1>1, CostInvStep, StepCost, Zenon DEF LockInv, CostInv
<1>3. /\ past.copies \in Nat /\ past'.copies \in Nat /\ past.inRetry \in BOOLEAN /\ past'.inRetry \in BOOLEAN
      /\ past.kept \in BOOLEAN /\ past'.kept \in BOOLEAN
      /\ past.lockEnded \in BOOLEAN /\ past'.lockEnded \in BOOLEAN
      /\ lock \in BOOLEAN /\ lock' \in BOOLEAN /\ settings'.uniq = settings.uniq
  BY <1>0, <1>2, Zenon DEF TypeOK, Pasts
<1>4. Total(One, One) \in Nat /\ Total(One, One)' \in Nat
  BY <1>2, TotalType, Zenon DEF LockInv, CostInv
<1>5. past'.copies = 0 => past.copies = 0 /\ Total(One, One)' <= Total(One, One)
  <2>1. Spent(0) = 0 /\ Spent(0)' = 0
    BY DEF Spent
  <2> QED
    BY <1>2, <1>3, <1>4, <2>1 DEF CostStep
<1>6. past.copies = 0 => Total(One, One) <= 1
  <2>1. Spent(0) = 0 /\ Spent(0) + Total(One, One) <= 1 * (past.copies + 1)
    BY DEF Spent, LockInv, CostInv
  <2> QED
    BY <1>3, <1>4, <2>1
<1>13. /\ settings.uniq /\ past.lockEnded = FALSE /\ past.ends = {} => lock = TRUE
       /\ settings.uniq /\ past.lockEnded = FALSE /\ past.copies = 0 /\ past.inRetry = FALSE
            => lock = TRUE \/ Total(One, One) = 0
       /\ past.ends # {} /\ past.inRetry = FALSE /\ past.kept = FALSE => lock = FALSE
  BY Zenon DEF LockInv
<1>14. ASSUME PastKept
       PROVE  /\ past'.lockEnded = FALSE => past.lockEnded = FALSE
              /\ past'.inRetry = FALSE => past.inRetry = FALSE
              /\ past'.kept = FALSE => past.kept = FALSE
              /\ past'.ends = {} => past.ends = {}
  BY <1>3, <1>14, Zenon DEF PastKept
<1>7. ASSUME lock' = lock, PastKept, past'.ends = past.ends \/ past'.inRetry = TRUE \/ past'.kept = TRUE
      PROVE  LockInv'
  <2>1. settings'.uniq /\ past'.lockEnded = FALSE /\ past'.copies = 0 /\ past'.inRetry = FALSE
          => lock' = TRUE \/ Total(One, One)' = 0
    <3> SUFFICES ASSUME settings'.uniq, past'.lockEnded = FALSE, past'.copies = 0, past'.inRetry = FALSE
                 PROVE  lock' = TRUE \/ Total(One, One)' = 0
      BY Zenon
    <3>1. past.lockEnded = FALSE /\ past.inRetry = FALSE /\ past.copies = 0 /\ settings.uniq
      BY <1>3, <1>5, <1>7, <1>14, Zenon
    <3>2. lock = TRUE \/ Total(One, One) = 0
      BY <1>13, <3>1, Zenon
    <3> QED
      BY <1>4, <1>5, <1>7, <3>2
  <2>2. past'.ends # {} /\ past'.inRetry = FALSE /\ past'.kept = FALSE => lock' = FALSE
    BY <1>3, <1>7, <1>13, <1>14, Zenon
  <2>3. settings'.uniq /\ past'.lockEnded = FALSE /\ past'.ends = {} => lock' = TRUE
    BY <1>3, <1>7, <1>13, <1>14, Zenon
  <2> QED
    BY <1>2, <2>1, <2>2, <2>3, Zenon DEF LockInv
<1>8. ASSUME NEW w \in Workers, DecideStep(w) PROVE LockInv'
  <2>1. /\ past'.inRetry = past.inRetry /\ hand[w].at \in {"check", "run"} /\ PastKept
        /\ \/ lock' = lock /\ (past'.ends = past.ends \/ past'.kept)
           \/ lock' = FALSE /\ past'.ends # {}
    BY <1>8, Zenon DEF DecideStep
  <2>2. CASE lock' = lock /\ (past'.ends = past.ends \/ past'.kept)
    BY <1>3, <1>7, <2>1, <2>2, Zenon
  <2>3. CASE lock' = FALSE /\ past'.ends # {}
    <3>1. Charge(One, One, hand[w]) = 1
      <4>1. hand[w].rec.attempt \in Nat
        BY <1>0, <2>1, Zenon DEF TypeOK, IsHand, Unmarked, Recs, Records
      <4> QED
        BY <2>1, <4>1, Zenon DEF Charge, One
    <3>2. lock' = lock \/ Flow(One, One, 0 - 1)
      BY <1>0, <1>1, <1>8, <3>1, DecideFlow, Zenon
    <3>3. Flow(One, One, 0 - 1) => Total(One, One)' <= Total(One, One) + (0 - 1)
      <4>1. One \in [Nat -> Nat] /\ 0 - 1 \in Int
        BY DEF One
      <4> QED
        BY <1>0, <4>1, FlowCost, Zenon DEF LockInv, CostInv
    <3>4. settings'.uniq /\ past'.lockEnded = FALSE /\ past'.copies = 0 /\ past'.inRetry = FALSE
            => Total(One, One)' = 0
      <4>1. CASE lock' = lock
        <5> SUFFICES ASSUME settings'.uniq, past'.lockEnded = FALSE, past'.copies = 0, past'.inRetry = FALSE
                     PROVE  Total(One, One)' = 0
          BY Zenon
        <5>1. past.lockEnded = FALSE /\ past.inRetry = FALSE /\ past.copies = 0 /\ settings.uniq /\ lock = FALSE
          BY <1>3, <1>5, <1>14, <2>1, <2>3, <4>1, Zenon
        <5>2. Total(One, One) = 0
          BY <1>13, <5>1, Zenon
        <5> QED
          BY <1>4, <1>5, <5>2
      <4>2. CASE Flow(One, One, 0 - 1)
        BY <1>3, <1>4, <1>5, <1>6, <3>3, <4>2
      <4> QED
        BY <3>2, <4>1, <4>2, Zenon
    <3> QED
      BY <1>2, <2>3, <3>4, Zenon DEF LockInv
  <2> QED
    BY <2>1, <2>2, <2>3, Zenon
<1>9. ASSUME NEW w \in Workers, RunStep(w) PROVE LockInv'
  BY <1>7, <1>9, Zenon DEF RunStep
<1>10. ASSUME NEW r \in DOMAIN retries, RetryEndStep(r) PROVE LockInv'
  BY <1>7, <1>10, Zenon DEF RetryEndStep
<1>11. ASSUME (\E w \in Workers : Moving(w)) \/ RetryMoving PROVE LockInv'
  BY <1>0, <1>7, <1>11, MovingMoved, Zenon DEF Moved
<1>12. ASSUME QuietStep PROVE LockInv'
  <2>1. PastKept /\ past'.ends = past.ends /\ (lock' = lock \/ (lock' = FALSE /\ past'.lockEnded = TRUE))
    BY <1>12, Zenon DEF QuietStep
  <2>2. CASE lock' = FALSE /\ past'.lockEnded = TRUE
    BY <1>2, <2>2, Zenon DEF LockInv
  <2> QED
    BY <1>7, <2>1, <2>2, Zenon
<1>15. ASSUME UNCHANGED vars PROVE LockInv'
  <2>1. lock' = lock /\ past' = past
    BY <1>15, Zenon DEF vars, redis
  <2>2. PastKept
    BY <1>0, <2>1, Zenon DEF PastKept, TypeOK
  <2> QED
    BY <1>7, <2>1, <2>2, Zenon
<1> QED
  BY <1>0, <1>8, <1>9, <1>10, <1>11, <1>12, <1>15, StepKinds, Zenon

\* Within its TTL a uniq job keeps its lock through every retry, crash and redelivery
\* until it ends, and, unless a record of it was redelivered, for as long as it may run;
\* and has left it once it has ended, unless the release failed or that was in the retry
\* consumer: for every number of workers, retries and faults (handleFailure,
\* releaseUniq).
THEOREM LockAlwaysFollows == Spec => []LockFollowsJob
<1>1. Init => LockInv
  <2> SUFFICES ASSUME Init PROVE LockInv
    BY Zenon
  <2>1. TypeOK
    BY BaseInvInit, Zenon DEF BaseInv
  <2>2. CostInv(One, One, 0, 1)
    BY <2>1, OneCosts, CostInvInit, Zenon DEF TypeOK, Settings
  <2>3. past.ends = {} /\ lock = settings.uniq /\ settings.uniq \in BOOLEAN
    BY <2>1, Zenon DEF Init, TypeOK, Settings
  <2> QED
    BY <2>2, <2>3, Zenon DEF LockInv
<1>2. BaseInv /\ LockInv => LockFollowsJob
  <2> SUFFICES ASSUME BaseInv, LockInv PROVE LockFollowsJob
    BY Zenon
  <2>1. /\ TypeOK /\ past.inRetry \in BOOLEAN /\ lock \in BOOLEAN
        /\ past.kept \in BOOLEAN /\ past.lockEnded \in BOOLEAN
    BY Zenon DEF BaseInv, TypeOK, Pasts
  <2>2. /\ Cardinality(Runs(jobs, One)) \in Nat /\ Cardinality(Runs(Waiting, One)) \in Nat
        /\ Cardinality(HandRuns(Charges(One, One))) \in Nat
        /\ Runs(jobs, One) # {} => Cardinality(Runs(jobs, One)) # 0
        /\ Runs(Waiting, One) # {} => Cardinality(Runs(Waiting, One)) # 0
        /\ HandRuns(Charges(One, One)) # {} => Cardinality(HandRuns(Charges(One, One))) # 0
    BY FS_CardinalityType, FS_EmptySet, Zenon DEF LockInv, CostInv, Counted
  <2>3. IsTopic(jobs, Recs) /\ IsTopic(Waiting, Recs)
    BY <2>1, WaitingSteps, Zenon DEF TypeOK, IsTopic, Unmarked
  <2>4. ASSUME NEW B, IsTopic(B, Recs), B # NoRecords PROVE Runs(B, One) # {}
    <3>0. DOMAIN B # {}
      BY <2>4, Zenon DEF IsTopic, NoRecords
    <3>1. PICK x \in DOMAIN B : TRUE
      BY <3>0, Zenon
    <3>2. x \in Records /\ x.attempt \in Nat /\ B[x] \in Nat \ {0}
      BY <2>4, <3>1, Zenon DEF IsTopic, Recs, Records
    <3>3. 1 \in 1..B[x] /\ 1 \in 1..One[x.attempt]
      BY <3>2 DEF One
    <3>4. <<<<x, 1>>, 1>> \in Runs(B, One)
      BY <3>1, <3>2, <3>3, Zenon DEF Runs
    <3> QED
      BY <3>4, Zenon
  <2>5. Queued => Total(One, One) # 0
    BY <2>2, <2>3, <2>4 DEF Queued, Total
  <2>6. ASSUME NEW w \in Workers, hand[w].at \in {"check", "run"} PROVE Total(One, One) # 0
    <3>1. hand[w].rec.attempt \in Nat
      BY <2>1, <2>6, Zenon DEF TypeOK, IsHand, Unmarked, Recs, Records
    <3>2. Charge(One, One, hand[w]) = 1
      BY <2>6, <3>1, Zenon DEF Charge, One
    <3>3. <<w, 1>> \in HandRuns(Charges(One, One))
      BY <3>2 DEF HandRuns, Charges
    <3> QED
      BY <2>2, <3>3 DEF Total
  <2>7. settings.uniq /\ ~past.lockEnded
          /\ \/ past.ends = {}
             \/ /\ past.copies = 0 /\ ~past.inRetry
                /\ Queued \/ \E w \in Workers : hand[w].at \in {"check", "run"}
        => lock
    <3>1. CASE settings.uniq /\ past.lockEnded = FALSE /\ past.ends = {}
      BY <2>1, <3>1, Zenon DEF LockInv
    <3>2. ASSUME settings.uniq, past.lockEnded = FALSE, past.copies = 0, past.inRetry = FALSE,
                 Queued \/ \E w \in Workers : hand[w].at \in {"check", "run"}
          PROVE  lock = TRUE
      <4>1. Total(One, One) # 0
        BY <2>5, <2>6, <3>2, Zenon
      <4> QED
        BY <3>2, <4>1, Zenon DEF LockInv
    <3> QED
      BY <2>1, <3>1, <3>2, Zenon
  <2>8. past.ends # {} /\ ~past.inRetry /\ ~past.kept => ~lock
    BY <2>1, Zenon DEF LockInv
  <2> QED
    BY <2>7, <2>8, Zenon DEF LockFollowsJob
<1> QED
  BY <1>1, <1>2, BaseInvInit, BaseInvStep, LockInvStep, PTL DEF Spec

====
