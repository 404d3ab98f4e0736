--------------------------- MODULE BatchCallbacks ---------------------------
(***************************************************************************)
(* The road of a batch's callbacks.  The client pushes jobs and seals;     *)
(* workers emit completion events; the event processor applies them to the *)
(* ledger and produces the callbacks the scripts granted; the callback     *)
(* consumer claims, marks and invokes them; the reconciler finishes stuck  *)
(* batches and re-fires unclaimed callbacks.  Every Redis script, read and *)
(* produce is a step of its own, and a process may crash between two of    *)
(* them or see one fail.                                                   *)
(*                                                                         *)
(* Events and callbacks are delivered at least once: a message leaves its  *)
(* topic only when its handler's commit is not followed by a redelivery.   *)
(* Keys do not expire here (BatchLedger.tla has the expiry).               *)
(***************************************************************************)
EXTENDS BatchScripts

CONSTANTS
    Seqs,       \* seqs the client may push, 1..n
    EventOps,   \* the ops workers emit for a job of FlakySeqs
    FlakySeqs,  \* bound: the jobs that may do more than succeed
    MaxPoll,    \* bound: events of this batch in one poll
    MaxFaults   \* bound: crashes, failed calls and redeliveries

ASSUME CallbackBounds ==
    /\ Seqs \subseteq Nat \ {0} /\ IsFiniteSet(Seqs)
    /\ EventOps \subseteq Ops /\ "success" \in EventOps /\ FlakySeqs \subseteq Seqs
    /\ MaxPoll \in Nat /\ MaxFaults \in Nat

VARIABLES
    b,           \* the batch's keys in Redis
    reserved,    \* seqs reserved and not yet produced
    jobs,        \* seqs whose job is in Kafka
    stranded,    \* seqs counted in total whose job never came
    emitted,     \* <<seq, op>> the workers have emitted
    events,      \* <<seq, op>> still on the events topic
    callbacks,   \* messages on the callbacks topic
    client,      \* the message a returned seal still has to produce, as a set
    ep,          \* the event processor's ProcessBatch in progress
    cc,          \* the callback consumer's Process in progress
    rc,          \* the reconciler's sweep of this batch in progress, and whether
                 \* a sweep has finished the batch (marked)
    runs,        \* history: how often each kind was invoked
    parked,      \* history: kinds parked on the dead-letter topic
    bySeal,      \* history: kinds whose dispatch was granted to a seal
    dropped,     \* history: kinds whose holder died or gave up, or which the sweep forgot
    failOpen,    \* history: invocations let through by a Redis error
    faults       \* faults so far

ledgerVars  == <<b, reserved, jobs, stranded, emitted>>
history     == <<runs, parked, bySeal, dropped, failOpen, faults>>
vars        == <<ledgerVars, events, callbacks, client, ep, cc, rc, history>>

Outcomes == {"success", "success_only", "complete"}

\* Preclaimed: the script that granted the callback has stamped its claim.
Message == [outcome : Outcomes, preclaimed : BOOLEAN]

\* What invoking a message runs.
RunsKinds(outcome) ==
    CASE outcome = "success"      -> {"success", "complete"}
      [] outcome = "success_only" -> {"success"}
      [] outcome = "complete"     -> {"complete"}

claimKind(outcome) == IF outcome \in {"success", "success_only"} THEN "success" ELSE "complete"

\* The outcome a script returns for the kinds it granted.
OutcomeOf(kinds) ==
    CASE kinds = Kinds       -> "success"
      [] kinds = {"success"} -> "success_only"
      [] OTHER               -> "complete"

Fires(kinds, preclaimed) ==
    IF kinds = {} THEN {} ELSE {[outcome |-> OutcomeOf(kinds), preclaimed |-> preclaimed]}

Idle == [pc |-> "idle", evs |-> {}, left |-> {}, fires |-> {}, replay |-> FALSE]

Init ==
    /\ \E sealed \in BOOLEAN : b = IndexBatch(CreateBatch(NoLedger, sealed, 0))
    /\ reserved = {} /\ jobs = {} /\ stranded = {} /\ emitted = {}
    /\ events = {} /\ callbacks = {} /\ client = {} /\ ep = Idle
    /\ cc = [pc |-> "idle", msgs |-> {}] /\ rc = [pc |-> "idle", outcome |-> "success", marked |-> FALSE]
    /\ runs = [k \in Kinds |-> 0] /\ parked = {} /\ bySeal = {} /\ dropped = {}
    /\ failOpen = 0 /\ faults = 0

Fault == faults < MaxFaults /\ faults' = faults + 1

\* The holder of the claimed messages ms lets them go.
Drop(ms) == dropped' = dropped \cup UNION {RunsKinds(m.outcome) : m \in ms}

-----------------------------------------------------------------------------
(* Client and workers *)

Reserve ==
    /\ ~Closed(b) /\ b.seq + 1 \in Seqs
    /\ b' = AddJobs(b, 1, 0)
    /\ reserved' = reserved \cup {b.seq + 1}
    /\ UNCHANGED <<jobs, stranded, emitted, events, callbacks, client, ep, cc, rc, history>>

Produce(s) ==
    /\ s \in reserved
    /\ reserved' = reserved \ {s} /\ jobs' = jobs \cup {s}
    /\ UNCHANGED <<b, stranded, emitted, events, callbacks, client, ep, cc, rc, history>>

\* The produce fails and AddJobs(-1) takes the job back; that call's own failure
\* is ignored, as is a client that dies before it.
RollBack(s, fails) ==
    /\ s \in reserved
    /\ reserved' = reserved \ {s}
    /\ b' = IF Closed(b) \/ fails THEN b ELSE AddJobs(b, -1, 0)
    /\ stranded' = IF fails THEN stranded \cup {s} ELSE stranded
    /\ Fault
    /\ UNCHANGED <<jobs, emitted, events, callbacks, client, ep, cc, rc,
                   runs, parked, bySeal, dropped, failOpen>>

\* Seal, first half: SealBatch runs the script and reads the batch back.
SealScript ==
    /\ client = {}
    /\ b' = SealBatch(b, 0)
    /\ client' = Fires(SealGrants(b), FALSE)
    /\ bySeal' = bySeal \cup SealGrants(b)
    /\ UNCHANGED <<reserved, jobs, stranded, emitted, events, callbacks, ep, cc, rc,
                   runs, parked, dropped, failOpen, faults>>

\* Seal, second half: produceCallback, which leaves Preclaimed unset.
SealProduce ==
    /\ client # {}
    /\ callbacks' = callbacks \cup client
    /\ client' = {}
    /\ UNCHANGED <<ledgerVars, events, ep, cc, rc, history>>

\* The read or the produce fails, or the client dies: Seal returns an error.
SealFail ==
    /\ client # {} /\ Fault
    /\ client' = {}
    /\ Drop(client)
    /\ UNCHANGED <<ledgerVars, events, callbacks, ep, cc, rc, runs, parked, bySeal, failOpen>>

\* A worker ran the job: another attempt follows (executed), or it succeeded,
\* or it failed for good; a zombie attempt may report after another one.
Emit(s, op) ==
    /\ s \in jobs /\ <<s, op>> \notin emitted
    /\ op = "success" \/ s \in FlakySeqs
    /\ emitted' = emitted \cup {<<s, op>>}
    /\ events' = events \cup {<<s, op>>}
    /\ UNCHANGED <<b, reserved, jobs, stranded, callbacks, client, ep, cc, rc, history>>

Cancel ==
    /\ b.status = "running"
    /\ b' = CancelBatch(b)
    /\ Fault
    /\ UNCHANGED <<reserved, jobs, stranded, emitted, events, callbacks, client, ep, cc, rc,
                   runs, parked, bySeal, dropped, failOpen>>

-----------------------------------------------------------------------------
(* The event processor: one ProcessBatch *)

EpPoll ==
    /\ ep.pc = "idle"
    /\ \E evs \in SUBSET events :
        /\ evs # {} /\ Cardinality(evs) <= MaxPoll
        /\ ep' = [Idle EXCEPT !.pc = "apply", !.evs = evs, !.left = evs]
    /\ UNCHANGED <<ledgerVars, events, callbacks, client, cc, rc, history>>

\* Each event's fire signal replaces that of the events before it.
FaultyEpApply(e) ==
    /\ ep.pc = "apply" /\ e \in ep.left
    /\ b' = BatchDoneJob(b, e[1], e[2], 0)
    /\ ep' = [ep EXCEPT !.left = @ \ {e},
                        !.fires = Fires(DoneJobGrants(b, e[1], e[2], 0), TRUE),
                        !.replay = @ \/ Duplicate(b, e[1], e[2])]
    /\ UNCHANGED <<reserved, jobs, stranded, emitted, events, callbacks, client, cc, rc,
                   history>>

\* RecordCompletionsBatch: one script of the pipeline.
EpApply(e) ==
    /\ ep.pc = "apply" /\ e \in ep.left
    /\ b' = BatchDoneJob(b, e[1], e[2], 0)
    /\ ep' = [ep EXCEPT !.left = @ \ {e},
                        !.fires = @ \cup Fires(DoneJobGrants(b, e[1], e[2], 0), TRUE),
                        !.replay = @ \/ Duplicate(b, e[1], e[2])]
    /\ UNCHANGED <<reserved, jobs, stranded, emitted, events, callbacks, client, cc, rc, history>>

\* FindReplayCallbackBatches: a duplicate event of a finished batch with an
\* unclaimed callback re-sends it, for the consumer to claim.
ReplayDue(l) ==
    /\ l.status \in Terminal
    /\ \/ {"complete", "any"} \cap l.claims = {}
       \/ l.status = "success" /\ "success" \notin l.claims

EpReplay ==
    /\ ep.pc = "apply" /\ ep.left = {}
    /\ ep' = [ep EXCEPT !.pc = "produce",
                        !.fires = IF ep.replay /\ ReplayDue(b)
                                  THEN @ \cup {[outcome |-> b.status, preclaimed |-> FALSE]}
                                  ELSE @]
    /\ UNCHANGED <<ledgerVars, events, callbacks, client, cc, rc, history>>

EpProduce(m) ==
    /\ ep.pc = "produce" /\ m \in ep.fires
    /\ ep' = [ep EXCEPT !.fires = @ \ {m}]
    /\ callbacks' = callbacks \cup {m}
    /\ UNCHANGED <<ledgerVars, events, client, cc, rc, history>>

\* produceOneCallback gives up and deadLetterCallback parks the message, or
\* fails as well; the failed produce may have been durable all the same.
EpDeadLetter(m, durable, parks) ==
    /\ ep.pc = "produce" /\ m \in ep.fires /\ Fault
    /\ ep' = [ep EXCEPT !.fires = @ \ {m}]
    /\ callbacks' = IF durable THEN callbacks \cup {m} ELSE callbacks
    /\ parked' = IF parks THEN parked \cup RunsKinds(m.outcome) ELSE parked
    /\ IF parks THEN dropped' = dropped ELSE Drop({m})
    /\ UNCHANGED <<ledgerVars, events, client, cc, rc, runs, bySeal, failOpen>>

EpCommit ==
    /\ ep.pc = "produce" /\ ep.fires = {}
    /\ ep' = Idle
    /\ \/ events' = events \ ep.evs /\ faults' = faults
       \/ events' = events /\ Fault
    /\ UNCHANGED <<ledgerVars, callbacks, client, cc, rc, runs, parked, bySeal, dropped, failOpen>>

\* The process dies, or a pipeline or the HGETALL of the finished batches
\* returns an error: ProcessBatch gives up and the events are redelivered.
EpFail ==
    /\ ep.pc # "idle" /\ Fault
    /\ ep' = Idle
    /\ Drop({m \in ep.fires : m.preclaimed})
    /\ UNCHANGED <<ledgerVars, events, callbacks, client, cc, rc, runs, parked, bySeal, failOpen>>

-----------------------------------------------------------------------------
(* The callback consumer: one Process *)

Ack(m) ==
    /\ cc' = [pc |-> "idle", msgs |-> {}]
    /\ \/ callbacks' = callbacks \ {m} /\ faults' = faults
       \/ callbacks' = callbacks /\ Fault

\* A message the event processor did not preclaim has to win its claim.
CcClaim(m) ==
    /\ cc.pc = "idle" /\ m \in callbacks
    /\ m.preclaimed \/ ClaimWins(b, claimKind(m.outcome))
    /\ b' = IF m.preclaimed THEN b ELSE ClaimCallback(b, claimKind(m.outcome))
    /\ cc' = [pc |-> "mark", msgs |-> {m}]
    /\ UNCHANGED <<reserved, jobs, stranded, emitted, events, callbacks, client, ep, rc, history>>

CcSkip(m) ==
    /\ cc.pc = "idle" /\ m \in callbacks
    /\ ~m.preclaimed /\ ~ClaimWins(b, claimKind(m.outcome))
    /\ Ack(m)
    /\ UNCHANGED <<ledgerVars, events, client, ep, rc, runs, parked, bySeal, dropped, failOpen>>

\* MarkCallbackInvoked: the loser of the marker skips.
CcMark(m) ==
    /\ cc.pc = "mark" /\ m \in cc.msgs
    /\ LET kind == claimKind(m.outcome)
       IN  IF InvokeWins(b, kind)
           THEN /\ b' = InvokeCallback(b, kind)
                /\ cc' = [cc EXCEPT !.pc = "invoke"]
                /\ UNCHANGED <<callbacks, faults>>
           ELSE Ack(m) /\ b' = b
    /\ UNCHANGED <<reserved, jobs, stranded, emitted, events, client, ep, rc, runs, parked, bySeal, dropped, failOpen>>

\* A Redis error in MarkCallbackInvoked fails open.
CcMarkError(m) ==
    /\ cc.pc = "mark" /\ m \in cc.msgs /\ Fault
    /\ cc' = [cc EXCEPT !.pc = "invoke"]
    /\ failOpen' = failOpen + 1
    /\ UNCHANGED <<ledgerVars, events, callbacks, client, ep, rc, runs, parked, bySeal, dropped>>

\* Invoke; its error is parked and not retried.
CcInvoke(m) ==
    /\ cc.pc = "invoke" /\ m \in cc.msgs
    /\ runs' = [k \in Kinds |-> runs[k] + (IF k \in RunsKinds(m.outcome) THEN 1 ELSE 0)]
    /\ Ack(m)
    /\ UNCHANGED <<ledgerVars, events, client, ep, rc, parked, bySeal, dropped, failOpen>>

\* The consumer dies.  Once it stamped the claim of a message that was not
\* preclaimed, or the invoke marker, a redelivery of the message is skipped.
CcCrash ==
    /\ cc.pc # "idle" /\ Fault
    /\ cc' = [pc |-> "idle", msgs |-> {}]
    /\ Drop({m \in cc.msgs : ~m.preclaimed \/ cc.pc = "invoke"})
    /\ UNCHANGED <<ledgerVars, events, callbacks, client, ep, rc, runs, parked, bySeal, failOpen>>

-----------------------------------------------------------------------------
(* Who still runs a callback *)

\* The message is still able to run its kinds: it needs no claim, or can win it.
Able(m) == m.preclaimed \/ ClaimWins(b, claimKind(m.outcome))

\* Somebody still answers for kind k.
Answered(k) ==
    \/ runs[k] > 0 \/ k \in parked
    \/ \E m \in callbacks \cup ep.fires \cup cc.msgs :
            k \in RunsKinds(m.outcome) /\ (Able(m) \/ m \in cc.msgs)

-----------------------------------------------------------------------------
(* The reconciler *)

\* A batch whose counts are just complete is taken to be in progress.
FaultyRcRead ==
    /\ rc.pc = "idle" /\ "running" \in b.idx /\ b.status = "running" /\ b.sealed
    /\ b.completedN + b.failedN > b.total
    /\ rc' = [rc EXCEPT !.pc = "mark", !.outcome = "success"]
    /\ UNCHANGED <<ledgerVars, events, callbacks, client, ep, cc, history>>

\* reconcileRunning up to its decision, from one fresh read of the batch.
RcRead ==
    /\ rc.pc = "idle" /\ "running" \in b.idx /\ b.status = "running" /\ b.sealed
    /\ b.total = 0 \/ b.completedN + b.failedN >= b.total
    /\ rc' = [rc EXCEPT !.pc = "mark",
                        !.outcome = IF b.total # 0 /\ b.failedN > 0 THEN "complete"
                                                                    ELSE "success"]
    /\ UNCHANGED <<ledgerVars, events, callbacks, client, ep, cc, history>>

RcMark ==
    /\ rc.pc = "mark"
    /\ b' = MarkFinishedIfRunning(b, rc.outcome)
    /\ rc' = [rc EXCEPT !.pc = IF b.status = "running" THEN "produce" ELSE "idle",
                        !.marked = @ \/ b.status = "running"]
    /\ UNCHANGED <<reserved, jobs, stranded, emitted, events, callbacks, client, ep, cc, history>>

\* DoneBatchesWithoutCallback: a batch whose on_complete is claimed is pruned from
\* the index, also when nobody answers for its on_success.
RcLost ==
    /\ rc.pc = "idle" /\ "done" \in b.idx
    /\ IF {"any", "complete"} \cap b.claims = {} /\ b.status \in Terminal
       THEN rc' = [rc EXCEPT !.pc = "produce", !.outcome = b.status] /\ UNCHANGED <<b, dropped>>
       ELSE /\ rc' = rc /\ b' = [b EXCEPT !.idx = @ \ {"done"}]
            /\ dropped' = IF b.status = "success" /\ "success" \notin b.claims /\ ~Answered("success")
                          THEN dropped \cup {"success"} ELSE dropped
    /\ UNCHANGED <<reserved, jobs, stranded, emitted, events, callbacks, client, ep, cc,
                   runs, parked, bySeal, failOpen, faults>>

RcProduce ==
    /\ rc.pc = "produce"
    /\ callbacks' = callbacks \cup {[outcome |-> rc.outcome, preclaimed |-> FALSE]}
    /\ rc' = [rc EXCEPT !.pc = "idle"]
    /\ UNCHANGED <<ledgerVars, events, client, ep, cc, history>>

\* A failed produce, or the daemon dies: the next sweep finds the batch again, unless
\* a late event claims its on_complete before.
RcFail ==
    /\ rc.pc # "idle" /\ Fault
    /\ rc' = [rc EXCEPT !.pc = "idle"]
    /\ UNCHANGED <<ledgerVars, events, callbacks, client, ep, cc, runs, parked, bySeal, dropped, failOpen>>

-----------------------------------------------------------------------------
Push       == Reserve \/ \E s \in Seqs : Produce(s)
Work       == \E s \in Seqs, op \in EventOps : Emit(s, op)
\* The outcome of a job that has none yet.
JobEnds(s) ==
    /\ <<s, "success">> \notin emitted /\ <<s, "failed">> \notin emitted
    /\ \E op \in {"success", "failed"} : Emit(s, op)
Processor  == EpPoll \/ (\E e \in Seqs \X EventOps : EpApply(e)) \/ EpReplay
              \/ (\E m \in Message : EpProduce(m)) \/ EpCommit
Consumer   == \E m \in Message : CcClaim(m) \/ CcSkip(m) \/ CcMark(m) \/ CcInvoke(m)
Reconciler == RcRead \/ RcMark \/ RcLost \/ RcProduce
Failures   ==
    \/ \E s \in Seqs, fails \in BOOLEAN : RollBack(s, fails)
    \/ SealFail \/ Cancel \/ EpFail \/ CcCrash \/ RcFail
    \/ \E m \in Message, durable, parks \in BOOLEAN : EpDeadLetter(m, durable, parks)
    \/ \E m \in Message : CcMarkError(m)

Next == Push \/ SealScript \/ SealProduce \/ Work \/ Processor \/ Consumer \/ Reconciler \/ Failures

Spec == Init /\ [][Next]_vars

\* Each process keeps taking its steps: the client pushes what it means to push
\* and seals once, every job succeeds or fails for good, the consumers poll, the
\* reconciler sweeps on a timer.
FairSpec ==
    /\ Spec
    /\ WF_vars(Push) /\ WF_vars(~b.sealed /\ SealScript) /\ WF_vars(SealProduce)
    /\ (\A s \in Seqs : WF_vars(JobEnds(s))) /\ WF_vars(Processor)
    /\ WF_vars(Consumer) /\ WF_vars(Reconciler)

-----------------------------------------------------------------------------
\* Type invariant.
TypeOK ==
    /\ b \in Ledger
    /\ reserved \subseteq Seqs /\ jobs \subseteq Seqs /\ stranded \subseteq Seqs
    /\ emitted \subseteq Seqs \X EventOps /\ events \subseteq emitted
    /\ callbacks \subseteq Message /\ client \subseteq Message
    /\ ep \in [pc : {"idle", "apply", "produce"}, evs : SUBSET emitted, left : SUBSET emitted,
               fires : SUBSET Message, replay : BOOLEAN]
    /\ cc \in [pc : {"idle", "mark", "invoke"}, msgs : SUBSET Message]
    /\ rc \in [pc : {"idle", "mark", "produce"}, outcome : Outcomes, marked : BOOLEAN]
    /\ runs \in [Kinds -> Nat] /\ parked \subseteq Kinds
    /\ bySeal \subseteq Kinds /\ dropped \subseteq Kinds
    /\ faults \in 0..MaxFaults /\ failOpen \in 0..faults

\* What the claim stamps promise: a kind stamped as dispatched has run, is
\* parked, or is carried by a message or a process that can still run it,
\* unless a seal was granted it or its holder failed before passing it on.
ClaimsAnswered ==
    \A k \in (Kinds \cap b.claims) \ (bySeal \cup dropped) : Answered(k)

\* A callback runs once, redeliveries of events and callbacks, replays and late
\* events notwithstanding; only a marker that fails open lets it run again.  (A
\* batch the reconciler finished is left out for on_complete: its message claims
\* and marks success only, so a late event may still claim complete.)
RunsOnce ==
    /\ runs["success"] <= 1 + failOpen
    /\ rc.marked \/ runs["complete"] <= 1 + failOpen

\* Every sealed batch is called back: unless it is cancelled or counts a job that
\* never came, it finishes, and every callback its status calls for runs or is
\* parked, or was lost in one of the ways ClaimsAnswered names, or by the sweep:
\* RcLost forgets the on_success of a batch it finished, and could not call back,
\* once a late event has claimed on_complete.
CalledBack ==
    <>(\/ stranded # {} \/ b.status = "cancelled"
       \/ /\ b.status \in Terminal
          /\ \A k \in RunsKinds(b.status) :
                runs[k] > 0 \/ k \in parked \cup bySeal \cup dropped)

\* "A seal that finalizes an untouched-claims batch fires both callbacks exactly
\* once" (store/seal_claims_test.go): what a seal was granted runs or can still
\* run, if nothing failed.
SealFires ==
    faults = 0 /\ client = {} => \A k \in bySeal : Answered(k)

=============================================================================
