---------------------------- MODULE BatchScripts ----------------------------
(***************************************************************************)
(* The Redis Lua scripts of the batch ledger (pkg/store/lua.go and         *)
(* cancel.go) as operators from one batch's keys to the same keys after    *)
(* the script.  Redis runs a script atomically, so each operator is one    *)
(* step of whatever module applies it.                                     *)
(*                                                                         *)
(* A ledger is a record.  Hash fields: status ("none" when the hash is     *)
(* absent), sealed (locked_at # ''), total, touchedN, completedN, failedN, *)
(* claims (the *_callback_dispatched_at stamps, "any" being the legacy     *)
(* callback_dispatched_at) and invoked (the *_callback_invoked_at stamps). *)
(* Bitmaps: touch, ok and fail are the sets of seqs whose bit is 1 (seq s  *)
(* is bit s - 1).  seq is the allocator's counter.  exp is the deadline of *)
(* each key, 0 when the key does not exist.  idx is the set of indexes the *)
(* batch is a member of and cnt its contribution to kafka_batch:counts.    *)
(*                                                                         *)
(* Definitions named Faulty... are deliberate mistakes in the definition   *)
(* that follows them; no specification uses them.  Replacing the right     *)
(* definition by the faulty one must break the property PROJECT.json names *)
(* with it.                                                                *)
(***************************************************************************)
EXTENDS Integers, FiniteSets

CONSTANTS
    TTL,          \* retention of a running batch, in ticks
    FinishedTTL   \* retention of a finished batch, in ticks

ASSUME RetentionAssumption ==
    /\ TTL \in Nat \ {0}
    /\ FinishedTTL \in 1..TTL

Terminal == {"success", "complete"}
Statuses == {"running", "cancelled"} \cup Terminal
Kinds    == {"complete", "success"}
Ops      == {"executed", "success", "failed"}
Bitmaps  == {"touch", "ok", "fail"}
Keys     == {"hash", "seq"} \cup Bitmaps
Indexes  == {"running", "done", "cancelled"}

Ledger ==
    [status : Statuses \cup {"none"}, sealed : BOOLEAN, total : Int,
     touchedN : Int, completedN : Int, failedN : Int,
     claims : SUBSET (Kinds \cup {"any"}), invoked : SUBSET Kinds,
     touch : SUBSET Nat, ok : SUBSET Nat, fail : SUBSET Nat,
     seq : Nat, exp : [Keys -> Nat],
     idx : SUBSET Indexes, cnt : [Statuses -> Int]]

Live(b) == b.status # "none"

NoLedger ==
    [status |-> "none", sealed |-> FALSE, total |-> 0,
     touchedN |-> 0, completedN |-> 0, failedN |-> 0,
     claims |-> {}, invoked |-> {},
     touch |-> {}, ok |-> {}, fail |-> {},
     seq |-> 0, exp |-> [k \in Keys |-> 0],
     idx |-> {}, cnt |-> [s \in Statuses |-> 0]]

\* HINCRBY on kafka_batch:counts, and one unit moved between two statuses.
Bump(cnt, status, n) == [cnt EXCEPT ![status] = @ + n]
Recount(cnt, from, to) == Bump(Bump(cnt, from, -1), to, 1)

\* The deadlines after the keys ks were given one.
Arm(exp, ks, deadline) == [k \in Keys |-> IF k \in ks THEN deadline ELSE exp[k]]

\* The keys that exist.
Present(exp) == {k \in Keys : exp[k] # 0}

-----------------------------------------------------------------------------
(* Creating and filling a batch *)

\* createBatchLua: the hash only; the indexes follow in a pipeline of their own.
CreateBatch(b, sealed, now) ==
    [b EXCEPT !.status = "running", !.sealed = sealed,
              !.exp = Arm(@, {"hash"}, now + TTL)]

\* The pipeline CreateBatch sends after its script.
IndexBatch(b) ==
    [b EXCEPT !.idx = @ \cup {"running"}, !.cnt = Bump(@, "running", 1)]

\* Return codes 0, 2 and 3 of addJobsLua.
Closed(b) ==
    \/ ~Live(b)
    \/ b.status \in Terminal \cup {"cancelled"}
    \/ "any" \in b.claims

\* A rollback also moves the allocator back.
FaultyAddJobs(b, n, now) ==
    [b EXCEPT !.total = @ + n, !.seq = @ + n,
              !.exp = Arm(@, {"hash", "seq"}, now + TTL)]

\* addJobsLua on a batch that is not Closed; n is negative for a rollback.
AddJobs(b, n, now) ==
    [b EXCEPT !.total = @ + n,
              !.seq = IF n > 0 THEN @ + n ELSE @,
              !.exp = Arm(@, IF n > 0 THEN {"hash", "seq"} ELSE {"hash"}, now + TTL)]

\* The seqs AddJobs hands to its caller.
Window(b, n) == (b.seq + 1)..(b.seq + n)

-----------------------------------------------------------------------------
(* Terminal status and callback claims, shared by batchDoneJobLua and      *)
(* sealBatchLua.                                                           *)

\* Failures count towards success.
FaultyVerdict(b) ==
    IF b.completedN + b.failedN >= b.total THEN "success" ELSE "none"

Verdict(b) ==
    CASE b.completedN >= b.total             -> "success"
      [] b.completedN < b.total /\ b.completedN + b.failedN >= b.total -> "complete"
      [] OTHER                               -> "none"

\* on_complete is due one job early.
FaultyDue(b, verdict) ==
    {k \in Kinds : \/ k = "success"  /\ verdict = "success"
                   \/ k = "complete" /\ (verdict # "none" \/ b.touchedN + 1 >= b.total)}

\* The kinds of callback that are due: on_complete once every job was touched.
Due(b, verdict) ==
    {k \in Kinds : \/ k = "success"  /\ verdict = "success"
                   \/ k = "complete" /\ (verdict # "none" \/ b.touchedN >= b.total)}

\* The HSETNXs a script wins, and so the callbacks its caller must dispatch.
Granted(b, kinds) == kinds \ b.claims

\* The early on_complete is handed out without being stamped.
FaultyClaim(b, kinds) ==
    IF b.status = "running" THEN b ELSE [b EXCEPT !.claims = @ \cup kinds \cup {"any"}]

Claim(b, kinds) ==
    [b EXCEPT !.claims = @ \cup kinds \cup
                  (IF "complete" \in Granted(b, kinds) THEN {"any"} ELSE {})]

\* A batch that is no longer running is finished again.
FaultyFinish(b, verdict) ==
    IF verdict = "none" THEN b
    ELSE [b EXCEPT !.status = verdict,
                   !.idx = (@ \ {"running"}) \cup {"done"},
                   !.cnt = Recount(@, "running", verdict)]

\* A running batch reaches its terminal status.
Finish(b, verdict) ==
    IF b.status = "running" /\ verdict # "none"
    THEN [b EXCEPT !.status = verdict,
                   !.idx = (@ \ {"running"}) \cup {"done"},
                   !.cnt = Recount(@, "running", verdict)]
    ELSE b

\* EXPIRE on the keys ks; a no-op on a key that does not exist.
Rearm(b, ks, deadline) ==
    [b EXCEPT !.exp = Arm(@, ks \cap Present(@), deadline)]

-----------------------------------------------------------------------------
(* batchDoneJobLua *)

\* Everything the script answers {0, 'duplicate'} to, the late-event guard
\* included.
Duplicate(b, seq, op) ==
    \/ b.status = "cancelled"
    \/ b.status \in Terminal /\ b.exp["touch"] = 0
    \/ /\ seq \in b.touch
       /\ \/ op = "executed"
          \/ op = "success" /\ seq \in b.ok
          \/ op = "failed" /\ seq \in b.ok \cup b.fail

\* A job that fails and later succeeds is added to both counts.
FaultyCounted(b, seq, op, now) ==
    LET okNew   == op = "success" /\ seq \notin b.ok
        failNew == op = "failed" /\ seq \notin b.ok \cup b.fail
    IN  [b EXCEPT !.touch = @ \cup {seq},
                  !.touchedN = IF seq \notin b.touch THEN @ + 1 ELSE @,
                  !.ok = IF okNew THEN @ \cup {seq} ELSE @,
                  !.completedN = IF okNew THEN @ + 1 ELSE @,
                  !.fail = IF failNew THEN @ \cup {seq} ELSE @,
                  !.failedN = IF failNew THEN @ + 1 ELSE @]

\* A success always takes one off the failures.
FaultySwap(b, seq, op, now) ==
    LET okNew == op = "success" /\ seq \notin b.ok
    IN  [b EXCEPT !.touch = @ \cup {seq},
                  !.ok = IF okNew THEN @ \cup {seq} ELSE @,
                  !.touchedN = IF seq \notin b.touch THEN @ + 1 ELSE @,
                  !.completedN = IF okNew THEN @ + 1 ELSE @,
                  !.fail = IF op = "failed" /\ seq \notin b.ok THEN @ \cup {seq} ELSE @ \ {seq},
                  !.failedN = IF okNew THEN @ - 1
                              ELSE IF op = "failed" /\ seq \notin b.ok \cup b.fail
                              THEN @ + 1 ELSE @]

\* The bits an event sets, the counters that follow them, and the EXPIREs of
\* the keys it wrote.  A failure that later succeeds is moved, not added.
Counted(b, seq, op, now) ==
    LET touchNew == seq \notin b.touch
        okNew    == op = "success" /\ seq \notin b.ok
        failNew  == op = "failed" /\ seq \notin b.ok \cup b.fail
        moved    == okNew /\ seq \in b.fail
        written  == {k \in Keys : \/ k = "hash"
                                  \/ k = "touch" /\ touchNew
                                  \/ k = "ok" /\ okNew
                                  \/ k = "fail" /\ failNew}
        effTTL   == IF b.status \in Terminal THEN FinishedTTL ELSE TTL
    IN  [b EXCEPT !.touch = @ \cup {seq},
                  !.touchedN = IF touchNew THEN @ + 1 ELSE @,
                  !.ok = IF okNew THEN @ \cup {seq} ELSE @,
                  !.completedN = IF okNew THEN @ + 1 ELSE @,
                  !.fail = IF failNew THEN @ \cup {seq} ELSE IF moved THEN @ \ {seq} ELSE @,
                  !.failedN = IF failNew THEN @ + 1 ELSE IF moved THEN @ - 1 ELSE @,
                  !.exp = Arm(@, written, now + effTTL)]

\* The gate is open: the batch is sealed and has jobs.
Decidable(b) == b.sealed /\ b.total >= 1

\* What follows the counting: terminal status and retention, then the claims.
Settled(b, now) ==
    LET verdict == Verdict(b)
        done    == Finish(b, verdict)
        kept    == IF done.status # b.status THEN Rearm(done, Keys, now + FinishedTTL)
                                             ELSE done
    IN  IF Decidable(b) THEN Claim(kept, Due(b, verdict)) ELSE b

BatchDoneJob(b, seq, op, now) ==
    IF ~Live(b) \/ Duplicate(b, seq, op) THEN b ELSE Settled(Counted(b, seq, op, now), now)

\* Return codes 1 and 3: the kinds the caller is now alone to dispatch.
DoneJobGrants(b, seq, op, now) ==
    LET c == Counted(b, seq, op, now)
    IN  IF Live(b) /\ ~Duplicate(b, seq, op) /\ Decidable(c)
        THEN Granted(c, Due(c, Verdict(c))) ELSE {}

-----------------------------------------------------------------------------
(* sealBatchLua *)

\* locked_at, the EXPIREs, and the SETBITs that pre-size the three bitmaps by
\* writing a 0 at bit index total, which is the bit of seq total + 1.
Locked(b, now) ==
    LET sized == IF b.total > 0 THEN Bitmaps ELSE {}
        bit   == IF b.total > 0 THEN {b.total + 1} ELSE {}
    IN  [b EXCEPT !.sealed = TRUE,
                  !.touch = @ \ bit, !.ok = @ \ bit, !.fail = @ \ bit,
                  !.exp = Arm(@, {"hash"} \cup sized, now + TTL)]

SealVerdict(b) == IF b.total = 0 THEN "success" ELSE Verdict(b)

SealBatch(b, now) ==
    LET l == Locked(b, now)
    IN  CASE ~Live(b)             -> b
          [] b.status = "running" -> Claim(Finish(l, SealVerdict(l)), Due(l, SealVerdict(l)))
          [] OTHER                -> l

SealGrants(b) ==
    IF b.status = "running" THEN Granted(b, Due(b, SealVerdict(b))) ELSE {}

-----------------------------------------------------------------------------
(* The other scripts *)

\* updateStatusLua with new status 'cancelled' (CancelBatch).
CancelBatch(b) ==
    IF b.status # "running" THEN b
    ELSE [b EXCEPT !.status = "cancelled",
                   !.idx = (@ \ {"running"}) \cup {"cancelled"},
                   !.cnt = Recount(@, "running", "cancelled")]

\* claimCallbackLua: the right to dispatch a callback nobody preclaimed.
ClaimWins(b, kind) == Live(b) /\ kind \notin b.claims

ClaimCallback(b, kind) ==
    IF ClaimWins(b, kind)
    THEN [b EXCEPT !.claims = @ \cup {kind, "any"}, !.idx = @ \ {"done"}]
    ELSE b

\* invokeCallbackLua: the right to invoke; a vanished hash lets everyone through.
InvokeWins(b, kind) == Live(b) => kind \notin b.invoked

\* The marker is tested but not written.
FaultyInvokeCallback(b, kind) == b

InvokeCallback(b, kind) ==
    IF Live(b) THEN [b EXCEPT !.invoked = @ \cup {kind}] ELSE b

\* markFinishedIfRunningLua: the reconciler's transition, without claims.
MarkFinishedIfRunning(b, outcome) == Finish(b, outcome)

\* Redis dropping the keys whose deadline has passed.
Expire(b, now) ==
    LET gone == {k \in Present(b.exp) : b.exp[k] <= now}
        kept == [b EXCEPT !.touch = IF "touch" \in gone THEN {} ELSE @,
                          !.ok = IF "ok" \in gone THEN {} ELSE @,
                          !.fail = IF "fail" \in gone THEN {} ELSE @,
                          !.seq = IF "seq" \in gone THEN 0 ELSE @,
                          !.exp = Arm(@, gone, 0)]
    IN  IF "hash" \notin gone THEN kept
        ELSE [kept EXCEPT !.status = "none", !.sealed = FALSE, !.total = 0,
                          !.touchedN = 0, !.completedN = 0, !.failedN = 0,
                          !.claims = {}, !.invoked = {}]

=============================================================================
