-------------------------- MODULE BatchLedgerProofs --------------------------
(***************************************************************************)
(* Proofs about the batch ledger, for every number of jobs, every push     *)
(* size, every retention and every length of a run.                        *)
(***************************************************************************)
EXTENDS BatchLedger, FiniteSetTheorems, TLAPS

-----------------------------------------------------------------------------
(* What the scripts do to a ledger's type *)

\* Deadlines stay deadlines.
LEMMA ArmType ==
    ASSUME NEW exp \in [Keys -> Nat], NEW ks, NEW d \in Nat
    PROVE  Arm(exp, ks, d) \in [Keys -> Nat]
  BY Zenon DEF Arm

\* Counts stay counts.
LEMMA BumpType ==
    ASSUME NEW cnt \in [Statuses -> Int], NEW st \in Statuses, NEW n \in Int
    PROVE  Bump(cnt, st, n) \in [Statuses -> Int]
  BY DEF Bump

\* Moving a unit from one status to another keeps the counts counts (updateStatusLua).
LEMMA RecountType ==
    ASSUME NEW cnt \in [Statuses -> Int], NEW from \in Statuses, NEW to \in Statuses
    PROVE  Recount(cnt, from, to) \in [Statuses -> Int]
  <1>1. Bump(cnt, from, -1) \in [Statuses -> Int]
    BY BumpType
  <1>2. Recount(cnt, from, to) = Bump(Bump(cnt, from, -1), to, 1)
    BY Zenon DEF Recount
  <1> QED
    BY <1>1, <1>2, BumpType

\* The retentions are positive numbers of ticks.
LEMMA Retention == TTL \in Nat /\ FinishedTTL \in Nat
  BY RetentionAssumption

\* The scripts that create and fill a batch keep the keys well formed.
LEMMA FillType ==
    ASSUME NEW l \in Ledger, NEW t \in Nat, NEW sealed \in BOOLEAN, NEW n \in Int
    PROVE  /\ CreateBatch(l, sealed, t) \in Ledger
           /\ IndexBatch(l) \in Ledger
           /\ AddJobs(l, n, t) \in Ledger
  <1>0. l.exp \in [Keys -> Nat] /\ l.cnt \in [Statuses -> Int] /\ t + TTL \in Nat
    BY Retention DEF Ledger
  <1>1. \A ks : Arm(l.exp, ks, t + TTL) \in [Keys -> Nat]
    BY <1>0, ArmType, Zenon
  <1>2. CreateBatch(l, sealed, t) \in Ledger
    BY <1>1, Zenon DEF CreateBatch, Ledger, Statuses
  <1>3. IndexBatch(l) \in Ledger
    <2>1. Bump(l.cnt, "running", 1) \in [Statuses -> Int]
      BY <1>0, BumpType DEF Statuses
    <2> QED
      BY <2>1, Zenon DEF IndexBatch, Ledger, Indexes
  <1>4. AddJobs(l, n, t) \in Ledger
    <2> DEFINE ks == IF n > 0 THEN {"hash", "seq"} ELSE {"hash"}
               sq == IF n > 0 THEN l.seq + n ELSE l.seq
    <2>1. AddJobs(l, n, t) = [l EXCEPT !.total = l.total + n, !.seq = sq,
                                       !.exp = Arm(l.exp, ks, t + TTL)]
      BY Zenon DEF AddJobs, Ledger
    <2>2. sq \in Nat /\ l.total + n \in Int
      BY DEF Ledger
    <2>3. Arm(l.exp, ks, t + TTL) \in [Keys -> Nat]
      BY <1>1, Zenon
    <2> HIDE DEF ks, sq
    <2>4. [l EXCEPT !.total = l.total + n, !.seq = sq] \in Ledger
      BY <2>2, Zenon DEF Ledger
    <2>5. [[l EXCEPT !.total = l.total + n, !.seq = sq] EXCEPT !.exp = Arm(l.exp, ks, t + TTL)]
            \in Ledger
      BY <2>3, <2>4, Zenon DEF Ledger
    <2>6. AddJobs(l, n, t) = [[l EXCEPT !.total = l.total + n, !.seq = sq]
                                 EXCEPT !.exp = Arm(l.exp, ks, t + TTL)]
      BY <2>1, Zenon DEF Ledger
    <2> QED
      BY <2>5, <2>6, Zenon
  <1> QED
    BY <1>2, <1>3, <1>4, Zenon

\* Claiming, finishing and re-arming keep the keys well formed.
LEMMA ClaimType ==
    ASSUME NEW l \in Ledger, NEW kinds \in SUBSET Kinds
    PROVE  Claim(l, kinds) \in Ledger
  BY Zenon DEF Claim, Granted, Ledger, Kinds

\* Finishing keeps the keys well formed.
LEMMA FinishType ==
    ASSUME NEW l \in Ledger, NEW v \in Terminal \cup {"none"}
    PROVE  Finish(l, v) \in Ledger
  <1>1. CASE v = "none"
    BY <1>1, Zenon DEF Finish
  <1>2. CASE v \in Terminal
    <2>1. v \in Statuses
      BY <1>2, Zenon DEF Statuses
    <2>2. Recount(l.cnt, "running", v) \in [Statuses -> Int]
      BY <2>1, RecountType, Zenon DEF Statuses, Ledger
    <2> QED
      BY <2>1, <2>2, Zenon DEF Finish, Ledger, Indexes
  <1> QED
    BY <1>1, <1>2, Zenon

\* Re-arming the deadlines of the keys that exist keeps them well formed.
LEMMA RearmType ==
    ASSUME NEW l \in Ledger, NEW ks, NEW t \in Nat
    PROVE  Rearm(l, ks, t) \in Ledger
  <1>1. Arm(l.exp, ks \cap Present(l.exp), t) \in [Keys -> Nat]
    BY ArmType, Zenon DEF Ledger
  <1> QED
    BY <1>1, Zenon DEF Rearm, Ledger

\* Counting an event and locking a batch keep the keys well formed.
LEMMA CountType ==
    ASSUME NEW l \in Ledger, NEW t \in Nat, NEW s \in Nat, NEW op \in Ops
    PROVE  /\ Counted(l, s, op, t) \in Ledger
           /\ Locked(l, t) \in Ledger
  <1>0. /\ l.exp \in [Keys -> Nat]
        /\ t + TTL \in Nat /\ t + FinishedTTL \in Nat
    BY Retention DEF Ledger
  <1>1. \A ks : /\ Arm(l.exp, ks, t + TTL) \in [Keys -> Nat]
                /\ Arm(l.exp, ks, t + FinishedTTL) \in [Keys -> Nat]
    BY <1>0, ArmType, Zenon
  <1>2. Counted(l, s, op, t) \in Ledger
    <2> DEFINE touchNew == s \notin l.touch
               okNew    == op = "success" /\ s \notin l.ok
               failNew  == op = "failed" /\ s \notin l.ok \cup l.fail
               moved    == okNew /\ s \in l.fail
               written  == {k \in Keys : \/ k = "hash"
                                         \/ k = "touch" /\ touchNew
                                         \/ k = "ok" /\ okNew
                                         \/ k = "fail" /\ failNew}
               effTTL   == IF l.status \in Terminal THEN FinishedTTL ELSE TTL
               tn == IF touchNew THEN l.touchedN + 1 ELSE l.touchedN
               ok == IF okNew THEN l.ok \cup {s} ELSE l.ok
               cn == IF okNew THEN l.completedN + 1 ELSE l.completedN
               fl == IF failNew THEN l.fail \cup {s}
                                ELSE IF moved THEN l.fail \ {s} ELSE l.fail
               fn == IF failNew THEN l.failedN + 1
                                ELSE IF moved THEN l.failedN - 1 ELSE l.failedN
               ex == Arm(l.exp, written, t + effTTL)
    <2>1. Counted(l, s, op, t) =
            [l EXCEPT !.touch = l.touch \cup {s}, !.touchedN = tn, !.ok = ok,
                      !.completedN = cn, !.fail = fl, !.failedN = fn, !.exp = ex]
      BY Zenon DEF Counted
    <2>2. /\ l.touch \cup {s} \in SUBSET Nat
          /\ ok \in SUBSET Nat /\ fl \in SUBSET Nat
      BY Zenon DEF Ledger
    <2>3. tn \in Int /\ cn \in Int /\ fn \in Int
      BY DEF Ledger
    <2>4. ex \in [Keys -> Nat]
      <3>1. effTTL \in Nat
        BY Retention, Zenon
      <3> HIDE DEF effTTL, written
      <3> QED
        BY <1>0, <3>1, ArmType
    <2> DEFINE half == [l EXCEPT !.touch = l.touch \cup {s}, !.touchedN = tn,
                                 !.ok = ok, !.completedN = cn]
    <2> HIDE DEF tn, ok, cn, fl, fn, ex
    <2>5. half \in Ledger
      BY <2>2, <2>3, Zenon DEF Ledger
    <2>6. Counted(l, s, op, t) = [half EXCEPT !.fail = fl, !.failedN = fn, !.exp = ex]
      BY <2>1, Zenon DEF Ledger
    <2> HIDE DEF half
    <2> QED
      <3>1. [half EXCEPT !.fail = fl, !.failedN = fn, !.exp = ex] \in Ledger
        BY <2>2, <2>3, <2>4, <2>5, Zenon DEF Ledger
      <3> QED
        BY <2>6, <3>1, Zenon
  <1>3. Locked(l, t) \in Ledger
    <2> DEFINE bit == IF l.total > 0 THEN {l.total + 1} ELSE {}
               ex == Arm(l.exp, {"hash"} \cup (IF l.total > 0 THEN Bitmaps ELSE {}), t + TTL)
               bits == [l EXCEPT !.touch = l.touch \ bit, !.ok = l.ok \ bit,
                                 !.fail = l.fail \ bit]
    <2>1. Locked(l, t) = [bits EXCEPT !.sealed = TRUE, !.exp = ex]
      BY Zenon DEF Locked, Ledger
    <2>2. ex \in [Keys -> Nat]
      BY <1>1, Zenon
    <2> HIDE DEF bit, ex
    <2>3. bits \in Ledger
      BY Zenon DEF Ledger
    <2> HIDE DEF bits
    <2>4. [bits EXCEPT !.sealed = TRUE, !.exp = ex] \in Ledger
      BY <2>2, <2>3, Zenon DEF Ledger
    <2> QED
      BY <2>1, <2>4, Zenon
  <1> QED
    BY <1>2, <1>3, Zenon

\* What the verdicts and the due callbacks range over.
LEMMA VerdictType ==
    ASSUME NEW l \in Ledger, NEW v
    PROVE  /\ Verdict(l) \in Terminal \cup {"none"}
           /\ SealVerdict(l) \in Terminal \cup {"none"}
           /\ Due(l, v) \in SUBSET Kinds
  <1>1. Verdict(l) \in Terminal \cup {"none"}
    BY Zenon DEF Verdict, Terminal, Ledger
  <1> QED
    BY <1>1, Zenon DEF SealVerdict, Due, Terminal

\* Every script keeps the keys well formed.
LEMMA ScriptType ==
    ASSUME NEW l \in Ledger, NEW t \in Nat, NEW s \in Nat, NEW op \in Ops
    PROVE  /\ BatchDoneJob(l, s, op, t) \in Ledger
           /\ SealBatch(l, t) \in Ledger
           /\ CancelBatch(l) \in Ledger
           /\ Expire(l, t) \in Ledger
  <1>1. TTL \in Nat /\ FinishedTTL \in Nat
    BY RetentionAssumption
  <1>2. BatchDoneJob(l, s, op, t) \in Ledger
    <2> DEFINE c == Counted(l, s, op, t)
    <2>1. c \in Ledger
      BY CountType, Zenon
    <2>2. Settled(c, t) \in Ledger
      <3> HIDE DEF c
      <3> DEFINE v == Verdict(c)
                 d == Finish(c, v)
                 k == IF d.status # c.status THEN Rearm(d, Keys, t + FinishedTTL) ELSE d
      <3>1. v \in Terminal \cup {"none"} /\ Due(c, v) \in SUBSET Kinds
        BY <2>1, VerdictType, Zenon
      <3>2. d \in Ledger
        BY <2>1, <3>1, FinishType, Zenon
      <3>3. k \in Ledger
        <4>1. t + FinishedTTL \in Nat
          BY <1>1
        <4> HIDE DEF d
        <4>2. Rearm(d, Keys, t + FinishedTTL) \in Ledger
          BY <4>1, <3>2, RearmType, Zenon
        <4> QED
          BY <3>2, <4>2, Zenon
      <3>4. Claim(k, Due(c, v)) \in Ledger
        <4> HIDE DEF k, v
        <4> QED
          BY <3>1, <3>3, ClaimType, Zenon
      <3> QED
        BY <2>1, <3>4, Zenon DEF Settled
    <2> QED
      BY <2>2, Zenon DEF BatchDoneJob
  <1>3. SealBatch(l, t) \in Ledger
    <2> DEFINE k == Locked(l, t)
    <2>1. k \in Ledger
      BY CountType, Zenon
    <2> HIDE DEF k
    <2>2. Finish(k, SealVerdict(k)) \in Ledger
      BY <2>1, VerdictType, FinishType, Zenon
    <2>3. Claim(Finish(k, SealVerdict(k)), Due(k, SealVerdict(k))) \in Ledger
      BY <2>1, <2>2, VerdictType, ClaimType, Zenon
    <2> QED
      BY <2>1, <2>3, Zenon DEF SealBatch, k
  <1>4. CancelBatch(l) \in Ledger
    <2>1. Recount(l.cnt, "running", "cancelled") \in [Statuses -> Int]
      BY RecountType, Zenon DEF Statuses, Ledger
    <2> QED
      BY <2>1, Zenon DEF CancelBatch, Ledger, Statuses, Indexes
  <1>5. Expire(l, t) \in Ledger
    <2>1. \A ks : Arm(l.exp, ks, 0) \in [Keys -> Nat]
      BY ArmType, Zenon DEF Ledger
    <2> DEFINE gone == {k \in Present(l.exp) : l.exp[k] <= t}
               tc == IF "touch" \in gone THEN {} ELSE l.touch
               ok == IF "ok" \in gone THEN {} ELSE l.ok
               fl == IF "fail" \in gone THEN {} ELSE l.fail
               sq == IF "seq" \in gone THEN 0 ELSE l.seq
               ex == Arm(l.exp, gone, 0)
               kept == [l EXCEPT !.touch = tc, !.ok = ok, !.fail = fl, !.seq = sq, !.exp = ex]
    <2>2. /\ tc \in SUBSET Nat /\ ok \in SUBSET Nat /\ fl \in SUBSET Nat
          /\ sq \in Nat /\ ex \in [Keys -> Nat]
      BY <2>1, Zenon DEF Ledger
    <2>3. kept \in Ledger
      <3> HIDE DEF tc, ok, fl, sq, ex
      <3> QED
        BY <2>2, Zenon DEF Ledger
    <2>4. Expire(l, t) =
            IF "hash" \notin gone THEN kept
            ELSE [kept EXCEPT !.status = "none", !.sealed = FALSE, !.total = 0,
                              !.touchedN = 0, !.completedN = 0, !.failedN = 0,
                              !.claims = {}, !.invoked = {}]
      BY Zenon DEF Expire
    <2> HIDE DEF gone, kept
    <2> DEFINE zero == 0
               half == [kept EXCEPT !.status = "none", !.sealed = FALSE, !.total = zero,
                                    !.touchedN = zero]
    <2>z. zero \in Int
      OBVIOUS
    <2> HIDE DEF zero
    <2>5. half \in Ledger
      BY <2>3, <2>z, Zenon DEF Ledger
    <2>6. [half EXCEPT !.completedN = zero, !.failedN = zero, !.claims = {}, !.invoked = {}]
            \in Ledger
      <3> HIDE DEF half
      <3> QED
        BY <2>5, <2>z, Zenon DEF Ledger
    <2>7. Expire(l, t) =
            IF "hash" \notin gone THEN kept
            ELSE [half EXCEPT !.completedN = zero, !.failedN = zero, !.claims = {}, !.invoked = {}]
      BY <2>3, <2>4, Zenon DEF zero, Ledger
    <2> HIDE DEF half
    <2> QED
      BY <2>3, <2>6, <2>7, Zenon
  <1> QED
    BY <1>2, <1>3, <1>4, <1>5, Zenon

-----------------------------------------------------------------------------
(* What the scripts do to the fields the safety properties speak of *)

\* The fields that claims, finishing and re-arming leave alone.
SameCounts(l, r) ==
    /\ r.sealed = l.sealed /\ r.total = l.total /\ r.seq = l.seq
    /\ r.touchedN = l.touchedN /\ r.completedN = l.completedN /\ r.failedN = l.failedN
    /\ r.touch = l.touch /\ r.ok = l.ok /\ r.fail = l.fail

\* Claiming touches no counter, bit, status or index; complete also stamps the
\* legacy claim.
LEMMA ClaimEffect ==
    ASSUME NEW l \in Ledger, NEW kinds \in SUBSET Kinds
    PROVE  /\ SameCounts(l, Claim(l, kinds))
           /\ Claim(l, kinds).status = l.status
           /\ Claim(l, kinds).cnt = l.cnt /\ Claim(l, kinds).idx = l.idx
           /\ Claim(l, kinds).claims =
                 l.claims \cup kinds \cup (IF "complete" \in kinds \ l.claims THEN {"any"} ELSE {})
  BY Zenon DEF Claim, Granted, SameCounts, Ledger

\* Finishing moves a running batch to the verdict, its unit and its index entry
\* with it, and touches nothing else.
LEMMA FinishEffect ==
    ASSUME NEW l \in Ledger, NEW v \in Terminal \cup {"none"}
    PROVE  /\ SameCounts(l, Finish(l, v))
           /\ Finish(l, v).claims = l.claims
           /\ Finish(l, v).status =
                 IF l.status = "running" /\ v # "none" THEN v ELSE l.status
           /\ Finish(l, v).cnt =
                 IF l.status = "running" /\ v # "none" THEN Recount(l.cnt, "running", v) ELSE l.cnt
           /\ Finish(l, v).idx =
                 IF l.status = "running" /\ v # "none" THEN (l.idx \ {"running"}) \cup {"done"}
                                                       ELSE l.idx
  BY Zenon DEF Finish, SameCounts, Ledger

\* Re-arming touches deadlines only.
LEMMA RearmEffect ==
    ASSUME NEW l \in Ledger, NEW ks, NEW t \in Nat
    PROVE  /\ SameCounts(l, Rearm(l, ks, t))
           /\ Rearm(l, ks, t).claims = l.claims /\ Rearm(l, ks, t).status = l.status
           /\ Rearm(l, ks, t).cnt = l.cnt /\ Rearm(l, ks, t).idx = l.idx
  BY Zenon DEF Rearm, SameCounts, Ledger

\* What an applied event does once its bits are counted: it touches no counter,
\* and a callback is claimed exactly when it was claimed before or is granted.
LEMMA SettledEffect ==
    ASSUME NEW c \in Ledger, NEW t \in Nat
    PROVE  LET v == Verdict(c)
               r == Settled(c, t)
               granted == IF Decidable(c) THEN Granted(c, Due(c, v)) ELSE {}
               ends == Decidable(c) /\ c.status = "running" /\ v # "none"
           IN  /\ SameCounts(c, r)
               /\ r.claims = c.claims \cup granted
                                \cup (IF "complete" \in granted THEN {"any"} ELSE {})
               /\ r.status = IF ends THEN v ELSE c.status
               /\ r.cnt = IF ends THEN Recount(c.cnt, "running", v) ELSE c.cnt
               /\ r.idx = IF ends THEN (c.idx \ {"running"}) \cup {"done"} ELSE c.idx
  <1> DEFINE v == Verdict(c)
             d == Finish(c, v)
             k == IF d.status # c.status THEN Rearm(d, Keys, t + FinishedTTL) ELSE d
             kinds == Due(c, v)
  <1>1. v \in Terminal \cup {"none"} /\ kinds \in SUBSET Kinds
    BY VerdictType, Zenon
  <1>2. d \in Ledger
    BY <1>1, FinishType, Zenon
  <1>3. /\ SameCounts(c, d) /\ d.claims = c.claims
        /\ d.status = IF c.status = "running" /\ v # "none" THEN v ELSE c.status
        /\ d.cnt = IF c.status = "running" /\ v # "none"
                   THEN Recount(c.cnt, "running", v) ELSE c.cnt
        /\ d.idx = IF c.status = "running" /\ v # "none"
                   THEN (c.idx \ {"running"}) \cup {"done"} ELSE c.idx
    <2> HIDE DEF v
    <2> QED
      BY <1>1, FinishEffect, Zenon
  <1>4. t + FinishedTTL \in Nat
    BY Retention
  <1>5. /\ k \in Ledger /\ SameCounts(d, k) /\ k.claims = d.claims /\ k.status = d.status
        /\ k.cnt = d.cnt /\ k.idx = d.idx
    <2> HIDE DEF d
    <2>1. SameCounts(d, d)
      BY Zenon DEF SameCounts
    <2> QED
      BY <1>2, <1>4, <2>1, RearmType, RearmEffect
  <1>6. /\ SameCounts(k, Claim(k, kinds))
        /\ Claim(k, kinds).status = k.status
        /\ Claim(k, kinds).cnt = k.cnt /\ Claim(k, kinds).idx = k.idx
        /\ Claim(k, kinds).claims =
              k.claims \cup kinds \cup (IF "complete" \in kinds \ k.claims THEN {"any"} ELSE {})
    <2> HIDE DEF k, kinds
    <2> QED
      BY <1>1, <1>5, ClaimEffect, Zenon
  <1>7. Settled(c, t) = IF Decidable(c) THEN Claim(k, kinds) ELSE c
    BY Zenon DEF Settled
  <1> HIDE DEF v, d, k, kinds
  <1>8. CASE Decidable(c)
    <2>1. Settled(c, t) = Claim(k, kinds)
      BY <1>7, <1>8, Zenon
    <2>2. SameCounts(c, Settled(c, t))
      BY <2>1, <1>3, <1>5, <1>6, Zenon DEF SameCounts
    <2>3. Settled(c, t).claims = c.claims \cup (kinds \ c.claims)
             \cup (IF "complete" \in kinds \ c.claims THEN {"any"} ELSE {})
      BY <2>1, <1>3, <1>5, <1>6, Zenon
    <2> QED
      BY <1>8, <2>1, <2>2, <2>3, <1>3, <1>5, <1>6, Zenon DEF Granted, v, kinds
  <1>9. CASE ~Decidable(c)
    BY <1>7, <1>9, Zenon DEF SameCounts
  <1> QED
    BY <1>8, <1>9, Zenon

\* Where a verdict v takes a running batch when it ends it, and that nothing moves otherwise.
Moves(l, r, v, ends) ==
    /\ ends => /\ r.status = v
               /\ r.cnt = Recount(l.cnt, "running", v)
               /\ r.idx = (l.idx \ {"running"}) \cup {"done"}
    /\ ~ends => r.status = l.status /\ r.cnt = l.cnt /\ r.idx = l.idx

\* A whole event: what is granted is what becomes claimed.
LEMMA DoneJobEffect ==
    ASSUME NEW l \in Ledger, NEW t \in Nat, NEW s \in Nat, NEW op \in Ops,
           Live(l), ~Duplicate(l, s, op)
    PROVE  LET c == Counted(l, s, op, t)
               v == Verdict(c)
               r == BatchDoneJob(l, s, op, t)
               granted == DoneJobGrants(l, s, op, t)
               ends == Decidable(c) /\ l.status = "running" /\ v # "none"
           IN  /\ SameCounts(c, r)
               /\ granted = IF Decidable(c) THEN Due(c, v) \ l.claims ELSE {}
               /\ r.claims = l.claims \cup granted
                                \cup (IF "complete" \in granted THEN {"any"} ELSE {})
               /\ Moves(l, r, v, ends)
  <1> DEFINE c == Counted(l, s, op, t)
             v == Verdict(c)
             granted == DoneJobGrants(l, s, op, t)
  <1>1. c \in Ledger
    BY CountType, Zenon
  <1>2. c.status = l.status /\ c.claims = l.claims /\ c.cnt = l.cnt /\ c.idx = l.idx
    BY Zenon DEF Counted, Ledger
  <1>3. BatchDoneJob(l, s, op, t) = Settled(c, t)
    BY Zenon DEF BatchDoneJob
  <1>4. granted = IF Decidable(c) THEN Granted(c, Due(c, v)) ELSE {}
    BY Zenon DEF DoneJobGrants
  <1> DEFINE ends == Decidable(c) /\ l.status = "running" /\ v # "none"
             r == BatchDoneJob(l, s, op, t)
  <1>5. granted = IF Decidable(c) THEN Due(c, v) \ l.claims ELSE {}
    BY <1>2, <1>4, Zenon DEF Granted
  <1> HIDE DEF c, v, granted, r
  <1>9. SameCounts(c, r)
    BY <1>1, <1>3, SettledEffect, Zenon DEF r
  <1>6. r.claims = l.claims \cup granted
                         \cup (IF "complete" \in granted THEN {"any"} ELSE {})
    <2>1. r = Settled(c, t)
      BY <1>3, Zenon DEF r
    <2> HIDE DEF r
    <2> DEFINE gr == IF Decidable(c) THEN Granted(c, Due(c, Verdict(c))) ELSE {}
    <2>2. r.claims = c.claims \cup gr \cup (IF "complete" \in gr THEN {"any"} ELSE {})
      BY <1>1, <2>1, SettledEffect, Zenon
    <2>3. granted = gr
      BY <1>4, Zenon DEF v
    <2> HIDE DEF gr
    <2> QED
      BY <1>2, <2>2, <2>3, Zenon
  <1>7. /\ r.status = IF ends THEN v ELSE l.status
        /\ r.cnt = IF ends THEN Recount(l.cnt, "running", v) ELSE l.cnt
        /\ r.idx = IF ends THEN (l.idx \ {"running"}) \cup {"done"} ELSE l.idx
    BY <1>1, <1>2, <1>3, SettledEffect DEF v, r
  <1>8. Moves(l, r, v, ends)
    BY <1>7, Zenon DEF Moves
  <1> HIDE DEF ends
  <1> QED
    BY <1>5, <1>6, <1>8, <1>9, Zenon DEF c, v, granted, r, ends

\* The bits a seal clears, and what locking leaves alone.
LEMMA LockedEffect ==
    ASSUME NEW l \in Ledger, NEW t \in Nat
    PROVE  LET k == Locked(l, t)
               bit == IF l.total > 0 THEN {l.total + 1} ELSE {}
           IN  /\ k.sealed = TRUE /\ k.total = l.total /\ k.seq = l.seq
               /\ k.status = l.status /\ k.claims = l.claims
               /\ k.cnt = l.cnt /\ k.idx = l.idx
               /\ k.touchedN = l.touchedN /\ k.completedN = l.completedN
               /\ k.failedN = l.failedN
               /\ k.touch = l.touch \ bit /\ k.ok = l.ok \ bit /\ k.fail = l.fail \ bit
  BY Zenon DEF Locked, Ledger

\* A whole seal.
LEMMA SealEffect ==
    ASSUME NEW l \in Ledger, NEW t \in Nat, Live(l)
    PROVE  LET k == Locked(l, t)
               v == SealVerdict(l)
               r == SealBatch(l, t)
               granted == SealGrants(l)
               ends == l.status = "running" /\ v # "none"
           IN  /\ SameCounts(k, r)
               /\ granted = IF l.status = "running" THEN Due(l, v) \ l.claims ELSE {}
               /\ r.claims = l.claims \cup granted
                                \cup (IF "complete" \in granted THEN {"any"} ELSE {})
               /\ r.status = IF ends THEN v ELSE l.status
               /\ r.cnt = IF ends THEN Recount(l.cnt, "running", v) ELSE l.cnt
               /\ r.idx = IF ends THEN (l.idx \ {"running"}) \cup {"done"} ELSE l.idx
  <1> DEFINE k == Locked(l, t)
             v == SealVerdict(l)
             granted == SealGrants(l)
  <1>1. k \in Ledger
    BY CountType, Zenon DEF Ops
  <1>2. /\ k.status = l.status /\ k.claims = l.claims /\ k.total = l.total
        /\ k.cnt = l.cnt /\ k.idx = l.idx
        /\ k.touchedN = l.touchedN /\ k.completedN = l.completedN /\ k.failedN = l.failedN
    BY LockedEffect, Zenon
  <1> HIDE DEF k
  <1>3. SealVerdict(k) = v /\ Due(k, v) = Due(l, v)
    BY <1>2 DEF SealVerdict, Verdict, Due
  <1>4. v \in Terminal \cup {"none"} /\ Due(l, v) \in SUBSET Kinds
    BY VerdictType, Zenon
  <1>5. granted = IF l.status = "running" THEN Due(l, v) \ l.claims ELSE {}
    BY Zenon DEF SealGrants, Granted
  <1> HIDE DEF v, granted
  <1>6. CASE l.status = "running"
    <2> DEFINE f == Finish(k, v)
    <2>1. SealBatch(l, t) = Claim(f, Due(l, v))
      BY <1>3, <1>6, Zenon DEF SealBatch, Live, k
    <2>2. f \in Ledger
      BY <1>1, <1>4, FinishType, Zenon
    <2>3. /\ SameCounts(k, f) /\ f.claims = l.claims
          /\ f.status = IF v # "none" THEN v ELSE l.status
          /\ f.cnt = IF v # "none" THEN Recount(l.cnt, "running", v) ELSE l.cnt
          /\ f.idx = IF v # "none" THEN (l.idx \ {"running"}) \cup {"done"} ELSE l.idx
      BY <1>1, <1>2, <1>4, <1>6, FinishEffect
    <2> HIDE DEF f
    <2> DEFINE r == Claim(f, Due(l, v))
    <2>4. /\ SameCounts(f, r) /\ r.status = f.status /\ r.cnt = f.cnt /\ r.idx = f.idx
          /\ r.claims = f.claims \cup Due(l, v) \cup
                           (IF "complete" \in Due(l, v) \ f.claims THEN {"any"} ELSE {})
      BY <1>4, <2>2, ClaimEffect, Zenon
    <2> HIDE DEF r
    <2>5. SameCounts(k, r)
      BY <2>3, <2>4, Zenon DEF SameCounts
    <2>6. r.claims = l.claims \cup granted
                      \cup (IF "complete" \in granted THEN {"any"} ELSE {})
      BY <1>5, <1>6, <2>3, <2>4, Zenon
    <2> QED
      BY <1>5, <1>6, <2>1, <2>3, <2>4, <2>5, <2>6, Zenon DEF v, granted, k, r
  <1>7. CASE l.status # "running"
    <2>1. SealBatch(l, t) = k
      BY <1>7, Zenon DEF SealBatch, Live, k
    <2>2. granted = {}
      BY <1>5, <1>7, Zenon
    <2> QED
      BY <1>2, <1>7, <2>1, <2>2, Zenon DEF SameCounts, v, granted, k
  <1> QED
    BY <1>6, <1>7, Zenon

\* Expiry: either the hash goes, and with it the batch, or only other keys do.
LEMMA ExpireEffect ==
    ASSUME NEW l \in Ledger, NEW t \in Nat, Live(l)
    PROVE  LET r == Expire(l, t)
           IN  /\ r.cnt = l.cnt /\ r.idx = l.idx
               /\ r.touch \subseteq l.touch /\ r.ok \subseteq l.ok /\ r.fail \subseteq l.fail
               /\ \/ /\ ~Live(r) /\ r.claims = {} /\ r.sealed = FALSE
                     /\ r.total = 0 /\ r.touchedN = 0 /\ r.completedN = 0 /\ r.failedN = 0
                  \/ /\ r.status = l.status /\ r.claims = l.claims /\ r.sealed = l.sealed
                     /\ r.total = l.total /\ r.touchedN = l.touchedN
                     /\ r.completedN = l.completedN /\ r.failedN = l.failedN
               /\ r.seq = l.seq \/ r.seq = 0
               /\ r.invoked \in {l.invoked, {}}
  <1> DEFINE gone == {k \in Present(l.exp) : l.exp[k] <= t}
             tc == IF "touch" \in gone THEN {} ELSE l.touch
             ok == IF "ok" \in gone THEN {} ELSE l.ok
             fl == IF "fail" \in gone THEN {} ELSE l.fail
             sq == IF "seq" \in gone THEN 0 ELSE l.seq
             ex == Arm(l.exp, gone, 0)
             kept == [l EXCEPT !.touch = tc, !.ok = ok, !.fail = fl, !.seq = sq, !.exp = ex]
  <1>1. Expire(l, t) =
          IF "hash" \notin gone THEN kept
          ELSE [kept EXCEPT !.status = "none", !.sealed = FALSE, !.total = 0,
                            !.touchedN = 0, !.completedN = 0, !.failedN = 0,
                            !.claims = {}, !.invoked = {}]
    BY Zenon DEF Expire
  <1>2. tc \subseteq l.touch /\ ok \subseteq l.ok /\ fl \subseteq l.fail /\ sq \in {l.seq, 0}
    BY Zenon
  <1> HIDE DEF gone, tc, ok, fl, sq, ex
  <1>3. CASE "hash" \notin gone
    BY <1>1, <1>2, <1>3 DEF Ledger
  <1>4. CASE "hash" \in gone
    BY <1>1, <1>2, <1>4 DEF Ledger, Live
  <1> QED
    BY <1>3, <1>4, Zenon

-----------------------------------------------------------------------------
(* Type correctness *)

\* The type invariant holds in every reachable state, for every batch size,
\* retention and sequence of pushes, seals, events, cancels and expiries.
THEOREM TypeCorrect == Spec => []TypeOK
  <1>1. Init => TypeOK
    <2>1. NoLedger \in Ledger
      BY DEF Ledger, NoLedger
    <2>2. Init => now \in 0..MaxTime /\ ambiguous \in Nat
      BY BoundsAssumption DEF Init
    <2>3. Init => grants \in [Kinds -> Nat]
      BY DEF Init
    <2> QED
      BY <2>1, <2>2, <2>3, Zenon DEF Init, TypeOK
  <1>2. TypeOK /\ [Next]_vars => TypeOK'
    <2> SUFFICES ASSUME TypeOK, [Next]_vars PROVE TypeOK'
      BY Zenon
    <2> USE DEF TypeOK
    <2>0. now \in Nat /\ (now + 1) \in Nat /\ Seqs \subseteq Nat
      BY BoundsAssumption DEF Seqs
    <2>1. ASSUME NEW sealed \in BOOLEAN, Create(sealed) PROVE TypeOK'
      <3>1. b' \in Ledger
        BY <2>0, <2>1, FillType DEF Create
      <3> QED
        BY <2>1, <3>1, Zenon DEF Create, clientVars, history
    <2>2. CASE Index
      BY <2>0, <2>2, FillType DEF Index, clientVars, history
    <2>3. ASSUME NEW n \in PushSizes, Reserve(n) PROVE TypeOK'
      <3>1. n \in Nat
        BY BoundsAssumption, Zenon
      <3>2. Window(b, n) \subseteq Seqs
        BY <2>3, <3>1, BoundsAssumption DEF Reserve, Window, Seqs, Ledger
      <3>3. b' \in Ledger
        BY <2>0, <2>3, <3>1, FillType DEF Reserve
      <3> QED
        BY <2>3, <3>2, <3>3, Zenon DEF Reserve, history
    <2>4. ASSUME NEW s \in Seqs, Produce(s) PROVE TypeOK'
      BY <2>4, Zenon DEF Produce, history
    <2>5. ASSUME NEW s \in Seqs, NEW durable \in BOOLEAN, RollBack(s, durable) PROVE TypeOK'
      <3>1. b' \in Ledger
        BY <2>0, <2>5, FillType DEF RollBack
      <3> QED
        BY <2>5, <3>1 DEF RollBack, history
    <2>6. CASE Seal
      <3>1. b' \in Ledger
        BY <2>0, <2>6, ScriptType, Zenon DEF Seal, Ops
      <3>2. grants' \in [Kinds -> Nat]
        BY <2>6 DEF Seal, Grant
      <3> QED
        BY <2>6, <3>1, <3>2, Zenon DEF Seal, clientVars
    <2>7. ASSUME NEW s \in Seqs, NEW op \in Ops, Event(s, op) PROVE TypeOK'
      <3>1. b' \in Ledger
        BY <2>0, <2>7, ScriptType, Zenon DEF Event
      <3>2. grants' \in [Kinds -> Nat]
        BY <2>7 DEF Event, Grant
      <3> QED
        BY <2>7, <3>1, <3>2, Zenon DEF Event, clientVars
    <2>8. CASE Cancel
      BY <2>0, <2>8, ScriptType, Zenon DEF Cancel, clientVars, history, Ops
    <2>9. CASE Tick
      <3>1. b' \in Ledger
        BY <2>0, <2>9, ScriptType, Zenon DEF Tick, Ops
      <3>2. now' \in 0..MaxTime
        BY <2>9, BoundsAssumption DEF Tick
      <3> QED
        BY <2>9, <3>1, <3>2, Zenon DEF Tick, clientVars
    <2>10. CASE UNCHANGED vars
      BY <2>10, Zenon DEF vars, clientVars, history
    <2> QED
      BY <2>1, <2>2, <2>3, <2>4, <2>5, <2>6, <2>7, <2>8, <2>9, <2>10, Zenon DEF Next
  <1> QED
    BY <1>1, <1>2, PTL DEF Spec

-----------------------------------------------------------------------------
(* Counts and indexes *)

\* Moving the one unit of a running batch to a terminal or cancelled status.
LEMMA RecountOne ==
    ASSUME NEW cnt \in [Statuses -> Int], NEW v \in Statuses, v # "running",
           \A s \in Statuses : cnt[s] = IF s = "running" THEN 1 ELSE 0
    PROVE  \A s \in Statuses : Recount(cnt, "running", v)[s] = IF s = v THEN 1 ELSE 0
  BY DEF Recount, Bump, Statuses

\* A batch that has its unit in the counts was created.
LEMMA CreatedOne ==
    ASSUME NEW cnt \in [Statuses -> Int], NEW v \in Statuses,
           \A s \in Statuses : cnt[s] = IF s = v THEN 1 ELSE 0
    PROVE  cnt # NoLedger.cnt
  BY DEF NoLedger

\* The counts follow the status, and a batch that is not indexed yet is untouched, in
\* every reachable state.
LEMMA CountsHold == Spec => []CountsInv
  <1>1. Init => CountsInv
    BY DEF Init, CountsInv, CountsMatch, Untouched, Created, NoLedger, Live
  <1>2. TypeOK /\ CountsInv /\ [Next]_vars => CountsInv'
    <2> SUFFICES ASSUME TypeOK, CountsInv, [Next]_vars PROVE CountsInv'
      BY Zenon
    <2>0. b \in Ledger /\ now \in Nat /\ (now + 1) \in Nat /\ Seqs \subseteq Nat
      BY BoundsAssumption DEF Seqs, TypeOK
    <2>a. ASSUME Created, b'.cnt = b.cnt, b'.idx = b.idx, b'.status \in {b.status, "none"}
          PROVE  CountsInv'
      BY <2>a, Zenon DEF CountsInv, CountsMatch, Created, Live
    <2>1. ASSUME NEW sealed \in BOOLEAN, Create(sealed) PROVE CountsInv'
      <3>1. ~Created /\ Untouched
        BY <2>1, Zenon DEF Create, Created, CountsInv
      <3> QED
        BY <2>0, <2>1, <3>1
       , Zenon DEF Create, CreateBatch, CountsInv, CountsMatch, Created, Untouched, clientVars, history, Ledger
    <2>2. CASE Index
      <3>1. ~Created /\ Untouched
        BY <2>2, Zenon DEF Index, CountsInv, CountsMatch, Statuses
      <3>2. b'.status = "running" /\ b'.cnt = Bump(b.cnt, "running", 1) /\ b'.idx = {"running"}
        BY <2>0, <2>2, <3>1, Zenon DEF Index, IndexBatch, Untouched, Ledger
      <3>3. \A s \in Statuses : b'.cnt[s] = IF s = "running" THEN 1 ELSE 0
        BY <2>0, <3>1, <3>2 DEF Created, NoLedger, Bump, Ledger, Statuses
      <3>4. b'.cnt \in [Statuses -> Int] /\ "running" \in Statuses
        <4>1. b.cnt \in [Statuses -> Int] /\ "running" \in Statuses
          BY <2>0, Zenon DEF Ledger, Statuses
        <4> QED
          BY <3>2, <4>1, BumpType
      <3> QED
        BY <3>2, <3>3, <3>4, CreatedOne, Zenon DEF CountsInv, CountsMatch, Created, Terminal
    <2>3. ASSUME NEW n \in PushSizes, Reserve(n) PROVE CountsInv'
      BY <2>0, <2>3, <2>a, Zenon DEF Reserve, AddJobs, Ledger
    <2>4. ASSUME NEW s \in Seqs, Produce(s) PROVE CountsInv'
      <3>1. Created
        BY <2>4, Zenon DEF Produce, CountsInv, Untouched
      <3> QED
        BY <2>4, <3>1, <2>a, Zenon DEF Produce
    <2>5. ASSUME NEW s \in Seqs, NEW durable \in BOOLEAN, RollBack(s, durable)
          PROVE  CountsInv'
      <3>1. Created
        BY <2>5, Zenon DEF RollBack, CountsInv, Untouched
      <3> QED
        BY <2>0, <2>5, <3>1, <2>a, Zenon DEF RollBack, AddJobs, Ledger
    <2>b. ASSUME Created, NEW v \in Statuses, b.status = "running", v # "running",
                 b'.status = v, b'.cnt = Recount(b.cnt, "running", v),
                 NEW ix \in Indexes, b'.idx = (b.idx \ {"running"}) \cup {ix},
                 ix = IF v \in Terminal THEN "done" ELSE v
          PROVE  CountsInv'
      <3>1. /\ \A s \in Statuses : b.cnt[s] = IF s = "running" THEN 1 ELSE 0
            /\ b.idx = {"running"}
        BY <2>b, Zenon DEF CountsInv, CountsMatch, Live, Terminal
      <3>2. \A s \in Statuses : b'.cnt[s] = IF s = v THEN 1 ELSE 0
        BY <2>0, <2>b, <3>1, RecountOne DEF Ledger
      <3>3. b'.cnt \in [Statuses -> Int]
        <4>1. b.cnt \in [Statuses -> Int] /\ "running" \in Statuses
          BY <2>0, Zenon DEF Ledger, Statuses
        <4>2. Recount(b.cnt, "running", v) \in [Statuses -> Int]
          BY <2>b, <4>1, RecountType, Zenon
        <4> QED
          BY <2>b, <4>2, Zenon
      <3>4. b'.idx = {IF b'.status \in Terminal THEN "done" ELSE b'.status}
        BY <2>b, <3>1, Zenon
      <3>5. b'.cnt # NoLedger.cnt
        BY <2>b, <3>2, <3>3, CreatedOne, Zenon
      <3>6. \A s \in Statuses : b'.cnt[s] = IF s = b'.status THEN 1 ELSE 0
        BY <2>b, <3>2, Zenon
      <3> QED
        BY <3>4, <3>5, <3>6, Zenon DEF CountsInv, CountsMatch, Created
    <2>6. CASE Seal
      <3>1. CASE ~Live(b)
        BY <2>6, <3>1, <2>a, Zenon DEF Seal, SealBatch, Live
      <3>2. CASE Live(b)
        <4> DEFINE v == SealVerdict(b)
                   ends == b.status = "running" /\ v # "none"
        <4>1. /\ b'.status = IF ends THEN v ELSE b.status
              /\ b'.cnt = IF ends THEN Recount(b.cnt, "running", v) ELSE b.cnt
              /\ b'.idx = IF ends THEN (b.idx \ {"running"}) \cup {"done"} ELSE b.idx
          BY <2>0, <2>6, <3>2, SealEffect, Zenon DEF Seal
        <4>2. v \in Terminal \cup {"none"}
          BY <2>0, VerdictType, Zenon
        <4> HIDE DEF v
        <4>3. CASE ends
          BY <2>6, <4>1, <4>2, <4>3, <2>b, Zenon DEF Seal, Statuses, Terminal, Indexes
        <4>4. CASE ~ends
          BY <2>6, <4>1, <4>4, <2>a, Zenon DEF Seal
        <4> QED
          BY <4>3, <4>4, Zenon
      <3> QED
        BY <3>1, <3>2, Zenon
    <2>7. ASSUME NEW s \in Seqs, NEW op \in Ops, Event(s, op) PROVE CountsInv'
      <3>0. Created
        BY <2>7, Zenon DEF Event, CountsInv, Untouched
      <3>1. CASE ~Live(b) \/ Duplicate(b, s, op)
        BY <2>7, <3>0, <3>1, <2>a, Zenon DEF Event, BatchDoneJob
      <3>2. CASE Live(b) /\ ~Duplicate(b, s, op)
        <4> DEFINE c == Counted(b, s, op, now)
                   v == Verdict(c)
                   ends == Decidable(c) /\ b.status = "running" /\ v # "none"
        <4>0. s \in Nat
          BY <2>0, Zenon
        <4>1. /\ ends => /\ b'.status = v
                         /\ b'.cnt = Recount(b.cnt, "running", v)
                         /\ b'.idx = (b.idx \ {"running"}) \cup {"done"}
              /\ ~ends => b'.status = b.status /\ b'.cnt = b.cnt /\ b'.idx = b.idx
          <5> DEFINE r == BatchDoneJob(b, s, op, now)
          <5>1. Moves(b, r, v, ends)
            BY <2>0, <4>0, <3>2, DoneJobEffect, Zenon
          <5>2. b' = r
            BY <2>7, Zenon DEF Event
          <5> HIDE DEF r, ends, v
          <5> QED
            BY <5>1, <5>2, Zenon DEF Moves
        <4>2. v \in Terminal \cup {"none"}
          BY <2>0, <4>0, CountType, VerdictType, Zenon
        <4> HIDE DEF v, c
        <4>3. CASE ends
          BY <3>0, <4>1, <4>2, <4>3, <2>b, Zenon DEF Statuses, Terminal, Indexes
        <4>4. CASE ~ends
          BY <3>0, <4>1, <4>4, <2>a, Zenon
        <4> QED
          BY <4>3, <4>4, Zenon
      <3> QED
        BY <3>1, <3>2, Zenon
    <2>8. CASE Cancel
      <3>1. /\ b'.status = "cancelled" /\ b'.cnt = Recount(b.cnt, "running", "cancelled")
            /\ b'.idx = (b.idx \ {"running"}) \cup {"cancelled"}
        BY <2>0, <2>8, Zenon DEF Cancel, CancelBatch, Ledger
      <3> QED
        BY <2>8, <3>1, <2>b, Zenon DEF Cancel, Statuses, Terminal, Indexes
    <2>9. CASE Tick
      <3>1. /\ b'.cnt = b.cnt /\ b'.idx = b.idx /\ b'.status \in {b.status, "none"}
        BY <2>0, <2>9, ExpireEffect, Zenon DEF Tick, Live
      <3>2. CASE Created
        BY <3>1, <3>2, <2>a, Zenon
      <3>3. CASE ~Created
        <4>1. Untouched /\ ~Created'
          BY <3>1, <3>3, Zenon DEF CountsInv, Created
        <4>0. b' = Expire(b, now + 1) /\ Live(b) /\ now + 1 \in Nat
          BY <2>0, <2>9, Zenon DEF Tick
        <4>2. b'.claims = {}
          BY <2>0, <4>0, <4>1, ExpireEffect, Zenon DEF Untouched
        <4>7. b'.seq = b.seq \/ b'.seq = 0
          BY <2>0, <4>0, ExpireEffect, Zenon
        <4>6. b'.invoked \in {b.invoked, {}}
          BY <2>0, <4>0, ExpireEffect, Zenon
        <4>8. /\ b'.total \in {b.total, 0} /\ b'.touchedN \in {b.touchedN, 0}
              /\ b'.completedN \in {b.completedN, 0} /\ b'.failedN \in {b.failedN, 0}
          <5> DEFINE r == Expire(b, now + 1)
          <5>1. /\ r.total \in {b.total, 0} /\ r.touchedN \in {b.touchedN, 0}
                /\ r.completedN \in {b.completedN, 0} /\ r.failedN \in {b.failedN, 0}
            BY <2>0, <4>0, ExpireEffect, Zenon
          <5> HIDE DEF r
          <5> QED
            BY <5>1, <4>0, Zenon DEF r
        <4>3. b'.total = 0 /\ b'.touchedN = 0 /\ b'.completedN = 0 /\ b'.failedN = 0
          BY <4>1, <4>8, Zenon DEF Untouched
        <4>9. b'.touch \subseteq b.touch /\ b'.ok \subseteq b.ok /\ b'.fail \subseteq b.fail
          BY <2>0, <4>0, ExpireEffect, Zenon
        <4>4. b'.touch = {} /\ b'.ok = {} /\ b'.fail = {}
          BY <4>1, <4>9, Zenon DEF Untouched
        <4>5. Untouched'
          BY <2>9, <3>1, <4>1, <4>2, <4>3, <4>4, <4>6, <4>7, Zenon DEF Tick, Untouched, clientVars
        <4> QED
          BY <4>1, <4>5, Zenon DEF CountsInv, CountsMatch
      <3> QED
        BY <3>2, <3>3, Zenon
    <2>10. CASE UNCHANGED vars
      BY <2>10, Zenon DEF vars, clientVars, history, CountsInv, CountsMatch, Created, Untouched
    <2> QED
      BY <2>1, <2>2, <2>3, <2>4, <2>5, <2>6, <2>7, <2>8, <2>9, <2>10, Zenon DEF Next
  <1> QED
    BY <1>1, <1>2, TypeCorrect, PTL DEF Spec

\* kafka_batch:counts and the indexes agree with the status in every reachable
\* state, whichever of the completion, seal and cancel scripts moves it.
THEOREM CountsCorrect == Spec => []CountsMatch
  <1>1. CountsInv => CountsMatch
    BY Zenon DEF CountsInv
  <1> QED
    BY <1>1, CountsHold, PTL
\* No script moves a batch out of a terminal or cancelled status (updateStatusLua, the
\* status checks of batchDoneJobLua and sealBatchLua): only its expiry does.
THEOREM TerminalStays == Spec => TerminalIsFinal
  <1> DEFINE over == b.status \in Terminal \cup {"cancelled"}
  <1>1. TypeOK /\ CountsInv /\ [Next]_vars => (over => b'.status \in {b.status, "none"})
    <2> SUFFICES ASSUME TypeOK, CountsInv, [Next]_vars, over PROVE b'.status \in {b.status, "none"}
      BY Zenon
    <2>0. b \in Ledger /\ now \in Nat /\ (now + 1) \in Nat /\ Seqs \subseteq Nat
      BY BoundsAssumption DEF Seqs, TypeOK
    <2>s. b.status # "running" /\ b.status # "none" /\ Live(b)
      BY Zenon DEF Terminal, Live
    <2>1. ASSUME NEW sealed \in BOOLEAN, Create(sealed) PROVE FALSE
      BY <2>1, <2>s, Zenon DEF Create, NoLedger
    <2>2. ~Index /\ ~Cancel
      BY <2>s, Zenon DEF Index, Cancel
    <2>3. ASSUME NEW n \in PushSizes, Reserve(n) PROVE FALSE
      BY <2>3, Zenon DEF Reserve, Closed
    <2>4. ASSUME NEW s \in Seqs, Produce(s) PROVE b' = b
      BY <2>4, Zenon DEF Produce
    <2>5. ASSUME NEW s \in Seqs, NEW durable \in BOOLEAN, RollBack(s, durable) PROVE b' = b
      BY <2>5, Zenon DEF RollBack, Closed
    <2>6. CASE Seal
      <3>1. b' = Locked(b, now)
        BY <2>6, <2>s, Zenon DEF Seal, SealBatch
      <3> QED
        BY <2>0, <3>1, Zenon DEF Locked, Ledger
    <2>7. ASSUME NEW s \in Seqs, NEW op \in Ops, Event(s, op) PROVE b'.status = b.status
      <3>1. CASE Duplicate(b, s, op)
        BY <2>7, <3>1, Zenon DEF Event, BatchDoneJob
      <3>2. CASE ~Duplicate(b, s, op)
        <4> DEFINE r == BatchDoneJob(b, s, op, now)
                   v == Verdict(Counted(b, s, op, now))
                   ends == Decidable(Counted(b, s, op, now)) /\ b.status = "running" /\ v # "none"
        <4>1. Moves(b, r, v, ends)
          BY <2>0, <2>s, <3>2, DoneJobEffect, Zenon
        <4>2. b' = r /\ ~ends
          BY <2>7, <2>s, Zenon DEF Event
        <4> HIDE DEF r, v, ends
        <4> QED
          BY <4>1, <4>2, Zenon DEF Moves
      <3> QED
        BY <3>1, <3>2, Zenon
    <2>9. CASE Tick
      BY <2>0, <2>9, ExpireEffect, Zenon DEF Tick, Live
    <2>10. CASE UNCHANGED vars
      BY <2>10, Zenon DEF vars
    <2> QED
      BY <2>1, <2>2, <2>3, <2>4, <2>5, <2>6, <2>7, <2>9, <2>10, Zenon DEF Next
  <1>2. TypeOK /\ CountsInv /\ [Next]_vars => [over => b'.status \in {b.status, "none"}]_vars
    BY <1>1, Zenon
  <1> QED
    BY <1>2, TypeCorrect, CountsHold, PTL DEF Spec, TerminalIsFinal


-----------------------------------------------------------------------------
(* The inductive invariant *)

\* The seqs of jobs that were produced or are being pushed.
Known == jobs \cup reserved

\* The counters of a ledger are those of its bitmaps (CountersExact of one ledger).
Exact(l) ==
    /\ l.touchedN = Cardinality(l.touch)
    /\ l.completedN = Cardinality(l.ok)
    /\ l.failedN = Cardinality(l.fail)
    /\ l.ok \cap l.fail = {}
    /\ l.ok \cup l.fail \subseteq l.touch
    /\ l.completedN + l.failedN <= l.touchedN

\* Bits are those of jobs whose events were delivered.
BitsInv ==
    /\ b.touch \subseteq jobs \cap ran
    /\ b.ok \subseteq jobs \cap succeeded
    /\ b.fail \subseteq jobs

\* While the allocator lives no seq is out twice.
FreshInv ==
    Live(b) /\ ~lapsed => jobs \cap reserved = {} /\ \A s \in Known : s <= b.seq

\* What was granted is what is claimed, and no claim leaves the batch open to pushes.
GrantsInv ==
    /\ \A k \in Kinds : grants[k] \in {0, 1} /\ (Live(b) => (k \in b.claims <=> grants[k] = 1))
    /\ "success" \in b.claims => "complete" \in b.claims
    /\ "complete" \in b.claims => "any" \in b.claims

\* total covers the jobs that are out, but for those whose roll-back was mistaken.
TotalInv == Intact => Cardinality(Known) <= b.total + ambiguous

DoneInv ==
    /\ BitsInv /\ FreshInv /\ GrantsInv /\ TotalInv
    /\ CountersExact /\ SuccessMeansDone /\ CompleteMeansTouched

-----------------------------------------------------------------------------
(* Counting *)

\* Sets of seqs are finite.
LEMMA SeqsFinite ==
    ASSUME NEW S, S \subseteq Seqs
    PROVE  IsFiniteSet(S) /\ Cardinality(S) \in Nat
  <1>1. IsFiniteSet(Seqs)
    BY BoundsAssumption, FS_Interval DEF Seqs
  <1> QED
    BY <1>1, FS_Subset, FS_CardinalityType, Zenon

\* Setting or clearing one bit.
LEMMA OneBit ==
    ASSUME NEW S, IsFiniteSet(S), NEW s
    PROVE  /\ IsFiniteSet(S \cup {s}) /\ IsFiniteSet(S \ {s}) /\ Cardinality(S) \in Nat
           /\ s \notin S => Cardinality(S \cup {s}) = Cardinality(S) + 1
           /\ s \in S => S \cup {s} = S /\ Cardinality(S \ {s}) = Cardinality(S) - 1
  <1>1. IsFiniteSet(S \cup {s}) /\ (s \notin S => Cardinality(S \cup {s}) = Cardinality(S) + 1)
    BY FS_AddElement, Zenon
  <1>2. IsFiniteSet(S \ {s}) /\ (s \in S => Cardinality(S \ {s}) = Cardinality(S) - 1)
    BY FS_RemoveElement, Zenon
  <1>3. s \in S => S \cup {s} = S
    BY Zenon
  <1>4. Cardinality(S) \in Nat
    BY FS_CardinalityType, Zenon
  <1> QED
    BY <1>1, <1>2, <1>3, <1>4, Zenon

\* An event moves the counters as it moves the bits.
LEMMA CountedExact ==
    ASSUME NEW l \in Ledger, NEW t \in Nat, NEW s \in Nat, NEW op \in Ops, Exact(l),
           IsFiniteSet(l.touch), IsFiniteSet(l.ok), IsFiniteSet(l.fail)
    PROVE  Exact(Counted(l, s, op, t))
  <1> DEFINE c == Counted(l, s, op, t)
             okNew == op = "success" /\ s \notin l.ok
             failNew == op = "failed" /\ s \notin l.ok \cup l.fail
             moved == okNew /\ s \in l.fail
  <1>1. /\ c.touch = l.touch \cup {s}
        /\ c.touchedN = IF s \notin l.touch THEN l.touchedN + 1 ELSE l.touchedN
    BY Zenon DEF Counted, Ledger
  <1>2. /\ c.ok = IF okNew THEN l.ok \cup {s} ELSE l.ok
        /\ c.completedN = IF okNew THEN l.completedN + 1 ELSE l.completedN
    BY Zenon DEF Counted, Ledger
  <1>3. /\ c.fail = IF failNew THEN l.fail \cup {s} ELSE IF moved THEN l.fail \ {s} ELSE l.fail
        /\ c.failedN = IF failNew THEN l.failedN + 1
                                  ELSE IF moved THEN l.failedN - 1 ELSE l.failedN
    BY Zenon DEF Counted, Ledger
  <1> HIDE DEF c
  <1>f. \A S \in {l.touch, l.ok, l.fail} :
            /\ IsFiniteSet(S \cup {s}) /\ IsFiniteSet(S \ {s}) /\ Cardinality(S) \in Nat
            /\ s \notin S => Cardinality(S \cup {s}) = Cardinality(S) + 1
            /\ s \in S => S \cup {s} = S /\ Cardinality(S \ {s}) = Cardinality(S) - 1
    BY OneBit, Zenon
  <1>4. c.touchedN = Cardinality(c.touch) /\ IsFiniteSet(c.touch)
    <2>1. CASE s \in l.touch
      BY <1>1, <1>f, <2>1, Zenon DEF Exact
    <2>2. CASE s \notin l.touch
      BY <1>1, <1>f, <2>2, Zenon DEF Exact
    <2> QED
      BY <2>1, <2>2, Zenon
  <1>5. c.completedN = Cardinality(c.ok) /\ IsFiniteSet(c.ok)
    BY <1>2, <1>f, Zenon DEF Exact
  <1>6. c.failedN = Cardinality(c.fail) /\ IsFiniteSet(c.fail)
    BY <1>3, <1>f, Zenon DEF Exact
  <1>7. c.ok \cap c.fail = {}
    BY <1>2, <1>3, Zenon DEF Exact, Ops
  <1>8. c.ok \cup c.fail \subseteq c.touch
    BY <1>1, <1>2, <1>3, Zenon DEF Exact
  <1>9. c.completedN + c.failedN <= c.touchedN
    <2>1. Cardinality(c.ok \cup c.fail) = Cardinality(c.ok) + Cardinality(c.fail) - Cardinality({})
      BY <1>5, <1>6, <1>7, FS_Union
    <2>2. Cardinality(c.ok \cup c.fail) <= Cardinality(c.touch)
      BY <1>4, <1>8, FS_Subset, Zenon
    <2> QED
      BY <1>4, <1>5, <1>6, <2>1, <2>2, FS_EmptySet, FS_CardinalityType
  <1> QED
    BY <1>4, <1>5, <1>6, <1>7, <1>8, <1>9, Zenon DEF Exact, c

\* When as many jobs are done as total says, no more jobs are outstanding than total
\* is short of.
LEMMA FewOutstanding ==
    ASSUME NEW P, IsFiniteSet(P), NEW D \in SUBSET P, NEW S, D \subseteq S,
           NEW total \in Int, NEW a \in Nat,
           Cardinality(P) <= total + a, Cardinality(D) >= total
    PROVE  Cardinality(P \ S) <= a
  <1>1. P \cap D = D /\ P \ S \subseteq P \ D
    BY Zenon
  <1>2. IsFiniteSet(P \ D) /\ Cardinality(P \ D) = Cardinality(P) - Cardinality(D)
    BY <1>1, FS_Difference, Zenon
  <1>3. Cardinality(P \ S) <= Cardinality(P \ D)
    BY <1>1, <1>2, FS_Subset, Zenon
  <1>4. Cardinality(P) \in Nat /\ Cardinality(D) \in Nat /\ Cardinality(P \ S) \in Nat
    BY <1>1, <1>2, FS_Subset, FS_CardinalityType, Zenon
  <1> QED
    BY <1>2, <1>3, <1>4

\* Fewer jobs outstanding than before.
LEMMA OutstandingShrinks ==
    ASSUME NEW P, IsFiniteSet(P), NEW Q \in SUBSET P
    PROVE  Cardinality(Q) <= Cardinality(P) /\ Cardinality(P) \in Nat /\ Cardinality(Q) \in Nat
  BY FS_Subset, FS_CardinalityType, Zenon

\* What is due is done: every job for on_complete, successfully for on_success.
LEMMA DueMeansDone ==
    ASSUME NEW l \in Ledger, Exact(l),
           IsFiniteSet(l.touch), IsFiniteSet(l.ok), IsFiniteSet(l.fail),
           NEW v \in {Verdict(l), SealVerdict(l)}
    PROVE  /\ "success" \in Due(l, v) => Cardinality(l.ok) >= l.total /\ "complete" \in Due(l, v)
           /\ "complete" \in Due(l, v) => Cardinality(l.touch) >= l.total
  <1>1. /\ l.touchedN \in Nat /\ l.completedN \in Nat /\ l.failedN \in Nat /\ l.total \in Int
        /\ l.completedN + l.failedN <= l.touchedN
    BY FS_CardinalityType DEF Ledger, Exact
  <1>2. /\ v = "success" => l.completedN >= l.total
        /\ v # "none" => l.touchedN >= l.total
    BY <1>1 DEF Verdict, SealVerdict
  <1> QED
    BY <1>1, <1>2, Zenon DEF Due, Kinds, Exact

-----------------------------------------------------------------------------
(* What the steps do to the parts of the invariant *)

\* Sets the invariant counts are finite.
LEMMA Shapes ==
    ASSUME TypeOK
    PROVE  /\ b \in Ledger /\ now \in Nat /\ now + 1 \in Nat /\ Seqs \subseteq Nat
           /\ Known \subseteq Seqs /\ IsFiniteSet(Known) /\ ambiguous \in Nat
           /\ BitsInv => IsFiniteSet(b.touch) /\ IsFiniteSet(b.ok) /\ IsFiniteSet(b.fail)
  <1>1. b \in Ledger /\ now \in Nat /\ now + 1 \in Nat /\ Seqs \subseteq Nat /\ ambiguous \in Nat
    BY BoundsAssumption DEF Seqs, TypeOK
  <1>2. Known \subseteq Seqs /\ jobs \subseteq Seqs
    BY Zenon DEF Known, TypeOK
  <1>3. IsFiniteSet(Known)
    BY <1>2, SeqsFinite, Zenon
  <1>4. BitsInv => b.touch \subseteq Seqs /\ b.ok \subseteq Seqs /\ b.fail \subseteq Seqs
    BY <1>2, Zenon DEF BitsInv
  <1> QED
    BY <1>1, <1>2, <1>3, <1>4, SeqsFinite, Zenon

\* A script that stamps exactly what it grants keeps grants and claims together.
LEMMA GrantKeeps ==
    ASSUME GrantsInv, TypeOK, NEW granted \in SUBSET Kinds, granted \cap b.claims = {},
           "success" \in granted => "complete" \in granted \cup b.claims,
           Live(b), Grant(granted),
           b'.claims = b.claims \cup granted \cup (IF "complete" \in granted THEN {"any"} ELSE {})
    PROVE  GrantsInv'
  <1>1. \A k \in Kinds : grants'[k] = grants[k] + (IF k \in granted THEN 1 ELSE 0)
    BY Zenon DEF Grant
  <1>2. \A k \in Kinds : k \in b'.claims <=> k \in b.claims \/ k \in granted
    BY Zenon DEF Kinds
  <1>3. \A k \in Kinds : grants'[k] \in {0, 1} /\ (k \in b'.claims <=> grants'[k] = 1)
    <2> TAKE k \in Kinds
    <2>1. CASE k \in granted
      <3>1. k \notin b.claims /\ grants[k] = 0
        BY <2>1, Zenon DEF GrantsInv
      <3> QED
        BY <1>1, <1>2, <2>1, <3>1
    <2>2. CASE k \notin granted
      <3>1. grants'[k] = grants[k]
        BY <1>1, <2>2 DEF TypeOK
      <3> QED
        BY <1>2, <2>2, <3>1, Zenon DEF GrantsInv
    <2> QED
      BY <2>1, <2>2, Zenon
  <1>4. "success" \in b'.claims => "complete" \in b'.claims
    BY <1>2, Zenon DEF GrantsInv, Kinds
  <1>5. "complete" \in b'.claims => "any" \in b'.claims
    BY <1>2, Zenon DEF GrantsInv, Kinds
  <1> QED
    BY <1>3, <1>4, <1>5, Zenon DEF GrantsInv

\* A script that grants only what is due leaves no more jobs outstanding than pushes
\* were mistakenly rolled back.
LEMMA DueKeeps ==
    ASSUME TypeOK, TypeOK', DoneInv, BitsInv', Intact' => Intact,
           UNCHANGED clientVars, b'.total = b.total, ran \subseteq ran', succeeded \subseteq succeeded',
           NEW granted, b'.claims \cap Kinds \subseteq b.claims \cup granted,
           Intact' /\ "success" \in granted => Cardinality(b'.ok) >= b'.total,
           Intact' /\ "complete" \in granted => Cardinality(b'.touch) >= b'.total
    PROVE  TotalInv' /\ SuccessMeansDone' /\ CompleteMeansTouched'
  <1> USE DEF DoneInv
  <1>1. /\ Known' = Known /\ IsFiniteSet(Known) /\ ambiguous' = ambiguous /\ ambiguous \in Nat
        /\ b'.total \in Int /\ b' \in Ledger
    BY Shapes, Zenon DEF clientVars, Known, TypeOK, Ledger
  <1>2. TotalInv'
    BY <1>1, Zenon DEF TotalInv
  <1>3. /\ IsFiniteSet(Known \ succeeded) /\ Known \ succeeded' \subseteq Known \ succeeded
        /\ IsFiniteSet(Known \ ran) /\ Known \ ran' \subseteq Known \ ran
    BY <1>1, FS_Difference, Zenon
  <1>4. ASSUME Intact', "success" \in b'.claims
        PROVE  Cardinality(Known' \ succeeded') <= ambiguous'
    <2>1. CASE "success" \in b.claims
      <3>1. Cardinality(Known \ succeeded) <= ambiguous
        BY <1>4, <2>1, Zenon DEF SuccessMeansDone, Known
      <3>2. Cardinality(Known \ succeeded') <= Cardinality(Known \ succeeded)
            /\ Cardinality(Known \ succeeded') \in Nat /\ Cardinality(Known \ succeeded) \in Nat
        BY <1>3, OutstandingShrinks, Zenon
      <3> QED
        BY <1>1, <3>1, <3>2
    <2>2. CASE "success" \in granted
      <3>1. Cardinality(b'.ok) >= b'.total /\ Cardinality(Known) <= b'.total + ambiguous
        BY <1>1, <1>2, <1>4, <2>2, Zenon DEF TotalInv
      <3>2. b'.ok \subseteq Known /\ b'.ok \subseteq succeeded'
        BY <1>1, Zenon DEF BitsInv, Known
      <3> QED
        BY <1>1, <3>1, <3>2, FewOutstanding, Zenon
    <2> QED
      BY <1>4, <2>1, <2>2, Zenon DEF Kinds
  <1>5. ASSUME Intact', "complete" \in b'.claims
        PROVE  Cardinality(Known' \ ran') <= ambiguous'
    <2>1. CASE "complete" \in b.claims
      <3>1. Cardinality(Known \ ran) <= ambiguous
        BY <1>5, <2>1, Zenon DEF CompleteMeansTouched, Known
      <3>2. Cardinality(Known \ ran') <= Cardinality(Known \ ran)
            /\ Cardinality(Known \ ran') \in Nat /\ Cardinality(Known \ ran) \in Nat
        BY <1>3, OutstandingShrinks, Zenon
      <3> QED
        BY <1>1, <3>1, <3>2
    <2>2. CASE "complete" \in granted
      <3>1. Cardinality(b'.touch) >= b'.total /\ Cardinality(Known) <= b'.total + ambiguous
        BY <1>1, <1>2, <1>5, <2>2, Zenon DEF TotalInv
      <3>2. b'.touch \subseteq Known /\ b'.touch \subseteq ran'
        BY <1>1, Zenon DEF BitsInv, Known
      <3> QED
        BY <1>1, <3>1, <3>2, FewOutstanding, Zenon
    <2> QED
      BY <1>5, <2>1, <2>2, Zenon DEF Kinds
  <1> QED
    BY <1>2, <1>4, <1>5, Zenon DEF SuccessMeansDone, CompleteMeansTouched, Known

-----------------------------------------------------------------------------
(* Counters that are never behind *)

\* An event moves each counter by at least as much as its bitmap.
LEMMA CountedAhead ==
    ASSUME NEW l \in Ledger, NEW t \in Nat, NEW s \in Nat, NEW op \in Ops,
           IsFiniteSet(l.touch), IsFiniteSet(l.ok), IsFiniteSet(l.fail),
           Cardinality(l.touch) <= l.touchedN, Cardinality(l.ok) <= l.completedN,
           Cardinality(l.fail) <= l.failedN
    PROVE  LET c == Counted(l, s, op, t)
           IN  /\ Cardinality(c.touch) <= c.touchedN
               /\ Cardinality(c.ok) <= c.completedN
               /\ Cardinality(c.fail) <= c.failedN
  <1> DEFINE c == Counted(l, s, op, t)
             okNew == op = "success" /\ s \notin l.ok
             failNew == op = "failed" /\ s \notin l.ok \cup l.fail
             moved == okNew /\ s \in l.fail
  <1>0. /\ l.touchedN \in Int /\ l.completedN \in Int /\ l.failedN \in Int
        /\ Cardinality(l.touch) \in Nat /\ Cardinality(l.ok) \in Nat /\ Cardinality(l.fail) \in Nat
    BY FS_CardinalityType, Zenon DEF Ledger
  <1>1. /\ c.touch = l.touch \cup {s}
        /\ c.touchedN = IF s \notin l.touch THEN l.touchedN + 1 ELSE l.touchedN
    BY Zenon DEF Counted, Ledger
  <1>2. /\ c.ok = IF okNew THEN l.ok \cup {s} ELSE l.ok
        /\ c.completedN = IF okNew THEN l.completedN + 1 ELSE l.completedN
    BY Zenon DEF Counted, Ledger
  <1>3. /\ c.fail = IF failNew THEN l.fail \cup {s} ELSE IF moved THEN l.fail \ {s} ELSE l.fail
        /\ c.failedN = IF failNew THEN l.failedN + 1
                                  ELSE IF moved THEN l.failedN - 1 ELSE l.failedN
    BY Zenon DEF Counted, Ledger
  <1> HIDE DEF c
  <1>f. \A S \in {l.touch, l.ok, l.fail} :
            /\ IsFiniteSet(S \cup {s}) /\ IsFiniteSet(S \ {s}) /\ Cardinality(S) \in Nat
            /\ s \notin S => Cardinality(S \cup {s}) = Cardinality(S) + 1
            /\ s \in S => S \cup {s} = S /\ Cardinality(S \ {s}) = Cardinality(S) - 1
    BY OneBit, Zenon
  <1>4. Cardinality(c.touch) <= c.touchedN
    <2>1. CASE s \in l.touch
      BY <1>0, <1>1, <1>f, <2>1, Zenon
    <2>2. CASE s \notin l.touch
      BY <1>0, <1>1, <1>f, <2>2
    <2> QED
      BY <2>1, <2>2, Zenon
  <1>5. Cardinality(c.ok) <= c.completedN
    BY <1>0, <1>2, <1>f
  <1>6. Cardinality(c.fail) <= c.failedN
    BY <1>0, <1>3, <1>f
  <1> QED
    BY <1>4, <1>5, <1>6, Zenon DEF c

\* A step that clears bits and leaves the counters keeps them ahead.
LEMMA FewerBits ==
    ASSUME TypeOK, DoneInv, NeverUndercounts, Live(b') => Live(b),
           b'.touch \subseteq b.touch, b'.ok \subseteq b.ok, b'.fail \subseteq b.fail,
           Live(b') => /\ b'.touchedN = b.touchedN /\ b'.completedN = b.completedN
                       /\ b'.failedN = b.failedN
    PROVE  NeverUndercounts'
  <1>1. /\ IsFiniteSet(b.touch) /\ IsFiniteSet(b.ok) /\ IsFiniteSet(b.fail)
        /\ b.touchedN \in Int /\ b.completedN \in Int /\ b.failedN \in Int
    BY Shapes, Zenon DEF DoneInv, Ledger
  <1>2. Cardinality(b'.touch) <= Cardinality(b.touch)
        /\ Cardinality(b'.touch) \in Nat /\ Cardinality(b.touch) \in Nat
    BY <1>1, OutstandingShrinks, Zenon
  <1>3. Cardinality(b'.ok) <= Cardinality(b.ok)
        /\ Cardinality(b'.ok) \in Nat /\ Cardinality(b.ok) \in Nat
    BY <1>1, OutstandingShrinks, Zenon
  <1>4. Cardinality(b'.fail) <= Cardinality(b.fail)
        /\ Cardinality(b'.fail) \in Nat /\ Cardinality(b.fail) \in Nat
    BY <1>1, OutstandingShrinks, Zenon
  <1> QED
    BY <1>1, <1>2, <1>3, <1>4 DEF NeverUndercounts

-----------------------------------------------------------------------------
(* Creating and filling a batch keeps the invariant *)

\* Steps that leave counters, bits and claims alone.
LEMMA QuietKeeps ==
    ASSUME DoneInv, SameCounts(b, b'), b'.claims = b.claims, Live(b') => Live(b),
           UNCHANGED <<clientVars, history>>
    PROVE  DoneInv'
  <1> USE DEF DoneInv, SameCounts, clientVars, history
  <1>1. BitsInv' /\ FreshInv' /\ GrantsInv'
    BY Zenon DEF BitsInv, FreshInv, GrantsInv, Known
  <1>2. Intact' => Intact
    BY Zenon DEF Intact
  <1>3. TotalInv' /\ SuccessMeansDone' /\ CompleteMeansTouched' /\ CountersExact'
    BY <1>2, Zenon DEF TotalInv, SuccessMeansDone, CompleteMeansTouched, CountersExact, Known
  <1> QED
    BY <1>1, <1>3, Zenon

\* createBatchLua starts with nothing.
LEMMA CreateKeeps ==
    ASSUME TypeOK, CountsInv, DoneInv, NEW sealed \in BOOLEAN, Create(sealed)
    PROVE  DoneInv'
  <1>1. Untouched /\ b = NoLedger
    BY Zenon DEF Create, Created, CountsInv
  <1>2. /\ b'.touch = {} /\ b'.ok = {} /\ b'.fail = {} /\ b'.claims = {} /\ b'.total = 0
        /\ b'.touchedN = 0 /\ b'.completedN = 0 /\ b'.failedN = 0
        /\ jobs' = {} /\ reserved' = {} /\ ambiguous' = ambiguous
        /\ grants' = [k \in Kinds |-> 0]
    BY <1>1, Zenon DEF Create, CreateBatch, NoLedger, Untouched, clientVars, history
  <1>3. BitsInv' /\ FreshInv' /\ GrantsInv'
    BY <1>2 DEF BitsInv, FreshInv, GrantsInv, Known
  <1>4. Cardinality({}) = 0
    BY FS_EmptySet, Zenon
  <1>5. CountersExact'
    BY <1>2, <1>4 DEF CountersExact
  <1>6. TotalInv'
    BY <1>2, <1>4 DEF TotalInv, Known, TypeOK
  <1>7. SuccessMeansDone' /\ CompleteMeansTouched'
    BY <1>2, Zenon DEF SuccessMeansDone, CompleteMeansTouched
  <1> QED
    BY <1>3, <1>5, <1>6, <1>7, Zenon DEF DoneInv

\* An open batch has no claims.
LEMMA OpenUnclaimed ==
    ASSUME DoneInv, ~Closed(b)
    PROVE  Live(b) /\ "success" \notin b.claims /\ "complete" \notin b.claims
  BY Zenon DEF DoneInv, GrantsInv, Closed

\* r is l with n more in total, and the allocator moved past as many new seqs.
Added(l, n, r) ==
    /\ r.total = l.total + n /\ r.seq = IF n > 0 THEN l.seq + n ELSE l.seq
    /\ r.claims = l.claims /\ r.status = l.status
    /\ r.touch = l.touch /\ r.ok = l.ok /\ r.fail = l.fail
    /\ r.touchedN = l.touchedN /\ r.completedN = l.completedN /\ r.failedN = l.failedN

\* addJobsLua moves total and, for a push, the allocator.
LEMMA AddJobsEffect ==
    ASSUME NEW l \in Ledger, NEW n \in Int, NEW t \in Nat
    PROVE  Added(l, n, AddJobs(l, n, t))
  BY Zenon DEF AddJobs, Ledger, Added

\* A push reserves fresh seqs and counts them in total.
LEMMA ReserveKeeps ==
    ASSUME TypeOK, DoneInv, NEW n \in PushSizes, Reserve(n)
    PROVE  DoneInv'
  <1>1. n \in Nat \ {0} /\ n \in Int /\ b \in Ledger /\ now \in Nat /\ b.seq \in Nat /\ b.total \in Int
    BY Shapes, BoundsAssumption DEF Ledger
  <1>2. /\ Live(b) /\ "success" \notin b.claims /\ "complete" \notin b.claims
    BY OpenUnclaimed, Zenon DEF Reserve
  <1>3. /\ b'.total = b.total + n /\ b'.seq = b.seq + n
        /\ b'.claims = b.claims /\ b'.status = b.status
        /\ b'.touch = b.touch /\ b'.ok = b.ok /\ b'.fail = b.fail
        /\ b'.touchedN = b.touchedN /\ b'.completedN = b.completedN /\ b'.failedN = b.failedN
    <2>1. b' = AddJobs(b, n, now)
      BY Zenon DEF Reserve
    <2>2. Added(b, n, b')
      BY <1>1, <2>1, AddJobsEffect, Zenon
    <2> QED
      BY <1>1, <2>2 DEF Added
  <1>4. /\ reserved' = reserved \cup Window(b, n) /\ jobs' = jobs /\ ambiguous' = ambiguous
        /\ ran' = ran /\ succeeded' = succeeded /\ grants' = grants
        /\ scrubbed' = scrubbed /\ lapsed' = lapsed
    BY Zenon DEF Reserve, history
  <1>5. BitsInv' /\ GrantsInv' /\ CountersExact'
    BY <1>3, <1>4, Zenon DEF DoneInv, BitsInv, GrantsInv, CountersExact, Intact, Live
  <1>6. \A s \in Window(b, n) : s \in Nat /\ b.seq < s /\ s <= b.seq + n
    BY <1>1 DEF Window
  <1>7. \A s \in Known : s \in Nat
    BY Shapes, Zenon
  <1>8. FreshInv'
    <2> SUFFICES ASSUME ~lapsed PROVE jobs \cap reserved' = {} /\ \A s \in Known' : s <= b'.seq
      BY <1>4, Zenon DEF FreshInv
    <2>1. jobs \cap reserved = {} /\ \A s \in Known : s <= b.seq
      BY <1>2, Zenon DEF DoneInv, FreshInv
    <2>2. Known' = Known \cup Window(b, n)
      BY <1>4, Zenon DEF Known
    <2>3. \A s \in Known : s <= b.seq + n
      BY <1>1, <1>7, <2>1
    <2>4. jobs \cap Window(b, n) = {}
      BY <1>1, <1>6, <1>7, <2>1 DEF Known
    <2> QED
      BY <1>3, <1>4, <1>6, <2>1, <2>2, <2>3, <2>4, Zenon
  <1>9. TotalInv'
    <2>1. Intact' => Intact
      BY <1>3, <1>4, Zenon DEF Intact, Live
    <2>2. Known' = Known \cup Window(b, n)
      BY <1>4, Zenon DEF Known
    <2>3. IsFiniteSet(Window(b, n)) /\ Cardinality(Window(b, n)) = n
      <3>1. b.seq + 1 \in Int /\ b.seq + n \in Int /\ ~(b.seq + 1 > b.seq + n)
            /\ (b.seq + n) - (b.seq + 1) + 1 = n
        BY <1>1
      <3> QED
        BY <3>1, FS_Interval, Zenon DEF Window
    <2>4. IsFiniteSet(Known) /\ Cardinality(Known) \in Nat /\ ambiguous \in Nat
      BY Shapes, FS_CardinalityType, Zenon
    <2>5. Cardinality(Known \cup Window(b, n)) <= Cardinality(Known) + n
          /\ Cardinality(Known \cup Window(b, n)) \in Nat
      <3>1. /\ IsFiniteSet(Known \cup Window(b, n))
            /\ Cardinality(Known \cup Window(b, n)) = Cardinality(Known) + n - Cardinality(Known \cap Window(b, n))
        BY <2>3, <2>4, FS_Union, Zenon
      <3>2. Cardinality(Known \cap Window(b, n)) \in Nat
        BY <2>4, FS_Intersection, FS_CardinalityType, Zenon
      <3>3. Cardinality(Known \cup Window(b, n)) \in Nat
        BY <3>1, FS_CardinalityType, Zenon
      <3> QED
        BY <1>1, <2>4, <3>1, <3>2, <3>3
    <2> QED
      BY <1>1, <1>3, <1>4, <2>1, <2>2, <2>4, <2>5 DEF DoneInv, TotalInv
  <1>10. SuccessMeansDone' /\ CompleteMeansTouched'
    BY <1>2, <1>3, Zenon DEF SuccessMeansDone, CompleteMeansTouched
  <1> QED
    BY <1>5, <1>8, <1>9, <1>10, Zenon DEF DoneInv

\* A produced job was reserved.
LEMMA ProduceKeeps ==
    ASSUME DoneInv, NEW s \in Seqs, Produce(s)
    PROVE  DoneInv'
  <1>1. /\ Known' = Known /\ jobs' = jobs \cup {s} /\ reserved' = reserved \ {s}
        /\ b' = b /\ ambiguous' = ambiguous
        /\ ran' = ran /\ succeeded' = succeeded /\ grants' = grants
        /\ scrubbed' = scrubbed /\ lapsed' = lapsed
    BY Zenon DEF Produce, Known, history
  <1>2. BitsInv' /\ FreshInv' /\ GrantsInv'
    BY <1>1, Zenon DEF DoneInv, BitsInv, FreshInv, GrantsInv
  <1>3. Intact' = Intact
    BY <1>1, Zenon DEF Intact
  <1>4. TotalInv' /\ CountersExact'
    BY <1>1, <1>3, Zenon DEF DoneInv, TotalInv, CountersExact
  <1>5. SuccessMeansDone' /\ CompleteMeansTouched'
    BY <1>1, <1>3, Zenon DEF DoneInv, SuccessMeansDone, CompleteMeansTouched, Known
  <1> QED
    BY <1>2, <1>4, <1>5, Zenon DEF DoneInv

\* A roll-back takes a job off total together with its seq, or counts as mistaken.
LEMMA RollBackKeeps ==
    ASSUME TypeOK, DoneInv, NEW s \in Seqs, NEW durable \in BOOLEAN, RollBack(s, durable)
    PROVE  DoneInv'
  <1>1. /\ s \in reserved /\ reserved' = reserved \ {s}
        /\ jobs' = IF durable THEN jobs \cup {s} ELSE jobs
        /\ ran' = ran /\ succeeded' = succeeded /\ grants' = grants
        /\ scrubbed' = scrubbed /\ lapsed' = lapsed
    BY Zenon DEF RollBack, history
  <1>2. Known' \subseteq Known /\ jobs \subseteq jobs' /\ jobs' \cap reserved' \subseteq jobs \cap reserved
    BY <1>1, Zenon DEF Known
  <1>3. /\ IsFiniteSet(Known) /\ Cardinality(Known) \in Nat /\ IsFiniteSet(Known')
        /\ Cardinality(Known') \in Nat /\ Cardinality(Known') <= Cardinality(Known)
        /\ ambiguous \in Nat /\ b \in Ledger /\ now \in Nat /\ b.total \in Int
    BY <1>2, Shapes, FS_Subset, FS_CardinalityType, Zenon DEF Ledger
  <1>4. CASE Closed(b)
    <2>1. b' = b /\ ambiguous' = ambiguous
      BY <1>4, Zenon DEF RollBack
    <2>2. BitsInv' /\ FreshInv' /\ GrantsInv'
      BY <1>1, <1>2, <2>1, Zenon DEF DoneInv, BitsInv, FreshInv, GrantsInv
    <2>3. Intact' = Intact
      BY <1>1, <2>1, Zenon DEF Intact
    <2>4. TotalInv' /\ CountersExact'
      BY <1>3, <2>1, <2>3 DEF DoneInv, TotalInv, CountersExact, Ledger
    <2>5. /\ Cardinality(Known' \ succeeded) <= Cardinality(Known \ succeeded)
          /\ Cardinality(Known' \ succeeded) \in Nat /\ Cardinality(Known \ succeeded) \in Nat
          /\ Cardinality(Known' \ ran) <= Cardinality(Known \ ran)
          /\ Cardinality(Known' \ ran) \in Nat /\ Cardinality(Known \ ran) \in Nat
      <3>1. /\ Known' \ succeeded \subseteq Known \ succeeded /\ Known' \ ran \subseteq Known \ ran
            /\ IsFiniteSet(Known \ succeeded) /\ IsFiniteSet(Known \ ran)
        BY <1>2, <1>3, FS_Difference, Zenon
      <3> QED
        BY <3>1, OutstandingShrinks, Zenon
    <2>6. succeeded' = succeeded /\ ran' = ran /\ b'.claims = b.claims /\ ambiguous' = ambiguous
      BY <1>1, <2>1, Zenon
    <2>7. SuccessMeansDone'
      <3> SUFFICES ASSUME Intact', "success" \in b'.claims
                   PROVE  Cardinality(Known' \ succeeded') <= ambiguous'
        BY Zenon DEF SuccessMeansDone, Known
      <3>1. Cardinality(Known \ succeeded) <= ambiguous
        BY <2>3, <2>6, Zenon DEF DoneInv, SuccessMeansDone, Known
      <3> QED
        BY <1>3, <2>5, <2>6, <3>1
    <2>8. CompleteMeansTouched'
      <3> SUFFICES ASSUME Intact', "complete" \in b'.claims
                   PROVE  Cardinality(Known' \ ran') <= ambiguous'
        BY Zenon DEF CompleteMeansTouched, Known
      <3>1. Cardinality(Known \ ran) <= ambiguous
        BY <2>3, <2>6, Zenon DEF DoneInv, CompleteMeansTouched, Known
      <3> QED
        BY <1>3, <2>5, <2>6, <3>1
    <2> QED
      BY <2>2, <2>4, <2>7, <2>8, Zenon DEF DoneInv
  <1>5. CASE ~Closed(b)
    <2>1. /\ b' = AddJobs(b, -1, now) /\ -1 \in Int
          /\ ambiguous' = IF durable THEN ambiguous + 1 ELSE ambiguous
      BY <1>5 DEF RollBack
    <2>2. /\ b'.total = b.total - 1 /\ b'.seq = b.seq
          /\ b'.claims = b.claims /\ b'.status = b.status
          /\ b'.touch = b.touch /\ b'.ok = b.ok /\ b'.fail = b.fail
          /\ b'.touchedN = b.touchedN /\ b'.completedN = b.completedN /\ b'.failedN = b.failedN
      <3>1. Added(b, -1, b')
        BY <1>3, <2>1, AddJobsEffect, Zenon
      <3> QED
        BY <1>3, <3>1 DEF Added
    <2>3. Live(b) /\ "success" \notin b.claims /\ "complete" \notin b.claims
      BY <1>5, OpenUnclaimed, Zenon
    <2>4. BitsInv' /\ FreshInv' /\ GrantsInv'
      BY <1>1, <1>2, <2>2, Zenon DEF DoneInv, BitsInv, FreshInv, GrantsInv, Live
    <2>5. Intact' = Intact
      BY <1>1, <2>2, Zenon DEF Intact, Live
    <2>6. CountersExact'
      BY <2>2, <2>5, Zenon DEF DoneInv, CountersExact
    <2>7. ASSUME Intact, ~durable PROVE Cardinality(Known') = Cardinality(Known) - 1
      <3>1. jobs \cap reserved = {}
        BY <2>7, Zenon DEF DoneInv, FreshInv, Intact
      <3>2. Known' = Known \ {s} /\ s \in Known
        BY <1>1, <2>7, <3>1, Zenon DEF Known
      <3> QED
        BY <1>3, <3>2, OneBit, Zenon
    <2>8. ASSUME Intact' PROVE Cardinality(Known') <= b'.total + ambiguous'
      <3>1. Cardinality(Known) <= b.total + ambiguous
        BY <2>5, <2>8, Zenon DEF DoneInv, TotalInv
      <3>2. CASE durable
        BY <1>3, <2>1, <2>2, <3>1, <3>2
      <3>3. CASE ~durable
        BY <1>3, <2>1, <2>2, <2>5, <2>7, <2>8, <3>1, <3>3
      <3> QED
        BY <3>2, <3>3, Zenon
    <2>9. SuccessMeansDone' /\ CompleteMeansTouched'
      BY <2>2, <2>3, Zenon DEF SuccessMeansDone, CompleteMeansTouched
    <2> QED
      BY <2>4, <2>6, <2>8, <2>9, Zenon DEF DoneInv, TotalInv
  <1> QED
    BY <1>4, <1>5, Zenon


-----------------------------------------------------------------------------
(* Seals, events and expiry keep the invariant *)

\* A script that grants nothing changes no count of grants.
LEMMA NoGrant ==
    ASSUME TypeOK, Grant({})
    PROVE  grants' = grants
  BY DEF Grant, TypeOK

\* on_success is never due without on_complete.
LEMMA DueTogether ==
    ASSUME NEW l, NEW v, "success" \in Due(l, v)
    PROVE  "complete" \in Due(l, v)
  BY Zenon DEF Due, Kinds

\* A seal stamps what it grants, and grants what is due.
LEMMA SealKeeps ==
    ASSUME TypeOK, TypeOK', DoneInv, Seal
    PROVE  DoneInv'
  <1>0. b \in Ledger /\ now \in Nat /\ b' = SealBatch(b, now) /\ Grant(SealGrants(b))
        /\ UNCHANGED <<clientVars, ran, succeeded, lapsed>>
        /\ scrubbed' = (scrubbed \/ \E m \in Bitmaps : b[m] # b'[m])
    BY Shapes, Zenon DEF Seal
  <1>1. CASE ~Live(b)
    <2>1. b' = b /\ SealGrants(b) = {}
      BY <1>0, <1>1, Zenon DEF SealBatch, SealGrants, Live
    <2>2. grants' = grants /\ scrubbed' = scrubbed
      BY <1>0, <2>1, NoGrant, Zenon DEF TypeOK
    <2> QED
      BY <1>0, <2>1, <2>2, QuietKeeps, Zenon DEF SameCounts, history
  <1>2. CASE Live(b)
    <2> DEFINE k == Locked(b, now)
               v == SealVerdict(b)
               granted == SealGrants(b)
               bit == IF b.total > 0 THEN {b.total + 1} ELSE {}
    <2>1. /\ SameCounts(k, b')
          /\ granted = IF b.status = "running" THEN Due(b, v) \ b.claims ELSE {}
          /\ b'.claims = b.claims \cup granted
                            \cup (IF "complete" \in granted THEN {"any"} ELSE {})
      BY <1>0, <1>2, SealEffect, Zenon
    <2>2. /\ k.total = b.total /\ k.seq = b.seq /\ k.touchedN = b.touchedN
          /\ k.completedN = b.completedN /\ k.failedN = b.failedN
          /\ k.touch = b.touch \ bit /\ k.ok = b.ok \ bit /\ k.fail = b.fail \ bit
      BY <1>0, LockedEffect, Zenon
    <2>3. granted \in SUBSET Kinds /\ granted \subseteq Due(b, v) /\ granted \cap b.claims = {}
      BY <1>0, <2>1, VerdictType, Zenon
    <2> HIDE DEF k, v, granted, bit
    <2>4. /\ b'.total = b.total /\ b'.seq = b.seq /\ b'.touchedN = b.touchedN
          /\ b'.completedN = b.completedN /\ b'.failedN = b.failedN
          /\ b'.touch \subseteq b.touch /\ b'.ok \subseteq b.ok /\ b'.fail \subseteq b.fail
      BY <2>1, <2>2, Zenon DEF SameCounts
    <2>5. BitsInv' /\ FreshInv'
      BY <1>0, <1>2, <2>4, Zenon DEF DoneInv, BitsInv, FreshInv, Known, clientVars
    <2>6. GrantsInv'
      <3>1. "success" \in granted => "complete" \in granted \cup b.claims
        BY <2>1, <2>3, DueTogether, Zenon
      <3> QED
        BY <1>0, <1>2, <2>1, <2>3, <3>1, GrantKeeps, Zenon DEF DoneInv, granted
    <2>7. Intact' => Intact /\ b'.touch = b.touch /\ b'.ok = b.ok /\ b'.fail = b.fail
      BY <1>0, <1>2, Zenon DEF Intact, Bitmaps, TypeOK
    <2>8. CountersExact'
      BY <2>4, <2>7, Zenon DEF DoneInv, CountersExact
    <2>9. ASSUME Intact' PROVE /\ "success" \in granted => Cardinality(b'.ok) >= b'.total
                               /\ "complete" \in granted => Cardinality(b'.touch) >= b'.total
      <3>1. Exact(b)
        BY <2>7, <2>9, Zenon DEF DoneInv, CountersExact, Exact
      <3>2. /\ "success" \in Due(b, v) => Cardinality(b.ok) >= b.total
            /\ "complete" \in Due(b, v) => Cardinality(b.touch) >= b.total
        BY <1>0, <3>1, Shapes, DueMeansDone, Zenon DEF DoneInv, v
      <3> QED
        BY <2>3, <2>4, <2>7, <2>9, <3>2, Zenon
    <2>10. b'.claims \cap Kinds \subseteq b.claims \cup granted
      BY <2>1, Zenon DEF Kinds
    <2>11. TotalInv' /\ SuccessMeansDone' /\ CompleteMeansTouched'
      BY <1>0, <2>4, <2>5, <2>7, <2>9, <2>10, DueKeeps, Zenon
    <2> QED
      BY <2>5, <2>6, <2>8, <2>11, Zenon DEF DoneInv
  <1> QED
    BY <1>1, <1>2, Zenon
\* An event that is applied, or found to be a duplicate, stamps what it grants and
\* grants what is due.
LEMMA EventKeeps ==
    ASSUME TypeOK, TypeOK', DoneInv, NEW s \in Seqs, NEW op \in Ops, Event(s, op)
    PROVE  DoneInv'
  <1>0. /\ b \in Ledger /\ now \in Nat /\ s \in Nat /\ s \in jobs
        /\ b' = BatchDoneJob(b, s, op, now) /\ Grant(DoneJobGrants(b, s, op, now))
        /\ UNCHANGED <<clientVars, scrubbed, lapsed>>
        /\ ran' = ran \cup {s}
        /\ succeeded' = IF op = "success" THEN succeeded \cup {s} ELSE succeeded
    BY Shapes, Zenon DEF Event
  <1>1. CASE ~Live(b) \/ Duplicate(b, s, op)
    <2>1. b' = b /\ DoneJobGrants(b, s, op, now) = {}
      BY <1>0, <1>1, Zenon DEF BatchDoneJob, DoneJobGrants
    <2>2. grants' = grants
      BY <1>0, <2>1, NoGrant, Zenon
    <2>3. BitsInv' /\ FreshInv' /\ GrantsInv' /\ CountersExact' /\ (Intact' => Intact)
      BY <1>0, <2>1, <2>2
     , Zenon DEF DoneInv, BitsInv, FreshInv, GrantsInv, CountersExact, Intact, Known, clientVars
    <2> DEFINE none == {}
    <2>4. TotalInv' /\ SuccessMeansDone' /\ CompleteMeansTouched'
      <3>1. /\ ran \subseteq ran' /\ succeeded \subseteq succeeded' /\ b'.total = b.total
            /\ b'.claims \cap Kinds \subseteq b.claims \cup none
            /\ "success" \notin none /\ "complete" \notin none
        BY <1>0, <2>1, Zenon
      <3> HIDE DEF none
      <3> QED
        BY <1>0, <2>3, <3>1, DueKeeps, Zenon
    <2> QED
      BY <2>3, <2>4, Zenon DEF DoneInv
  <1>2. CASE Live(b) /\ ~Duplicate(b, s, op)
    <2> DEFINE c == Counted(b, s, op, now)
               v == Verdict(c)
               granted == DoneJobGrants(b, s, op, now)
    <2>1. /\ SameCounts(c, b')
          /\ granted = IF Decidable(c) THEN Due(c, v) \ b.claims ELSE {}
          /\ b'.claims = b.claims \cup granted
                            \cup (IF "complete" \in granted THEN {"any"} ELSE {})
      BY <1>0, <1>2, DoneJobEffect, Zenon
    <2>2. /\ c.total = b.total /\ c.seq = b.seq
          /\ c.touch = b.touch \cup {s} /\ c.ok \subseteq b.ok \cup {s}
          /\ c.fail \subseteq b.fail \cup {s}
          /\ op # "success" => c.ok = b.ok
      <3>1. /\ c.total = b.total /\ c.seq = b.seq /\ c.touch = b.touch \cup {s}
            /\ c.ok = IF op = "success" /\ s \notin b.ok THEN b.ok \cup {s} ELSE b.ok
        BY <1>0, Zenon DEF Counted, Ledger
      <3>2. c.fail = IF op = "failed" /\ s \notin b.ok \cup b.fail THEN b.fail \cup {s}
                     ELSE IF op = "success" /\ s \notin b.ok /\ s \in b.fail THEN b.fail \ {s}
                     ELSE b.fail
        BY <1>0, Zenon DEF Counted, Ledger
      <3> HIDE DEF c
      <3> QED
        BY <3>1, <3>2, Zenon
    <2>3. c \in Ledger
      BY <1>0, CountType, Zenon
    <2>4. granted \in SUBSET Kinds /\ granted \subseteq Due(c, v) /\ granted \cap b.claims = {}
      BY <2>1, <2>3, VerdictType, Zenon
    <2>5. Exact(b) => Exact(c)
      BY <1>0, Shapes, CountedExact, Zenon DEF DoneInv
    <2> HIDE DEF c, v, granted
    <2>6. b'.total = b.total /\ b'.seq = b.seq
      BY <2>1, <2>2, Zenon DEF SameCounts
    <2>7. BitsInv'
      BY <1>0, <2>1, <2>2, Zenon DEF SameCounts, DoneInv, BitsInv, clientVars
    <2>8. FreshInv'
      BY <1>0, <1>2, <2>6, Zenon DEF DoneInv, FreshInv, Known, clientVars
    <2>9. GrantsInv'
      <3>1. "success" \in granted => "complete" \in granted \cup b.claims
        BY <2>1, <2>4, DueTogether, Zenon
      <3> QED
        BY <1>0, <1>2, <2>1, <2>4, <3>1, GrantKeeps, Zenon DEF DoneInv, granted
    <2>10. Intact' => Intact
      BY <1>0, <1>2, Zenon DEF Intact
    <2>11. ASSUME Intact' PROVE Exact(c) /\ Exact(b')
      <3>1. Exact(b)
        BY <2>10, <2>11, Zenon DEF DoneInv, CountersExact, Exact
      <3> QED
        BY <2>1, <2>5, <3>1, Zenon DEF Exact, SameCounts
    <2>12. CountersExact'
      BY <2>11, Zenon DEF CountersExact, Exact
    <2>13. ASSUME Intact' PROVE /\ "success" \in granted => Cardinality(b'.ok) >= b'.total
                                /\ "complete" \in granted => Cardinality(b'.touch) >= b'.total
      <3>0. b'.touch = c.touch /\ b'.ok = c.ok /\ b'.fail = c.fail /\ b'.total = c.total
        BY <2>1, Zenon DEF SameCounts
      <3>1. IsFiniteSet(c.touch) /\ IsFiniteSet(c.ok) /\ IsFiniteSet(c.fail)
        <4>1. b'.touch \subseteq Seqs /\ b'.ok \subseteq Seqs /\ b'.fail \subseteq Seqs
          BY <2>7, Zenon DEF BitsInv, TypeOK
        <4> QED
          BY <3>0, <4>1, SeqsFinite, Zenon
      <3>2. /\ "success" \in Due(c, v) => Cardinality(c.ok) >= c.total
            /\ "complete" \in Due(c, v) => Cardinality(c.touch) >= c.total
        BY <2>3, <2>11, <2>13, <3>1, DueMeansDone, Zenon DEF v
      <3> QED
        BY <2>4, <3>0, <3>2, Zenon
    <2>14. /\ b'.claims \cap Kinds \subseteq b.claims \cup granted
           /\ ran \subseteq ran' /\ succeeded \subseteq succeeded'
      BY <1>0, <2>1, Zenon DEF Kinds
    <2>15. TotalInv' /\ SuccessMeansDone' /\ CompleteMeansTouched'
      BY <1>0, <2>6, <2>7, <2>10, <2>13, <2>14, DueKeeps, Zenon
    <2> QED
      BY <2>7, <2>8, <2>9, <2>12, <2>15, Zenon DEF DoneInv
  <1> QED
    BY <1>1, <1>2, Zenon

\* As long as no key but the hash has expired, bits and allocator are as they were.
LEMMA ExpireLapses ==
    ASSUME NEW l \in Ledger, NEW t \in Nat,
           \A k \in Keys \ {"hash"} : ~(l.exp[k] # 0 /\ Expire(l, t).exp[k] = 0)
    PROVE  LET r == Expire(l, t)
           IN  r.touch = l.touch /\ r.ok = l.ok /\ r.fail = l.fail /\ r.seq = l.seq
  <1> DEFINE gone == {k \in Present(l.exp) : l.exp[k] <= t}
             ex == Arm(l.exp, gone, 0)
  <1>1. Expire(l, t).exp = ex
    BY Zenon DEF Expire, Ledger
  <1>2. \A k \in {"touch", "ok", "fail", "seq"} : k \notin gone
    BY <1>1, Zenon DEF Arm, Present, Keys, Bitmaps
  <1> HIDE DEF gone
  <1> QED
    BY <1>2, Zenon DEF Expire, Ledger, gone

\* The fields the invariant speaks of are as they were.
SameFields(r) ==
    /\ r.claims = b.claims /\ r.total = b.total /\ r.touchedN = b.touchedN
    /\ r.completedN = b.completedN /\ r.failedN = b.failedN
    /\ r.touch = b.touch /\ r.ok = b.ok /\ r.fail = b.fail

\* Expiry ends the batch, or is known to have taken keys, or takes nothing.
LEMMA TickKeeps ==
    ASSUME TypeOK, TypeOK', DoneInv, Tick
    PROVE  DoneInv'
  <1> DEFINE r == Expire(b, now + 1)
  <1>0. /\ b \in Ledger /\ now + 1 \in Nat /\ Live(b) /\ b' = r
        /\ lapsed' = (lapsed \/ \E k \in Keys \ {"hash"} : b.exp[k] # 0 /\ b'.exp[k] = 0)
        /\ UNCHANGED <<clientVars, ran, succeeded, grants, scrubbed>>
    BY Shapes, Zenon DEF Tick
  <1>1. /\ r.touch \subseteq b.touch /\ r.ok \subseteq b.ok /\ r.fail \subseteq b.fail
        /\ \/ ~Live(r) /\ r.claims = {}
           \/ /\ r.status = b.status /\ r.claims = b.claims
              /\ r.total = b.total /\ r.touchedN = b.touchedN
              /\ r.completedN = b.completedN /\ r.failedN = b.failedN
    BY <1>0, ExpireEffect, Zenon
  <1>2. ~lapsed' => r.touch = b.touch /\ r.ok = b.ok /\ r.fail = b.fail /\ r.seq = b.seq
    BY <1>0, ExpireLapses, Zenon
  <1> HIDE DEF r
  <1>3. BitsInv'
    BY <1>0, <1>1, Zenon DEF DoneInv, BitsInv, clientVars
  <1>4. ~Live(r) \/ (r.status = b.status /\ r.claims = b.claims
              /\ r.total = b.total /\ r.touchedN = b.touchedN
              /\ r.completedN = b.completedN /\ r.failedN = b.failedN)
    BY <1>1, Zenon
  <1>5. FreshInv'
    BY <1>0, <1>2, Zenon DEF DoneInv, FreshInv, Known, clientVars
  <1>6. GrantsInv'
    BY <1>0, <1>1, Zenon DEF DoneInv, GrantsInv
  <1>7. CASE ~Live(r) \/ lapsed'
    BY <1>0, <1>3, <1>5, <1>6, <1>7
   , Zenon DEF DoneInv, TotalInv, CountersExact, SuccessMeansDone, CompleteMeansTouched, Intact
  <1>8. CASE Live(r) /\ ~lapsed'
    <2>1. SameFields(r)
      BY <1>2, <1>4, <1>8, Zenon DEF SameFields
    <2>2. Intact' => Intact
      BY <1>0, <1>8, Zenon DEF Intact
    <2>3. TotalInv' /\ CountersExact'
      BY <1>0, <2>1, <2>2, Zenon DEF SameFields, DoneInv, TotalInv, CountersExact, Known, clientVars
    <2>4. SuccessMeansDone' /\ CompleteMeansTouched'
      BY <1>0, <2>1, <2>2, Zenon DEF SameFields, DoneInv, SuccessMeansDone, CompleteMeansTouched, clientVars
    <2> QED
      BY <1>3, <1>5, <1>6, <2>3, <2>4, Zenon DEF DoneInv
  <1> QED
    BY <1>7, <1>8, Zenon

-----------------------------------------------------------------------------
(* The theorems *)

\* The invariant holds in every reachable state.
LEMMA DoneHolds == Spec => []DoneInv
  <1>1. Init => DoneInv
    <2> SUFFICES ASSUME Init PROVE DoneInv
      BY Zenon
    <2>1. ~Live(b) /\ b.touch = {} /\ b.ok = {} /\ b.fail = {} /\ b.claims = {}
          /\ grants = [k \in Kinds |-> 0]
      BY Zenon DEF Init, NoLedger, Live
    <2>2. BitsInv /\ FreshInv /\ GrantsInv
      BY <2>1, Zenon DEF BitsInv, FreshInv, GrantsInv
    <2> QED
      BY <2>1, <2>2
     , Zenon DEF DoneInv, TotalInv, CountersExact, SuccessMeansDone, CompleteMeansTouched, Intact
  <1>2. TypeOK /\ TypeOK' /\ CountsInv /\ DoneInv /\ [Next]_vars => DoneInv'
    <2> SUFFICES ASSUME TypeOK, TypeOK', CountsInv, DoneInv, [Next]_vars PROVE DoneInv'
      BY Zenon
    <2>1. ASSUME NEW sealed \in BOOLEAN, Create(sealed) PROVE DoneInv'
      BY <2>1, CreateKeeps, Zenon
    <2>2. CASE Index
      <3>1. SameCounts(b, b') /\ b'.claims = b.claims /\ b'.status = b.status
        BY <2>2, Shapes, Zenon DEF Index, IndexBatch, SameCounts, Ledger
      <3> QED
        BY <2>2, <3>1, QuietKeeps, Zenon DEF Index, Live, clientVars, history
    <2>3. ASSUME NEW n \in PushSizes, Reserve(n) PROVE DoneInv'
      BY <2>3, ReserveKeeps, Zenon
    <2>4. ASSUME NEW s \in Seqs, Produce(s) PROVE DoneInv'
      BY <2>4, ProduceKeeps, Zenon
    <2>5. ASSUME NEW s \in Seqs, NEW durable \in BOOLEAN, RollBack(s, durable) PROVE DoneInv'
      BY <2>5, RollBackKeeps, Zenon
    <2>6. CASE Seal
      BY <2>6, SealKeeps, Zenon
    <2>7. ASSUME NEW s \in Seqs, NEW op \in Ops, Event(s, op) PROVE DoneInv'
      BY <2>7, EventKeeps, Zenon
    <2>8. CASE Cancel
      <3>1. SameCounts(b, b') /\ b'.claims = b.claims /\ Live(b)
        BY <2>8, Shapes, Zenon DEF Cancel, CancelBatch, SameCounts, Ledger, Live
      <3> QED
        BY <2>8, <3>1, QuietKeeps, Zenon DEF Cancel, clientVars, history
    <2>9. CASE Tick
      BY <2>9, TickKeeps, Zenon
    <2>10. CASE UNCHANGED vars
      BY <2>10, QuietKeeps, Zenon DEF vars, clientVars, history, SameCounts
    <2> QED
      BY <2>1, <2>2, <2>3, <2>4, <2>5, <2>6, <2>7, <2>8, <2>9, <2>10, Zenon DEF Next
  <1> QED
    BY <1>1, <1>2, TypeCorrect, CountsHold, PTL DEF Spec

\* Completions, the early on_complete and seals racing each other hand out each callback
\* at most once, in the batch's whole life (the HSETNX stamps of batchDoneJobLua and
\* sealBatchLua).
THEOREM GrantedOnce == Spec => []GrantOnce
  <1>1. DoneInv => GrantOnce
    BY DEF DoneInv, GrantsInv, GrantOnce
  <1> QED
    BY <1>1, DoneHolds, PTL

\* While the bitmaps are intact the counters of the hash are the numbers of bits in them
\* (batchDoneJobLua, which moves a failure that later succeeds).
THEOREM CountersCorrect == Spec => []CountersExact
  <1>1. DoneInv => CountersExact
    BY Zenon DEF DoneInv
  <1> QED
    BY <1>1, DoneHolds, PTL

\* on_success is claimed only when every job that was pushed, but for mistaken
\* roll-backs, has succeeded (total of addJobsLua against completed_count).
THEOREM SuccessIsEarned == Spec => []SuccessMeansDone
  <1>1. DoneInv => SuccessMeansDone
    BY Zenon DEF DoneInv
  <1> QED
    BY <1>1, DoneHolds, PTL

\* on_complete is claimed only when every job that was pushed, but for mistaken
\* roll-backs, has run (total of addJobsLua against touched_count).
THEOREM CompleteIsEarned == Spec => []CompleteMeansTouched
  <1>1. DoneInv => CompleteMeansTouched
    BY Zenon DEF DoneInv
  <1> QED
    BY <1>1, DoneHolds, PTL

\* No seq is handed out twice while the allocator's key lives (addJobsLua, whose
\* roll-backs leave the allocator alone).
THEOREM AllocatorStaysAhead == Spec => []AllocatorAhead
  <1>1. DoneInv => AllocatorAhead
    BY Zenon DEF DoneInv, FreshInv, BitsInv, AllocatorAhead, Known
  <1> QED
    BY <1>1, DoneHolds, PTL

\* Whatever a seal clears and whatever expires, no counter of the hash falls behind its
\* bitmap (batchDoneJobLua counts with the bit it sets).
THEOREM CountersStayAhead == Spec => []NeverUndercounts
  <1>1. Init => NeverUndercounts
    BY DEF Init, NoLedger, NeverUndercounts, Live
  <1>2. TypeOK /\ DoneInv /\ NeverUndercounts /\ [Next]_vars => NeverUndercounts'
    <2> SUFFICES ASSUME TypeOK, DoneInv, NeverUndercounts, [Next]_vars PROVE NeverUndercounts'
      BY Zenon
    <2>0. b \in Ledger /\ now \in Nat /\ now + 1 \in Nat /\ Seqs \subseteq Nat
      BY Shapes, Zenon
    <2>a. ASSUME SameCounts(b, b'), Live(b') => Live(b) PROVE NeverUndercounts'
      BY <2>a, Zenon DEF NeverUndercounts, SameCounts
    <2>1. ASSUME NEW sealed \in BOOLEAN, Create(sealed) PROVE NeverUndercounts'
      <3>1. /\ b'.touch = {} /\ b'.ok = {} /\ b'.fail = {}
            /\ b'.touchedN = 0 /\ b'.completedN = 0 /\ b'.failedN = 0
        BY <2>1, Zenon DEF Create, CreateBatch, NoLedger
      <3> QED
        BY <3>1, FS_EmptySet DEF NeverUndercounts
    <2>2. CASE Index
      <3>1. SameCounts(b, b') /\ Live(b)
        BY <2>0, <2>2, Zenon DEF Index, IndexBatch, SameCounts, Ledger
      <3> QED
        BY <3>1, <2>a, Zenon
    <2>11. CASE Cancel
      <3>1. SameCounts(b, b') /\ Live(b)
        BY <2>0, <2>11, Zenon DEF Cancel, CancelBatch, SameCounts, Ledger, Live
      <3> QED
        BY <3>1, <2>a, Zenon
    <2>3. ASSUME NEW n \in Int, b' = AddJobs(b, n, now) PROVE NeverUndercounts'
      <3>1. /\ b'.status = b.status /\ b'.touch = b.touch /\ b'.ok = b.ok /\ b'.fail = b.fail
            /\ b'.touchedN = b.touchedN /\ b'.completedN = b.completedN /\ b'.failedN = b.failedN
        <4>1. Added(b, n, b')
          BY <2>0, <2>3, AddJobsEffect, Zenon
        <4> QED
          BY <4>1, Zenon DEF Added
      <3> QED
        BY <3>1, Zenon DEF NeverUndercounts, Live
    <2>4. ASSUME NEW n \in PushSizes, Reserve(n) PROVE NeverUndercounts'
      BY <2>3, <2>4, BoundsAssumption DEF Reserve
    <2>5. ASSUME b' = b PROVE NeverUndercounts'
      BY <2>5, Zenon DEF NeverUndercounts
    <2>6. ASSUME NEW s \in Seqs, NEW durable \in BOOLEAN, RollBack(s, durable)
          PROVE  NeverUndercounts'
      BY <2>3, <2>5, <2>6 DEF RollBack
    <2>7. CASE Seal
      <3>1. CASE ~Live(b)
        BY <2>5, <2>7, <3>1, Zenon DEF Seal, SealBatch, Live
      <3>2. CASE Live(b)
        <4> DEFINE k == Locked(b, now)
                   bit == IF b.total > 0 THEN {b.total + 1} ELSE {}
        <4>1. SameCounts(k, b')
          BY <2>0, <2>7, <3>2, SealEffect, Zenon DEF Seal
        <4>2. /\ k.touchedN = b.touchedN /\ k.completedN = b.completedN /\ k.failedN = b.failedN
              /\ k.touch = b.touch \ bit /\ k.ok = b.ok \ bit /\ k.fail = b.fail \ bit
          BY <2>0, LockedEffect, Zenon
        <4> HIDE DEF k, bit
        <4>3. /\ b'.touchedN = b.touchedN /\ b'.completedN = b.completedN /\ b'.failedN = b.failedN
              /\ b'.touch \subseteq b.touch /\ b'.ok \subseteq b.ok /\ b'.fail \subseteq b.fail
          BY <4>1, <4>2, Zenon DEF SameCounts
        <4> QED
          BY <3>2, <4>3, FewerBits, Zenon
      <3> QED
        BY <3>1, <3>2, Zenon
    <2>8. ASSUME NEW s \in Seqs, NEW op \in Ops, Event(s, op) PROVE NeverUndercounts'
      <3>1. CASE ~Live(b) \/ Duplicate(b, s, op)
        BY <2>5, <2>8, <3>1, Zenon DEF Event, BatchDoneJob
      <3>2. CASE Live(b) /\ ~Duplicate(b, s, op)
        <4> DEFINE c == Counted(b, s, op, now)
        <4>0. s \in Nat
          BY <2>0, Zenon
        <4>1. SameCounts(c, b')
          BY <2>0, <2>8, <3>2, <4>0, DoneJobEffect, Zenon DEF Event
        <4>2. /\ Cardinality(c.touch) <= c.touchedN
              /\ Cardinality(c.ok) <= c.completedN
              /\ Cardinality(c.fail) <= c.failedN
          BY <2>0, <3>2, <4>0, Shapes, CountedAhead, Zenon DEF NeverUndercounts, DoneInv
        <4> HIDE DEF c
        <4> QED
          BY <4>1, <4>2, Zenon DEF SameCounts, NeverUndercounts
      <3> QED
        BY <3>1, <3>2, Zenon
    <2>9. CASE Tick
      <3> DEFINE r == Expire(b, now + 1)
      <3>1. /\ r.touch \subseteq b.touch /\ r.ok \subseteq b.ok /\ r.fail \subseteq b.fail
            /\ \/ ~Live(r)
               \/ /\ r.touchedN = b.touchedN
                  /\ r.completedN = b.completedN /\ r.failedN = b.failedN
        BY <2>0, <2>9, ExpireEffect, Zenon DEF Tick
      <3>2. b' = r /\ Live(b)
        BY <2>9, Zenon DEF Tick
      <3> HIDE DEF r
      <3> QED
        BY <3>1, <3>2, FewerBits, Zenon
    <2>10. CASE UNCHANGED vars \/ \E s \in Seqs : Produce(s)
      BY <2>5, <2>10, Zenon DEF vars, Produce
    <2> QED
      BY <2>1, <2>2, <2>4, <2>6, <2>7, <2>8, <2>9, <2>10, <2>11, Zenon DEF Next
  <1> QED
    BY <1>1, <1>2, TypeCorrect, DoneHolds, PTL DEF Spec
=============================================================================
