------------------------ MODULE BatchCallbacksProofs ------------------------
(***************************************************************************)
(* A batch's callbacks, for any jobs, events, poll size and number of      *)
(* faults: each runs once, and a claim stamp is answered for.  Most steps  *)
(* only carry messages from one place to the next; the scripts that grant  *)
(* a callback and the steps of the callback consumer are the others.       *)
(***************************************************************************)
EXTENDS BatchCallbacks, TLAPS

-----------------------------------------------------------------------------
(* The inductive invariant *)

\* What a message runs, and the claim and marker it runs under.
Runs(m) == RunsKinds(m.outcome)
Kind(m) == claimKind(m.outcome)

\* The messages on the road, and those that may answer for a claim.
Msgs     == callbacks \cup client \cup ep.fires \cup cc.msgs
Carriers == callbacks \cup ep.fires

\* The consumer is past the marker and about to run kind k.
Running(k) == cc.pc = "invoke" /\ \E m \in cc.msgs : k \in Runs(m)

\* The kinds that ran, or will unless they are dropped.
Ran == {k \in Kinds : runs[k] > 0 \/ k \in dropped \/ Running(k)}

\* The fields of the batch's hash that callbacks depend on.
Keyed(l) == {"status", "claims", "invoked"} \subseteq DOMAIN l

ShapeInv ==
    /\ Keyed(b) /\ b.status \in Statuses /\ b.invoked \subseteq b.claims
    /\ Msgs \subseteq Message
    /\ {"pc", "fires"} \subseteq DOMAIN ep /\ (ep.pc = "idle" => ep.fires = {})
    /\ cc \in [pc : {"idle", "mark", "invoke"}, msgs : SUBSET callbacks]
    /\ cc.pc = "idle" => cc.msgs = {}
    /\ \A m \in cc.msgs : cc.msgs = {m}
    /\ rc \in [pc : {"idle", "mark", "produce"}, outcome : Terminal, marked : BOOLEAN]
    /\ runs \in [Kinds -> Nat] /\ failOpen \in Nat

\* Kind k runs as often as its marker was set or failed open.
Bounded(k, kind) ==
    runs[k] + (IF Running(k) THEN 1 ELSE 0) <= (IF kind \in b.invoked THEN 1 ELSE 0) + failOpen

\* Until the reconciler finishes the batch every callback on the road was granted by
\* a script, complete to one message, which runs it under one marker.
GrantInv ==
    ~rc.marked =>
        /\ \A m \in Msgs : Runs(m) \subseteq b.claims
        /\ b.status \in Terminal => RunsKinds(b.status) \subseteq b.claims
        /\ rc.pc # "produce"
        /\ runs["complete"] > 0 => "complete" \in b.claims
        /\ \E kind \in Kinds : /\ Bounded("complete", kind)
                               /\ \A m \in Msgs : "complete" \in Runs(m) => Kind(m) = kind

\* What is stamped for the messages on the road, and that a preclaimed one whose marker
\* is set has run.
StampInv ==
    /\ \A m \in Msgs : m.preclaimed => Runs(m) \subseteq b.claims
    /\ \A m \in Msgs : m.outcome = "success_only" => "success" \in b.claims
    /\ \A m, n \in Msgs : m.preclaimed /\ m.outcome = "success" => n.outcome # "success_only"
    /\ \A m \in Msgs : m.preclaimed /\ Kind(m) \in b.invoked => Runs(m) \subseteq Ran
    /\ cc.pc = "mark" => \A m \in cc.msgs : m.preclaimed \/ Kind(m) \in b.claims \ b.invoked

\* A claim is answered by what ran, was parked, or is carried with no claim to win.
AnswerInv ==
    \A k \in (Kinds \cap b.claims) \ (bySeal \cup dropped) :
        \/ runs[k] > 0 \/ k \in parked
        \/ \E m \in Carriers \cup cc.msgs : k \in Runs(m) /\ (m.preclaimed \/ m \in cc.msgs)

CallbackInv ==
    ShapeInv /\ Bounded("success", "success") /\ GrantInv /\ StampInv /\ AnswerInv

-----------------------------------------------------------------------------
(* The scripts *)

\* A message that carries what a script granted runs just that.
LEMMA FiresRun ==
    ASSUME NEW g, g \subseteq Kinds, NEW p \in BOOLEAN, NEW m \in Fires(g, p)
    PROVE  m \in Message /\ Runs(m) = g /\ g # {} /\ m.preclaimed = p
  BY DEF Fires, OutcomeOf, Runs, RunsKinds, Kinds, Message, Outcomes

\* A script on l that grants the kinds g and leaves r: what is granted was not claimed
\* and is claimed now, and a batch that ends claims what its status calls for.
Grants(l, r, g) ==
    /\ Keyed(r) /\ r.status \in Statuses /\ r.invoked = l.invoked
    /\ g \subseteq Kinds \ l.claims
    /\ l.claims \cup g \subseteq r.claims /\ r.claims \subseteq l.claims \cup g \cup {"any"}
    /\ r.status = l.status \/ (r.status \in Terminal /\ RunsKinds(r.status) \subseteq r.claims)

\* Claiming the kinds ks that are due, on a batch that ends with verdict v or goes on.
LEMMA ClaimGrants ==
    ASSUME NEW l, Keyed(l), l.status \in Statuses, NEW v \in Terminal \cup {"none"},
           NEW r, Keyed(r), r.claims = l.claims, r.invoked = l.invoked,
           r.status = IF l.status = "running" /\ v # "none" THEN v ELSE l.status,
           NEW ks, ks = Due(l, v)
    PROVE  Grants(l, Claim(r, ks), ks \ l.claims)
<1>1. ks \subseteq Kinds /\ (v # "none" => RunsKinds(v) \subseteq ks)
  BY Zenon DEF Due, Kinds, Terminal, RunsKinds
<1>2. PICK q : q = Claim(r, ks)
  BY Zenon
<1>3. /\ Keyed(q) /\ q.status = r.status /\ q.invoked = r.invoked
      /\ q.claims = l.claims \cup ks \cup (IF "complete" \in ks \ l.claims THEN {"any"} ELSE {})
  BY <1>2, Zenon DEF Claim, Granted, Keyed
<1>4. q.status \in Statuses
  BY <1>3, Zenon DEF Statuses
<1> QED
  BY <1>1, <1>2, <1>3, <1>4, Zenon DEF Grants

\* Finishing.
LEMMA FinishFields ==
    ASSUME NEW l, Keyed(l), NEW v
    PROVE  /\ Keyed(Finish(l, v)) /\ Finish(l, v).claims = l.claims
           /\ Finish(l, v).invoked = l.invoked
           /\ Finish(l, v).status = IF l.status = "running" /\ v # "none" THEN v ELSE l.status
  BY Zenon DEF Finish, Keyed

\* A verdict is a terminal status, or none.
LEMMA Verdicts ==
    ASSUME NEW l PROVE Verdict(l) \in Terminal \cup {"none"} /\ SealVerdict(l) \in Terminal \cup {"none"}
  BY Zenon DEF Verdict, SealVerdict, Terminal

\* batchDoneJobLua.
LEMMA DoneJobGranting ==
    ASSUME NEW l, Keyed(l), l.status \in Statuses, NEW s, NEW op
    PROVE  Grants(l, BatchDoneJob(l, s, op, 0), DoneJobGrants(l, s, op, 0))
<1>0. Grants(l, l, {})
  BY Zenon DEF Grants
<1>1. PICK c : c = Counted(l, s, op, 0)
  BY Zenon
<1>2. /\ Keyed(c) /\ c.status = l.status /\ c.claims = l.claims /\ c.invoked = l.invoked
  BY <1>1, Zenon DEF Counted, Keyed
<1>3. Live(l)
  BY Zenon DEF Live, Statuses, Terminal
<1>4. CASE Duplicate(l, s, op) \/ ~Decidable(c)
  <2>1. DoneJobGrants(l, s, op, 0) = {}
    BY <1>1, <1>4, Zenon DEF DoneJobGrants
  <2>2. BatchDoneJob(l, s, op, 0) = l \/ BatchDoneJob(l, s, op, 0) = c
    BY <1>1, <1>4, Zenon DEF BatchDoneJob, Settled
  <2>3. Grants(l, c, {})
    BY <1>2, Zenon DEF Grants
  <2> QED
    BY <1>0, <2>1, <2>2, <2>3, Zenon
<1>5. CASE ~Duplicate(l, s, op) /\ Decidable(c)
  <2>1. PICK v : v = Verdict(c)
    BY Zenon
  <2>2. PICK d : d = Finish(c, v)
    BY Zenon
  <2>3. /\ Keyed(d) /\ d.claims = c.claims /\ d.invoked = c.invoked
        /\ d.status = IF c.status = "running" /\ v # "none" THEN v ELSE c.status
    BY <1>2, <2>2, FinishFields, Zenon
  <2>4. PICK k : k = IF d.status # c.status THEN Rearm(d, Keys, 0 + FinishedTTL) ELSE d
    BY Zenon
  <2>5. Keyed(k) /\ k.claims = d.claims /\ k.invoked = d.invoked /\ k.status = d.status
    BY <2>3, <2>4, Zenon DEF Rearm, Keyed
  <2>6. PICK ks : ks = Due(c, v)
    BY Zenon
  <2>7. BatchDoneJob(l, s, op, 0) = Claim(k, ks)
    BY <1>1, <1>3, <1>5, <2>1, <2>2, <2>4, <2>6, Zenon DEF BatchDoneJob, Settled
  <2>8. DoneJobGrants(l, s, op, 0) = ks \ l.claims
    BY <1>1, <1>2, <1>3, <1>5, <2>1, <2>6, Zenon DEF DoneJobGrants, Granted
  <2>9. v \in Terminal \cup {"none"}
    BY <2>1, Verdicts, Zenon
  <2>10. Grants(c, Claim(k, ks), ks \ c.claims)
    BY <1>2, <2>3, <2>5, <2>6, <2>9, ClaimGrants, Zenon
  <2> QED
    BY <1>2, <2>7, <2>8, <2>10, Zenon DEF Grants
<1> QED
  BY <1>4, <1>5, Zenon

\* sealBatchLua.
LEMMA SealGranting ==
    ASSUME NEW l, Keyed(l), l.status \in Statuses
    PROVE  Grants(l, SealBatch(l, 0), SealGrants(l))
<1>1. PICK c : c = Locked(l, 0)
  BY Zenon
<1>2. /\ Keyed(c) /\ c.status = l.status /\ c.claims = l.claims /\ c.invoked = l.invoked
  BY <1>1, Zenon DEF Locked, Keyed
<1>3. Live(l)
  BY Zenon DEF Live, Statuses, Terminal
<1>4. CASE l.status # "running"
  <2>1. SealBatch(l, 0) = c /\ SealGrants(l) = {}
    BY <1>1, <1>3, <1>4, Zenon DEF SealBatch, SealGrants
  <2> QED
    BY <1>2, <2>1, Zenon DEF Grants
<1>5. CASE l.status = "running"
  <2>1. PICK v : v = SealVerdict(l)
    BY Zenon
  <2>2. PICK d : d = Finish(c, v)
    BY Zenon
  <2>3. /\ Keyed(d) /\ d.claims = c.claims /\ d.invoked = c.invoked
        /\ d.status = IF c.status = "running" /\ v # "none" THEN v ELSE c.status
    BY <1>2, <2>2, FinishFields, Zenon
  <2>4. PICK ks : ks = Due(l, v)
    BY Zenon
  <2>5. SealVerdict(c) = v /\ Due(c, v) = ks
    BY <1>1, <2>1, <2>4 DEF Locked, SealVerdict, Verdict, Due
  <2>6. SealBatch(l, 0) = Claim(d, ks) /\ SealGrants(l) = ks \ l.claims
    BY <1>1, <1>3, <1>5, <2>1, <2>2, <2>4, <2>5, Zenon DEF SealBatch, SealGrants, Granted
  <2>7. v \in Terminal \cup {"none"}
    BY <2>1, Verdicts, Zenon
  <2> QED
    BY <1>2, <2>3, <2>4, <2>6, <2>7, ClaimGrants
<1> QED
  BY <1>4, <1>5, Zenon

-----------------------------------------------------------------------------
(* The kinds of step *)

\* What no step of the processes around the consumer touches.
Apart ==
    /\ cc' = cc /\ cc.msgs \subseteq callbacks' /\ runs' = runs /\ failOpen' = failOpen
    /\ {"pc", "fires"} \subseteq DOMAIN ep' /\ (ep'.pc = "idle" => ep'.fires = {})
    /\ parked \subseteq parked' /\ dropped \subseteq dropped' /\ bySeal \subseteq bySeal'

\* Messages are carried on, parked, dropped or skipped.  Only where the reconciler
\* finished the batch is one added: a batch's status, for the consumer to claim.
Carries ==
    /\ Apart
    /\ Keyed(b') /\ b'.status \in Statuses /\ b'.claims = b.claims /\ b'.invoked = b.invoked
    /\ rc'.marked \/ b'.status = b.status \/ b'.status = "cancelled"
    /\ rc' \in [pc : {"idle", "mark", "produce"}, outcome : Terminal, marked : BOOLEAN]
    /\ (rc.marked => rc'.marked) /\ (rc'.pc = "produce" => rc'.marked)
    /\ \A m \in Msgs' \ Msgs :
          rc'.marked /\ m \in Message /\ ~m.preclaimed /\ m.outcome \in Terminal
    /\ \A m \in Carriers \ Carriers' : m.preclaimed => Runs(m) \subseteq parked' \cup dropped'

\* A step that carries its messages on keeps the invariant.
LEMMA CarryKeeps == ASSUME CallbackInv, Carries PROVE CallbackInv'
<1>1. ShapeInv /\ Bounded("success", "success") /\ GrantInv /\ StampInv /\ AnswerInv
  BY Zenon DEF CallbackInv
<1>2. ShapeInv'
  <2>1. Msgs' \subseteq Message
    BY <1>1, Zenon DEF Carries, ShapeInv
  <2> QED
    BY <1>1, <2>1, Zenon DEF Carries, Apart, ShapeInv
<1>3. \A k \in Kinds : (Running(k)' <=> Running(k)) /\ (k \in Ran => k \in Ran')
  BY <1>1, Zenon DEF Running, Ran, Carries, Apart
<1>4. \A k, kind \in Kinds : Bounded(k, kind) => Bounded(k, kind)'
  BY <1>3, Zenon DEF Bounded, Carries, Apart
<1>5. GrantInv'
  <2>1. SUFFICES ASSUME ~rc'.marked PROVE GrantInv'
    BY Zenon DEF GrantInv
  <2>2. ~rc.marked /\ Msgs' \subseteq Msgs /\ rc'.pc # "produce"
        /\ (b'.status \in Terminal => b.status \in Terminal /\ b'.status = b.status)
    BY <2>1, Zenon DEF Carries, Terminal
  <2>3. PICK kind \in Kinds : /\ Bounded("complete", kind)
                              /\ \A m \in Msgs : "complete" \in Runs(m) => Kind(m) = kind
    BY <1>1, <2>2, Zenon DEF GrantInv
  <2>4. Bounded("complete", kind)' /\ \A m \in Msgs' : "complete" \in Runs(m) => Kind(m) = kind
    BY <1>4, <2>2, <2>3, Zenon DEF Kinds
  <2>5. \A m \in Msgs' : Runs(m) \subseteq b'.claims
    BY <1>1, <2>2, Zenon DEF GrantInv, Carries
  <2> QED
    BY <1>1, <2>2, <2>4, <2>5, Zenon DEF GrantInv, Carries, Apart
<1>6. StampInv'
  <2>1. \A m \in Msgs' : m \in Msgs \/ (~m.preclaimed /\ m.outcome # "success_only")
    BY Zenon DEF Carries, Terminal
  <2>2. /\ \A m \in Msgs' : m.preclaimed => Runs(m) \subseteq b'.claims
        /\ \A m \in Msgs' : m.outcome = "success_only" => "success" \in b'.claims
    BY <1>1, <2>1, Zenon DEF StampInv, Carries
  <2>3. \A m, n \in Msgs' : m.preclaimed /\ m.outcome = "success" => n.outcome # "success_only"
    BY <1>1, <2>1, Zenon DEF StampInv
  <2>4. \A m \in Msgs' : m.preclaimed /\ Kind(m) \in b'.invoked => Runs(m) \subseteq Ran'
    BY <1>1, <1>3, <2>1, Zenon DEF StampInv, Carries, Ran
  <2> QED
    BY <1>1, <2>2, <2>3, <2>4, Zenon DEF StampInv, Carries, Apart
<1>7. AnswerInv'
  <2>1. SUFFICES ASSUME NEW k \in (Kinds \cap b'.claims) \ (bySeal' \cup dropped'),
                        ~(runs'[k] > 0), k \notin parked'
                 PROVE  \E m \in Carriers' \cup cc'.msgs :
                            k \in Runs(m) /\ (m.preclaimed \/ m \in cc'.msgs)
    BY Zenon DEF AnswerInv
  <2>2. PICK m \in Carriers \cup cc.msgs : k \in Runs(m) /\ (m.preclaimed \/ m \in cc.msgs)
    BY <1>1, <2>1, Zenon DEF AnswerInv, Carries, Apart
  <2> QED
    BY <2>1, <2>2, Zenon DEF Carries, Apart
<1> QED
  BY <1>1, <1>2, <1>4, <1>5, <1>6, <1>7, Zenon DEF CallbackInv, Kinds

\* A script grants the kinds g, and a message to carry them: the event processor's is
\* preclaimed, the client's is not.
Hands(g, p) ==
    /\ Apart
    /\ Grants(b, b', g) /\ rc' = rc
    /\ Msgs' \subseteq Msgs \cup Fires(g, p) /\ Carriers \subseteq Carriers'
    /\ g \subseteq bySeal' \/ (p /\ Fires(g, p) \subseteq Carriers')

\* So does a script that stamps a claim and hands the grant to a process.
LEMMA GrantKeeps ==
    ASSUME CallbackInv, NEW g, NEW p \in BOOLEAN, Hands(g, p) PROVE CallbackInv'
<1>1. ShapeInv /\ Bounded("success", "success") /\ GrantInv /\ StampInv /\ AnswerInv
  BY Zenon DEF CallbackInv
<1>2. /\ g \subseteq Kinds \ b.claims /\ b.claims \cup g \subseteq b'.claims
      /\ b'.claims \subseteq b.claims \cup g \cup {"any"} /\ b'.invoked = b.invoked
  BY Zenon DEF Hands, Grants
<1>3. \A m \in Msgs' : m \in Msgs \/ (m \in Message /\ Runs(m) = g /\ g # {} /\ m.preclaimed = p)
  BY <1>2, FiresRun, Zenon DEF Hands
<1>4. ShapeInv'
  <2>1. Msgs' \subseteq Message
    BY <1>1, <1>3, Zenon DEF ShapeInv
  <2> QED
    BY <1>1, <1>2, <2>1, Zenon DEF Hands, Grants, Apart, ShapeInv
<1>5. \A k \in Kinds : (Running(k)' <=> Running(k)) /\ (k \in Ran => k \in Ran')
  BY <1>1, Zenon DEF Running, Ran, Hands, Apart
<1>6. \A k, kind \in Kinds : Bounded(k, kind) => Bounded(k, kind)'
  BY <1>2, <1>5, Zenon DEF Bounded, Hands, Apart
<1>7. GrantInv'
  <2>1. SUFFICES ASSUME ~rc'.marked PROVE GrantInv'
    BY Zenon DEF GrantInv
  <2>2. ~rc.marked /\ rc'.pc # "produce"
    BY <1>1, <2>1, Zenon DEF Hands, GrantInv
  <2>3. \A m \in Msgs' : Runs(m) \subseteq b'.claims
    BY <1>1, <1>2, <1>3, <2>2, Zenon DEF GrantInv
  <2>4. b'.status \in Terminal => RunsKinds(b'.status) \subseteq b'.claims
    BY <1>1, <1>2, <2>2, Zenon DEF GrantInv, Hands, Grants
  <2>5. runs'["complete"] > 0 => "complete" \in b'.claims
    BY <1>1, <1>2, <2>2, Zenon DEF GrantInv, Hands, Apart
  <2>6. \E kind \in Kinds : /\ Bounded("complete", kind)'
                            /\ \A m \in Msgs' : "complete" \in Runs(m) => Kind(m) = kind
    <3>1. PICK old \in Kinds : /\ Bounded("complete", old)
                               /\ \A m \in Msgs : "complete" \in Runs(m) => Kind(m) = old
      BY <1>1, <2>2, Zenon DEF GrantInv
    <3>2. CASE "complete" \notin g
      BY <1>3, <1>6, <3>1, <3>2, Zenon DEF Kinds
    <3>3. CASE "complete" \in g
      <4>1. PICK kind : kind = IF "success" \in g THEN "success" ELSE "complete"
        BY Zenon
      <4>2. \A m \in Msgs : "complete" \notin Runs(m)
        BY <1>1, <1>2, <2>2, <3>3, Zenon DEF GrantInv
      <4>3. \A m \in Message : Runs(m) = g => Kind(m) = kind
        BY <3>3, <4>1, Zenon DEF Runs, RunsKinds, Kind, claimKind, Message, Outcomes
      <4>4. runs["complete"] = 0 /\ ~Running("complete")
        <5>1. cc.msgs \subseteq Msgs /\ runs["complete"] \in Nat
          BY <1>1, Zenon DEF Msgs, ShapeInv, Kinds
        <5>2. ~(runs["complete"] > 0)
          BY <1>1, <1>2, <2>2, <3>3, Zenon DEF GrantInv
        <5> QED
          BY <4>2, <5>1, <5>2 DEF Running
      <4>5. Bounded("complete", kind)
        BY <1>1, <4>4 DEF Bounded, ShapeInv
      <4> QED
        BY <1>3, <1>6, <4>1, <4>2, <4>3, <4>5, Zenon DEF Kinds
    <3> QED
      BY <3>2, <3>3, Zenon
  <2> QED
    BY <2>2, <2>3, <2>4, <2>5, <2>6, Zenon DEF GrantInv
<1>8. StampInv'
  <2>1. \A m \in Message : Runs(m) = g =>
            /\ Kind(m) \in g
            /\ m.outcome = "success" => "success" \in g
            /\ m.outcome = "success_only" => "success" \in g
    BY Zenon DEF Runs, RunsKinds, Kind, claimKind, Message, Outcomes
  <2>2. "success" \in g =>
            \A m \in Msgs : /\ m.outcome # "success_only"
                            /\ ~(m.preclaimed /\ m.outcome = "success")
    BY <1>1, <1>2, Zenon DEF StampInv, Runs, RunsKinds
  <2>3. /\ \A m \in Msgs' : m.preclaimed => Runs(m) \subseteq b'.claims
        /\ \A m \in Msgs' : m.outcome = "success_only" => "success" \in b'.claims
    BY <1>1, <1>2, <1>3, <2>1, Zenon DEF StampInv
  <2>4. \A m, n \in Msgs' : m.preclaimed /\ m.outcome = "success" => n.outcome # "success_only"
    BY <1>1, <1>3, <2>1, <2>2 DEF StampInv, Runs, RunsKinds
  <2>5. \A m \in Msgs' : m.preclaimed /\ Kind(m) \in b'.invoked => Runs(m) \subseteq Ran'
    BY <1>1, <1>2, <1>3, <1>5, <2>1, Zenon DEF StampInv, ShapeInv, Ran
  <2> QED
    BY <1>1, <1>2, <2>3, <2>4, <2>5, Zenon DEF StampInv, Hands, Apart
<1>9. AnswerInv'
  <2>1. SUFFICES ASSUME NEW k \in (Kinds \cap b'.claims) \ (bySeal' \cup dropped'),
                        ~(runs'[k] > 0), k \notin parked'
                 PROVE  \E m \in Carriers' \cup cc'.msgs :
                            k \in Runs(m) /\ (m.preclaimed \/ m \in cc'.msgs)
    BY Zenon DEF AnswerInv
  <2>2. CASE k \in g
    <3>1. Fires(g, p) \subseteq Carriers' /\ p
      BY <2>1, <2>2, Zenon DEF Hands
    <3>2. PICK m : m \in Fires(g, p)
      BY <2>2, Zenon DEF Fires
    <3>3. Runs(m) = g /\ m.preclaimed
      BY <1>2, <3>1, <3>2, FiresRun, Zenon
    <3> QED
      BY <2>2, <3>1, <3>2, <3>3, Zenon
  <2>3. CASE k \in b.claims
    <3>1. PICK m \in Carriers \cup cc.msgs : k \in Runs(m) /\ (m.preclaimed \/ m \in cc.msgs)
      BY <1>1, <2>1, <2>3, Zenon DEF AnswerInv, Hands, Apart
    <3> QED
      BY <3>1, Zenon DEF Hands, Apart
  <2> QED
    BY <1>2, <2>1, <2>2, <2>3, Zenon DEF Kinds
<1> QED
  BY <1>1, <1>4, <1>6, <1>7, <1>8, <1>9, Zenon DEF CallbackInv, Kinds

\* The consumer lets its message go: it ran, was dropped, or stays on the topic with its
\* claim; or its marker was set, by what ran.
Releases ==
    /\ b' = b /\ ep' = ep /\ client' = client /\ rc' = rc
    /\ parked' = parked /\ bySeal' = bySeal /\ failOpen' = failOpen
    /\ cc' = [pc |-> "idle", msgs |-> {}]
    /\ callbacks' \subseteq callbacks /\ callbacks \ cc.msgs \subseteq callbacks'
    /\ dropped \subseteq dropped' /\ runs' \in [Kinds -> Nat]
    /\ \A k \in Kinds : runs[k] <= runs'[k] /\ runs'[k] <= runs[k] + (IF Running(k) THEN 1 ELSE 0)
    /\ \A k \in Kinds : Running(k) => runs'[k] > 0 \/ k \in dropped'
    /\ \A m \in cc.msgs : \/ Runs(m) \subseteq {k \in Kinds : runs'[k] > 0} \cup dropped'
                          \/ m.preclaimed /\ m \in callbacks'

\* So does a consumer that lets its message go.
LEMMA ReleaseKeeps == ASSUME CallbackInv, Releases PROVE CallbackInv'
<1>1. ShapeInv /\ Bounded("success", "success") /\ GrantInv /\ StampInv /\ AnswerInv
  BY Zenon DEF CallbackInv
<1>2. Msgs' \subseteq Msgs
  BY <1>1, Zenon DEF Releases, Msgs
<1>3. ShapeInv'
  <2>1. Msgs' \subseteq Message
    BY <1>1, <1>2, Zenon DEF ShapeInv
  <2> QED
    BY <1>1, <2>1, Zenon DEF Releases, ShapeInv
<1>4. \A k \in Kinds : ~Running(k)' /\ (k \in Ran => k \in Ran')
  <2>1. \A k \in Kinds : ~Running(k)'
    BY Zenon DEF Running, Releases
  <2>2. \A k \in Kinds : runs[k] \in Nat /\ runs'[k] \in Nat /\ runs[k] <= runs'[k]
    BY <1>1, Zenon DEF Releases, ShapeInv
  <2>3. \A k \in Kinds : runs[k] > 0 => runs'[k] > 0
    BY <2>2
  <2> QED
    BY <2>1, <2>3, Zenon DEF Ran, Releases
<1>5. \A k, kind \in Kinds : Bounded(k, kind) => Bounded(k, kind)'
  <2>1. SUFFICES ASSUME NEW k \in Kinds, NEW kind \in Kinds, Bounded(k, kind)
                 PROVE  Bounded(k, kind)'
    BY Zenon
  <2>2. runs[k] \in Nat /\ runs'[k] \in Nat /\ failOpen \in Nat /\ failOpen' = failOpen /\ b' = b
    BY <1>1, Zenon DEF Releases, ShapeInv
  <2>3. ~Running(k)' /\ runs'[k] <= runs[k] + (IF Running(k) THEN 1 ELSE 0)
    BY <1>4, Zenon DEF Releases
  <2> QED
    BY <2>1, <2>2, <2>3 DEF Bounded
<1>6. GrantInv'
  <2>1. SUFFICES ASSUME ~rc.marked, rc' = rc, b' = b PROVE GrantInv'
    BY Zenon DEF GrantInv, Releases
  <2>2. PICK kind \in Kinds : /\ Bounded("complete", kind)
                              /\ \A m \in Msgs : "complete" \in Runs(m) => Kind(m) = kind
    BY <1>1, <2>1, Zenon DEF GrantInv
  <2>3. Bounded("complete", kind)' /\ \A m \in Msgs' : "complete" \in Runs(m) => Kind(m) = kind
    BY <1>2, <1>5, <2>2, Zenon DEF Kinds
  <2>4. \A m \in Msgs' : Runs(m) \subseteq b'.claims
    BY <1>1, <1>2, <2>1, Zenon DEF GrantInv
  <2>5. runs'["complete"] > 0 => "complete" \in b'.claims
    <3>1. runs["complete"] \in Nat /\ runs'["complete"] \in Nat
          /\ runs'["complete"] <= runs["complete"] + (IF Running("complete") THEN 1 ELSE 0)
      BY <1>1, Zenon DEF Releases, ShapeInv, Kinds
    <3>2. Running("complete") => \E m \in Msgs : "complete" \in Runs(m)
      BY Zenon DEF Running, Msgs
    <3> QED
      BY <1>1, <2>1, <3>1, <3>2 DEF GrantInv
  <2> QED
    BY <1>1, <2>1, <2>3, <2>4, <2>5, Zenon DEF GrantInv
<1>7. StampInv'
  <2>1. \A m \in Msgs' : m.preclaimed /\ Kind(m) \in b'.invoked => Runs(m) \subseteq Ran'
    BY <1>1, <1>2, <1>4, Zenon DEF StampInv, Releases, Ran
  <2> QED
    BY <1>1, <1>2, <2>1, Zenon DEF StampInv, Releases
<1>8. AnswerInv'
  <2>1. SUFFICES ASSUME NEW k \in (Kinds \cap b.claims) \ (bySeal \cup dropped'),
                        ~(runs'[k] > 0), k \notin parked
                 PROVE  \E m \in Carriers' : k \in Runs(m) /\ m.preclaimed
    BY Zenon DEF AnswerInv, Releases
  <2>2. runs[k] \in Nat /\ runs'[k] \in Nat /\ runs[k] <= runs'[k]
    BY <1>1, <2>1, Zenon DEF Releases, ShapeInv
  <2>3. PICK m \in Carriers \cup cc.msgs : k \in Runs(m) /\ (m.preclaimed \/ m \in cc.msgs)
    BY <1>1, <2>1, <2>2 DEF AnswerInv, Releases
  <2> QED
    BY <2>1, <2>3, Zenon DEF Releases, Carriers
<1> QED
  BY <1>1, <1>3, <1>5, <1>6, <1>7, <1>8, Zenon DEF CallbackInv, Kinds

\* The consumer takes message m, whose claim is stamped or is stamped now.
Takes(m) ==
    /\ cc.msgs = {} /\ cc' = [pc |-> "mark", msgs |-> {m}] /\ m \in callbacks
    /\ UNCHANGED <<ep, client, callbacks, rc, runs, parked, bySeal, dropped, failOpen>>
    /\ Keyed(b') /\ b'.status = b.status /\ b'.invoked = b.invoked
    /\ \/ m.preclaimed /\ b'.claims = b.claims
       \/ /\ ~m.preclaimed /\ Kind(m) \notin b.claims
          /\ b'.claims = b.claims \cup {Kind(m), "any"}

\* So does a consumer that takes up a message.
LEMMA TakeKeeps == ASSUME CallbackInv, NEW m, Takes(m) PROVE CallbackInv'
<1>1. ShapeInv /\ Bounded("success", "success") /\ GrantInv /\ StampInv /\ AnswerInv
  BY Zenon DEF CallbackInv
<1>2. Msgs' = Msgs /\ m \in Msgs /\ m \in Message /\ b.claims \subseteq b'.claims
  BY <1>1 DEF Takes, Msgs, ShapeInv
<1>3. ShapeInv'
  BY <1>1, <1>2, Zenon DEF Takes, ShapeInv
<1>4. \A k \in Kinds : (Running(k)' <=> Running(k)) /\ (k \in Ran => k \in Ran')
  BY <1>1, Zenon DEF Running, Ran, Takes
<1>5. \A k, kind \in Kinds : Bounded(k, kind) => Bounded(k, kind)'
  BY <1>4, Zenon DEF Bounded, Takes
<1>6. GrantInv'
  <2>1. SUFFICES ASSUME ~rc.marked, rc' = rc PROVE GrantInv'
    BY Zenon DEF GrantInv, Takes
  <2>2. PICK kind \in Kinds : /\ Bounded("complete", kind)
                              /\ \A n \in Msgs : "complete" \in Runs(n) => Kind(n) = kind
    BY <1>1, <2>1, Zenon DEF GrantInv
  <2>3. Bounded("complete", kind)' /\ \A n \in Msgs' : "complete" \in Runs(n) => Kind(n) = kind
    BY <1>2, <1>5, <2>2, Zenon DEF Kinds
  <2> QED
    BY <1>1, <1>2, <2>1, <2>3, Zenon DEF GrantInv, Takes
<1>7. StampInv'
  <2>1. \A n \in Msgs' : n.preclaimed /\ Kind(n) \in b'.invoked => Runs(n) \subseteq Ran'
    BY <1>1, <1>2, <1>4, Zenon DEF StampInv, Takes, Ran
  <2>2. m.preclaimed \/ Kind(m) \in b'.claims \ b'.invoked
    BY <1>1, Zenon DEF Takes, ShapeInv
  <2> QED
    BY <1>1, <1>2, <2>1, <2>2, Zenon DEF StampInv, Takes
<1>8. AnswerInv'
  <2>1. Kind(m) \in Runs(m)
    BY <1>2, Zenon DEF Kind, claimKind, Runs, RunsKinds, Message, Outcomes
  <2>2. SUFFICES ASSUME NEW k \in (Kinds \cap b'.claims) \ (bySeal \cup dropped),
                        ~(runs[k] > 0), k \notin parked
                 PROVE  \E n \in Carriers \cup {m} : k \in Runs(n) /\ (n.preclaimed \/ n \in {m})
    BY Zenon DEF AnswerInv, Takes, Carriers
  <2>3. CASE k = Kind(m)
    BY <2>1, <2>3, Zenon
  <2>4. CASE k \in b.claims
    BY <1>1, <2>2, <2>4, Zenon DEF AnswerInv, Takes
  <2> QED
    BY <2>2, <2>3, <2>4, Zenon DEF Takes, Kinds
<1> QED
  BY <1>1, <1>3, <1>5, <1>6, <1>7, <1>8, Zenon DEF CallbackInv, Kinds

\* The consumer passes the marker with message m: it sets it, or an error lets it through.
Passes(m) ==
    /\ cc.pc = "mark" /\ m \in cc.msgs /\ cc' = [cc EXCEPT !.pc = "invoke"]
    /\ UNCHANGED <<ep, client, callbacks, rc, runs, parked, bySeal, dropped>>
    /\ Keyed(b') /\ b'.status = b.status /\ b'.claims = b.claims
    /\ \/ /\ Kind(m) \notin b.invoked /\ b'.invoked = b.invoked \cup {Kind(m)}
          /\ failOpen' = failOpen
       \/ b'.invoked = b.invoked /\ failOpen' = failOpen + 1

\* So does a consumer that passes the marker.
LEMMA PassKeeps == ASSUME CallbackInv, NEW m, Passes(m) PROVE CallbackInv'
<1>1. ShapeInv /\ Bounded("success", "success") /\ GrantInv /\ StampInv /\ AnswerInv
  BY Zenon DEF CallbackInv
<1>2. /\ Msgs' = Msgs /\ m \in Msgs /\ m \in Message /\ cc.msgs = {m}
      /\ cc'.pc = "invoke" /\ cc'.msgs = cc.msgs
  BY <1>1, Zenon DEF Passes, Msgs, ShapeInv
<1>3. Kind(m) \in Runs(m) /\ ("success" \in Runs(m) => Kind(m) = "success")
  BY <1>2, Zenon DEF Kind, claimKind, Runs, RunsKinds, Message, Outcomes
<1>4. Kind(m) \in b.claims
  BY <1>1, <1>2, <1>3, Zenon DEF Passes, StampInv
<1>5. ShapeInv'
  <2>1. Msgs' \subseteq Message /\ failOpen' \in Nat /\ b'.invoked \subseteq b'.claims
    BY <1>1, <1>2, <1>4 DEF Passes, ShapeInv
  <2> QED
    BY <1>1, <1>2, <2>1, Zenon DEF Passes, ShapeInv
<1>6. \A k : ~Running(k) /\ (Running(k)' <=> k \in Runs(m))
  BY <1>2, Zenon DEF Running, Passes
<1>7. \A k \in Kinds : (k \in Ran => k \in Ran') /\ (k \in Runs(m) => k \in Ran')
  BY <1>6, Zenon DEF Ran, Passes
<1>8. ASSUME NEW k \in Kinds, NEW kind \in Kinds, Bounded(k, kind), k \in Runs(m) => Kind(m) = kind
      PROVE  Bounded(k, kind)'
  <2>1. runs[k] \in Nat /\ runs'[k] = runs[k] /\ failOpen \in Nat
    BY <1>1, Zenon DEF ShapeInv, Passes
  <2>2. runs[k] <= (IF kind \in b.invoked THEN 1 ELSE 0) + failOpen
    BY <1>6, <1>8, <2>1 DEF Bounded
  <2>3. CASE k \notin Runs(m)
    BY <1>6, <2>1, <2>2, <2>3 DEF Bounded, Passes
  <2>4. CASE k \in Runs(m)
    BY <1>6, <1>8, <2>1, <2>2, <2>4 DEF Bounded, Passes
  <2> QED
    BY <2>3, <2>4, Zenon
<1>9. Bounded("success", "success")'
  BY <1>1, <1>3, <1>8, Zenon DEF Kinds
<1>10. GrantInv'
  <2>1. SUFFICES ASSUME ~rc.marked, rc' = rc PROVE GrantInv'
    BY Zenon DEF GrantInv, Passes
  <2>2. PICK kind \in Kinds : /\ Bounded("complete", kind)
                              /\ \A n \in Msgs : "complete" \in Runs(n) => Kind(n) = kind
    BY <1>1, <2>1, Zenon DEF GrantInv
  <2>3. Bounded("complete", kind)' /\ \A n \in Msgs' : "complete" \in Runs(n) => Kind(n) = kind
    BY <1>2, <1>8, <2>2, Zenon DEF Kinds
  <2> QED
    BY <1>1, <1>2, <2>1, <2>3, Zenon DEF GrantInv, Passes
<1>11. StampInv'
  <2>1. ASSUME NEW n \in Msgs, n.preclaimed, Kind(n) \in b'.invoked PROVE Runs(n) \subseteq Ran'
    <3>1. n \in Message
      BY <1>1, Zenon DEF ShapeInv
    <3>2. Runs(n) \subseteq Kinds
      BY <3>1, Zenon DEF Runs, RunsKinds, Kinds, Message, Outcomes
    <3>3. CASE Kind(n) \in b.invoked
      BY <1>1, <1>7, <2>1, <3>2, <3>3, Zenon DEF StampInv
    <3>4. CASE Kind(n) \notin b.invoked
      <4>1. Kind(n) = Kind(m)
        BY <2>1, <3>4 DEF Passes
      <4>2. ~(n.outcome = "success" /\ m.outcome = "success_only")
        BY <1>1, <1>2, <2>1, Zenon DEF StampInv
      <4>3. Runs(n) \subseteq Runs(m)
        BY <1>2, <3>1, <4>1, <4>2, Zenon DEF Kind, claimKind, Runs, RunsKinds, Message, Outcomes
      <4> QED
        BY <1>7, <3>2, <4>3, Zenon
    <3> QED
      BY <3>3, <3>4, Zenon
  <2> QED
    BY <1>1, <1>2, <2>1, Zenon DEF StampInv, Passes
<1>12. AnswerInv'
  BY <1>1, <1>2, Zenon DEF AnswerInv, Passes, Carriers
<1> QED
  BY <1>5, <1>9, <1>10, <1>11, <1>12, Zenon DEF CallbackInv

-----------------------------------------------------------------------------
(* Every step is of one of these kinds *)

\* A step that moves no message and changes no stamp.
LEMMA QuietKeeps ==
    ASSUME CallbackInv, UNCHANGED <<callbacks, client, ep, cc, rc, runs, parked, bySeal, dropped, failOpen>>,
           Keyed(b'), b'.claims = b.claims, b'.invoked = b.invoked,
           b'.status = b.status \/ b'.status = "cancelled"
    PROVE  CallbackInv'
<1>1. Msgs' = Msgs /\ Carriers' = Carriers
  BY Zenon DEF Msgs, Carriers
<1>2. ShapeInv /\ (rc.pc = "produce" => rc.marked)
  BY Zenon DEF CallbackInv, GrantInv
<1>3. Apart
  BY <1>2, Zenon DEF Apart, ShapeInv
<1>4. b'.status \in Statuses
  BY <1>2, Zenon DEF ShapeInv, Statuses
<1>5. Carries
  BY <1>1, <1>2, <1>3, <1>4, Zenon DEF Carries, ShapeInv
<1> QED
  BY <1>5, CarryKeeps, Zenon

\* The steps of the client and of the workers keep the invariant.
LEMMA ClientKeeps ==
    ASSUME CallbackInv,
           \/ Push \/ SealProduce \/ SealFail \/ Work \/ Cancel
           \/ \E s \in Seqs, fails \in BOOLEAN : RollBack(s, fails)
    PROVE  CallbackInv'
<1>1. ShapeInv /\ (rc.pc = "produce" => rc.marked)
  BY Zenon DEF CallbackInv, GrantInv
<1>2. Keyed(b) /\ b.status \in Statuses
  BY <1>1, Zenon DEF ShapeInv
<1>3. CASE Reserve
  <2>1. Keyed(b') /\ b'.claims = b.claims /\ b'.invoked = b.invoked /\ b'.status = b.status
    BY <1>2, <1>3, Zenon DEF Reserve, AddJobs, Keyed
  <2> QED
    BY <1>3, <2>1, QuietKeeps, Zenon DEF Reserve, history
<1>4. ASSUME NEW s \in Seqs, Produce(s) PROVE CallbackInv'
  BY <1>2, <1>4, QuietKeeps, Zenon DEF Produce, history
<1>5. ASSUME NEW s \in Seqs, NEW fails \in BOOLEAN, RollBack(s, fails) PROVE CallbackInv'
  <2>1. Keyed(b') /\ b'.claims = b.claims /\ b'.invoked = b.invoked /\ b'.status = b.status
    BY <1>2, <1>5, Zenon DEF RollBack, AddJobs, Keyed
  <2> QED
    BY <1>5, <2>1, QuietKeeps, Zenon DEF RollBack
<1>6. CASE Work
  BY <1>2, <1>6, QuietKeeps, Zenon DEF Work, Emit, history
<1>7. CASE Cancel
  <2>1. Keyed(b') /\ b'.claims = b.claims /\ b'.invoked = b.invoked /\ b'.status = "cancelled"
    BY <1>2, <1>7, Zenon DEF Cancel, CancelBatch, Keyed
  <2> QED
    BY <1>7, <2>1, QuietKeeps, Zenon DEF Cancel
<1>8. CASE SealProduce \/ SealFail
  <2>1. /\ UNCHANGED <<b, ep, cc, rc, runs, failOpen, parked, bySeal>>
        /\ callbacks \subseteq callbacks' /\ callbacks' \subseteq callbacks \cup client
        /\ client' = {} /\ dropped \subseteq dropped'
    BY <1>8, Zenon DEF SealProduce, SealFail, Drop, ledgerVars, history
  <2>2. Msgs' \subseteq Msgs /\ Carriers \subseteq Carriers'
    BY <2>1, Zenon DEF Msgs, Carriers
  <2>3. Apart
    BY <1>1, <2>1, Zenon DEF Apart, ShapeInv
  <2>4. Carries
    BY <1>1, <2>1, <2>2, <2>3, Zenon DEF Carries, ShapeInv
  <2> QED
    BY <2>4, CarryKeeps, Zenon
<1> QED
  BY <1>3, <1>4, <1>5, <1>6, <1>7, <1>8, Zenon DEF Push

\* The two scripts that grant callbacks.
LEMMA ScriptKeeps ==
    ASSUME CallbackInv, SealScript \/ \E e \in Seqs \X EventOps : EpApply(e)
    PROVE  CallbackInv'
<1>1. ShapeInv /\ Keyed(b) /\ b.status \in Statuses
  BY Zenon DEF CallbackInv, ShapeInv
<1>2. CASE SealScript
  <2>1. PICK g : g = SealGrants(b)
    BY Zenon
  <2>2. Grants(b, b', g)
    BY <1>1, <1>2, <2>1, SealGranting, Zenon DEF SealScript
  <2>3. /\ client' = Fires(g, FALSE) /\ bySeal' = bySeal \cup g
        /\ UNCHANGED <<callbacks, ep, cc, rc, runs, parked, dropped, failOpen>>
    BY <1>2, <2>1, Zenon DEF SealScript
  <2>4. Msgs' \subseteq Msgs \cup Fires(g, FALSE) /\ Carriers' = Carriers
    BY <2>3, Zenon DEF Msgs, Carriers
  <2>5. Apart
    BY <1>1, <2>3, Zenon DEF Apart, ShapeInv
  <2>6. Hands(g, FALSE)
    BY <2>2, <2>3, <2>4, <2>5, Zenon DEF Hands
  <2> QED
    BY <2>6, GrantKeeps, Zenon
<1>3. ASSUME NEW e \in Seqs \X EventOps, EpApply(e) PROVE CallbackInv'
  <2>1. PICK g : g = DoneJobGrants(b, e[1], e[2], 0)
    BY Zenon
  <2>2. Grants(b, b', g)
    BY <1>1, <1>3, <2>1, DoneJobGranting, Zenon DEF EpApply
  <2>3. /\ UNCHANGED <<callbacks, client, cc, rc, runs, parked, bySeal, dropped, failOpen>>
        /\ {"pc", "fires"} \subseteq DOMAIN ep' /\ ep'.pc = "apply"
        /\ ep'.fires = ep.fires \cup Fires(g, TRUE)
    BY <1>1, <1>3, <2>1, Zenon DEF EpApply, history, ShapeInv
  <2>4. /\ Msgs' \subseteq Msgs \cup Fires(g, TRUE) /\ Carriers \subseteq Carriers'
        /\ Fires(g, TRUE) \subseteq Carriers'
    BY <2>3, Zenon DEF Msgs, Carriers
  <2>5. Apart
    BY <1>1, <2>3, Zenon DEF Apart, ShapeInv
  <2>6. Hands(g, TRUE)
    BY <2>2, <2>3, <2>4, <2>5, Zenon DEF Hands
  <2> QED
    BY <2>6, GrantKeeps, Zenon
<1> QED
  BY <1>2, <1>3, Zenon

\* A replay is due only where the reconciler finished the batch.
LEMMA ReplayMarked == ASSUME CallbackInv, ReplayDue(b) PROVE rc.marked
<1>1. SUFFICES ASSUME ~rc.marked PROVE FALSE
  BY Zenon DEF CallbackInv, ShapeInv
<1>2. RunsKinds(b.status) \subseteq b.claims
  BY <1>1, Zenon DEF CallbackInv, GrantInv, ReplayDue
<1> QED
  BY <1>2, Zenon DEF ReplayDue, RunsKinds, Terminal

\* The event processor but for its script: it polls, replays, produces, parks, commits
\* or gives up.
LEMMA ProcessorKeeps ==
    ASSUME CallbackInv,
           \/ EpPoll \/ EpReplay \/ EpCommit \/ EpFail
           \/ \E m \in Message : EpProduce(m)
           \/ \E m \in Message, durable, parks \in BOOLEAN : EpDeadLetter(m, durable, parks)
    PROVE  CallbackInv'
<1>1. ShapeInv /\ (rc.pc = "produce" => rc.marked) /\ {"pc", "fires"} \subseteq DOMAIN ep
  BY Zenon DEF CallbackInv, GrantInv, ShapeInv
<1>2. SUFFICES ASSUME
             /\ UNCHANGED <<b, client, cc, rc, runs, bySeal, failOpen>>
             /\ {"pc", "fires"} \subseteq DOMAIN ep' /\ (ep'.pc = "idle" => ep'.fires = {})
             /\ callbacks \subseteq callbacks' /\ callbacks' \subseteq callbacks \cup ep.fires
             /\ parked \subseteq parked' /\ dropped \subseteq dropped'
             /\ \A m \in ep'.fires \ ep.fires :
                    rc.marked /\ m \in Message /\ ~m.preclaimed /\ m.outcome \in Terminal
             /\ \A m \in ep.fires \ (ep'.fires \cup callbacks') :
                    m.preclaimed => Runs(m) \subseteq parked' \cup dropped'
      PROVE  CallbackInv'
  <2>1. CASE EpPoll
    BY <1>1, <1>2, <2>1, Zenon DEF EpPoll, Idle, ledgerVars, history, ShapeInv
  <2>2. CASE EpReplay
    <3>1. /\ {"pc", "fires"} \subseteq DOMAIN ep' /\ ep'.pc = "produce"
          /\ ep'.fires = IF ep.replay /\ ReplayDue(b)
                         THEN ep.fires \cup {[outcome |-> b.status, preclaimed |-> FALSE]}
                         ELSE ep.fires
      BY <1>1, <2>2, Zenon DEF EpReplay
    <3>2. ReplayDue(b) => rc.marked /\ b.status \in Terminal
      BY ReplayMarked, Zenon DEF ReplayDue
    <3>3. \A m \in ep'.fires \ ep.fires :
              rc.marked /\ m \in Message /\ ~m.preclaimed /\ m.outcome \in Terminal
      <4>1. SUFFICES ASSUME NEW m \in ep'.fires \ ep.fires
                     PROVE  rc.marked /\ m \in Message /\ ~m.preclaimed /\ m.outcome \in Terminal
        BY Zenon
      <4>2. m = [outcome |-> b.status, preclaimed |-> FALSE] /\ ReplayDue(b)
        BY <3>1, <4>1, Zenon
      <4> QED
        BY <3>2, <4>2, Zenon DEF Message, Outcomes, Terminal
    <3> QED
      BY <1>2, <2>2, <3>1, <3>3, Zenon DEF EpReplay, ledgerVars, history
  <2>3. CASE EpCommit
    BY <1>2, <2>3, Zenon DEF EpCommit, Idle, ledgerVars
  <2>4. CASE EpFail
    <3>1. \A m \in ep.fires : m.preclaimed => Runs(m) \subseteq dropped'
      BY <2>4, Zenon DEF EpFail, Drop, Runs
    <3> QED
      BY <1>2, <2>4, <3>1, Zenon DEF EpFail, Drop, Idle, ledgerVars
  <2>5. ASSUME NEW m \in Message, EpProduce(m) PROVE CallbackInv'
    <3>1. {"pc", "fires"} \subseteq DOMAIN ep' /\ ep'.pc = "produce" /\ ep'.fires = ep.fires \ {m}
      BY <1>1, <2>5, Zenon DEF EpProduce
    <3> QED
      BY <1>2, <2>5, <3>1, Zenon DEF EpProduce, ledgerVars, history
  <2>6. ASSUME NEW m \in Message, NEW durable \in BOOLEAN, NEW parks \in BOOLEAN,
               EpDeadLetter(m, durable, parks)
        PROVE  CallbackInv'
    <3>1. {"pc", "fires"} \subseteq DOMAIN ep' /\ ep'.pc = "produce" /\ ep'.fires = ep.fires \ {m}
      BY <1>1, <2>6, Zenon DEF EpDeadLetter
    <3>2. /\ parked \subseteq parked' /\ dropped \subseteq dropped'
          /\ Runs(m) \subseteq parked' \cup dropped'
      BY <2>6 DEF EpDeadLetter, Drop, Runs
    <3> QED
      BY <1>2, <2>6, <3>1, <3>2, Zenon DEF EpDeadLetter, ledgerVars
  <2> QED
    BY <2>1, <2>2, <2>3, <2>4, <2>5, <2>6, Zenon
<1>3. Apart
  BY <1>1, <1>2, Zenon DEF Apart, ShapeInv
<1>4. \A m \in Msgs' \ Msgs : m \in ep'.fires \ ep.fires
  BY <1>2, Zenon DEF Msgs
<1>5. \A m \in Carriers \ Carriers' : m \in ep.fires \ (ep'.fires \cup callbacks')
  BY <1>2, Zenon DEF Carriers
<1>6. Carries
  BY <1>1, <1>2, <1>3, <1>4, <1>5, Zenon DEF Carries, ShapeInv
<1> QED
  BY <1>6, CarryKeeps, Zenon

\* The callback consumer.
LEMMA ConsumerKeeps ==
    ASSUME CallbackInv,
           CcCrash \/ \E m \in Message : CcClaim(m) \/ CcSkip(m) \/ CcMark(m) \/ CcMarkError(m) \/ CcInvoke(m)
    PROVE  CallbackInv'
<1>1. ShapeInv /\ (rc.pc = "produce" => rc.marked) /\ StampInv
  BY Zenon DEF CallbackInv, GrantInv
<1>2. Keyed(b) /\ b.status \in Statuses /\ Live(b) /\ \A k \in Kinds : runs[k] \in Nat
  BY <1>1, Zenon DEF ShapeInv, Live, Statuses, Terminal
<1>3. ASSUME NEW m \in Message, CcClaim(m) PROVE CallbackInv'
  <2>1. /\ Keyed(b') /\ b'.status = b.status /\ b'.invoked = b.invoked
        /\ \/ m.preclaimed /\ b'.claims = b.claims
           \/ /\ ~m.preclaimed /\ Kind(m) \notin b.claims
              /\ b'.claims = b.claims \cup {Kind(m), "any"}
    BY <1>2, <1>3, Zenon DEF CcClaim, ClaimWins, ClaimCallback, Keyed, Kind
  <2>2. Takes(m)
    BY <1>1, <1>3, <2>1, Zenon DEF CcClaim, Takes, history, ShapeInv
  <2> QED
    BY <2>2, TakeKeeps, Zenon
<1>4. ASSUME NEW m \in Message, CcSkip(m) PROVE CallbackInv'
  <2>1. /\ UNCHANGED <<b, client, ep, rc, runs, parked, bySeal, dropped, failOpen>>
        /\ ~m.preclaimed /\ callbacks' \subseteq callbacks /\ callbacks \ {m} \subseteq callbacks'
        /\ cc.msgs = {} /\ cc' = cc
    BY <1>1, <1>4, Zenon DEF CcSkip, Ack, ledgerVars, ShapeInv
  <2>2. Msgs' \subseteq Msgs /\ \A n \in Carriers \ Carriers' : n = m
    BY <2>1, Zenon DEF Msgs, Carriers
  <2>3. Apart
    BY <1>1, <2>1, Zenon DEF Apart, ShapeInv
  <2>4. Carries
    BY <1>1, <2>1, <2>2, <2>3, Zenon DEF Carries, ShapeInv
  <2> QED
    BY <2>4, CarryKeeps, Zenon
<1>5. ASSUME NEW m \in Message, CcMark(m) PROVE CallbackInv'
  <2>1. cc.pc = "mark" /\ m \in cc.msgs /\ cc.msgs = {m} /\ m \in Msgs
        /\ UNCHANGED <<ep, client, rc, runs, parked, bySeal, dropped, failOpen>>
    BY <1>1, <1>5, Zenon DEF CcMark, ShapeInv, Msgs
  <2>2. CASE InvokeWins(b, Kind(m))
    <3>1. /\ Kind(m) \notin b.invoked /\ b' = [b EXCEPT !.invoked = @ \cup {Kind(m)}]
          /\ cc' = [cc EXCEPT !.pc = "invoke"] /\ callbacks' = callbacks
      BY <1>2, <1>5, <2>2, Zenon DEF CcMark, InvokeWins, InvokeCallback, Kind
    <3>2. /\ Keyed(b') /\ b'.status = b.status /\ b'.claims = b.claims
          /\ b'.invoked = b.invoked \cup {Kind(m)}
      BY <1>2, <3>1, Zenon DEF Keyed
    <3>3. Passes(m)
      BY <2>1, <3>1, <3>2, Zenon DEF Passes
    <3> QED
      BY <3>3, PassKeeps, Zenon
  <2>3. CASE ~InvokeWins(b, Kind(m))
    <3>1. /\ Kind(m) \in b.invoked /\ b' = b /\ cc' = [pc |-> "idle", msgs |-> {}]
          /\ callbacks' \subseteq callbacks /\ callbacks \ {m} \subseteq callbacks'
      BY <1>2, <1>5, <2>3, Zenon DEF CcMark, InvokeWins, Ack, Kind
    <3>2. \A k : ~Running(k)
      BY <2>1, Zenon DEF Running
    <3>3. Runs(m) \subseteq Ran
      BY <1>1, <2>1, <3>1, Zenon DEF StampInv
    <3>4. Runs(m) \subseteq {k \in Kinds : runs'[k] > 0} \cup dropped'
      BY <2>1, <3>2, <3>3, Zenon DEF Ran
    <3>5. \A k \in Kinds : runs[k] <= runs'[k] /\ runs'[k] <= runs[k] + 0
      BY <1>2, <2>1
    <3>6. Releases
      BY <1>1, <2>1, <3>1, <3>2, <3>4, <3>5, Zenon DEF Releases, ShapeInv
    <3> QED
      BY <3>6, ReleaseKeeps, Zenon
  <2> QED
    BY <2>2, <2>3, Zenon
<1>6. ASSUME NEW m \in Message, CcMarkError(m) PROVE CallbackInv'
  <2>1. Passes(m)
    BY <1>2, <1>6, Zenon DEF CcMarkError, Passes, ledgerVars
  <2> QED
    BY <2>1, PassKeeps, Zenon
<1>7. ASSUME NEW m \in Message, CcInvoke(m) PROVE CallbackInv'
  <2>1. /\ cc.pc = "invoke" /\ cc.msgs = {m}
        /\ UNCHANGED <<b, ep, client, rc, parked, bySeal, dropped, failOpen>>
        /\ cc' = [pc |-> "idle", msgs |-> {}]
        /\ callbacks' \subseteq callbacks /\ callbacks \ {m} \subseteq callbacks'
    BY <1>1, <1>7, Zenon DEF CcInvoke, Ack, ledgerVars, ShapeInv
  <2>2. \A k : Running(k) <=> k \in Runs(m)
    BY <2>1, Zenon DEF Running
  <2>3. runs' = [k \in Kinds |-> runs[k] + (IF Running(k) THEN 1 ELSE 0)]
    BY <1>7, <2>2, Zenon DEF CcInvoke, Runs
  <2>4. /\ runs' \in [Kinds -> Nat]
        /\ \A k \in Kinds : /\ runs[k] <= runs'[k]
                            /\ runs'[k] <= runs[k] + (IF Running(k) THEN 1 ELSE 0)
                            /\ Running(k) => runs'[k] > 0
    BY <1>2, <2>3
  <2>5. Runs(m) \subseteq {k \in Kinds : runs'[k] > 0}
    BY <2>2, <2>4, Zenon DEF Runs, RunsKinds, Kinds, Message, Outcomes
  <2>6. Releases
    BY <2>1, <2>4, <2>5, Zenon DEF Releases
  <2> QED
    BY <2>6, ReleaseKeeps, Zenon
<1>8. CASE CcCrash
  <2>1. /\ UNCHANGED <<b, ep, client, rc, callbacks, runs, parked, bySeal, failOpen>>
        /\ cc' = [pc |-> "idle", msgs |-> {}] /\ dropped \subseteq dropped'
        /\ \A m \in cc.msgs : ~m.preclaimed \/ cc.pc = "invoke" => Runs(m) \subseteq dropped'
    BY <1>8, Zenon DEF CcCrash, Drop, ledgerVars, Runs
  <2>2. \A k \in Kinds : Running(k) => k \in dropped'
    BY <2>1, Zenon DEF Running
  <2>3. \A k \in Kinds : runs[k] <= runs'[k] /\ runs'[k] <= runs[k] + (IF Running(k) THEN 1 ELSE 0)
    BY <1>2, <2>1
  <2>4. runs' \in [Kinds -> Nat] /\ cc.msgs \subseteq callbacks'
    BY <1>1, <2>1, Zenon DEF ShapeInv
  <2>5. Releases
    BY <2>1, <2>2, <2>3, <2>4, Zenon DEF Releases
  <2> QED
    BY <2>5, ReleaseKeeps, Zenon
<1> QED
  BY <1>3, <1>4, <1>5, <1>6, <1>7, <1>8, Zenon

\* The reconciler.
LEMMA ReconcilerKeeps == ASSUME CallbackInv, Reconciler \/ RcFail PROVE CallbackInv'
<1>1. ShapeInv /\ (rc.pc = "produce" => rc.marked) /\ Keyed(b) /\ b.status \in Statuses
  BY Zenon DEF CallbackInv, GrantInv, ShapeInv
<1>2. SUFFICES ASSUME
             /\ UNCHANGED <<client, ep, cc, runs, parked, bySeal, failOpen>> /\ dropped \subseteq dropped'
             /\ Keyed(b') /\ b'.status \in Statuses /\ b'.claims = b.claims /\ b'.invoked = b.invoked
             /\ rc'.marked \/ b'.status = b.status
             /\ rc' \in [pc : {"idle", "mark", "produce"}, outcome : Terminal, marked : BOOLEAN]
             /\ (rc.marked => rc'.marked) /\ (rc'.pc = "produce" => rc'.marked)
             /\ callbacks \subseteq callbacks'
             /\ \A m \in callbacks' \ callbacks :
                    rc'.marked /\ m \in Message /\ ~m.preclaimed /\ m.outcome \in Terminal
      PROVE  CallbackInv'
  <2>1. CASE RcRead \/ RcFail
    BY <1>1, <1>2, <2>1, Zenon DEF RcRead, RcFail, ledgerVars, history, ShapeInv, Terminal
  <2>2. CASE RcMark
    <3>1. /\ Keyed(b') /\ b'.claims = b.claims /\ b'.invoked = b.invoked
          /\ b'.status = IF b.status = "running" /\ rc.outcome # "none" THEN rc.outcome ELSE b.status
      BY <1>1, <2>2, FinishFields, Zenon DEF RcMark, MarkFinishedIfRunning
    <3>2. b'.status \in Statuses
      BY <1>1, <3>1, Zenon DEF ShapeInv, Statuses
    <3> QED
      BY <1>1, <1>2, <2>2, <3>1, <3>2, Zenon DEF RcMark, history, ShapeInv
  <2>3. CASE RcLost
    <3>1. /\ Keyed(b') /\ b'.claims = b.claims /\ b'.invoked = b.invoked /\ b'.status = b.status
      BY <1>1, <2>3, Zenon DEF RcLost, Keyed
    <3>2. {"any", "complete"} \cap b.claims = {} /\ b.status \in Terminal => ReplayDue(b)
      BY Zenon DEF ReplayDue
    <3>3. rc' = rc \/ (rc.marked /\ b.status \in Terminal
                        /\ rc' = [rc EXCEPT !.pc = "produce", !.outcome = b.status])
      BY <2>3, <3>2, ReplayMarked, Zenon DEF RcLost
    <3>4. dropped \subseteq dropped'
      BY <2>3, Zenon DEF RcLost
    <3> QED
      BY <1>1, <1>2, <2>3, <3>1, <3>3, <3>4, Zenon DEF RcLost, ShapeInv
  <2>4. CASE RcProduce
    <3>1. PICK m : m = [outcome |-> rc.outcome, preclaimed |-> FALSE]
      BY Zenon
    <3>2. m \in Message /\ ~m.preclaimed /\ m.outcome \in Terminal
      BY <1>1, <3>1, Zenon DEF ShapeInv, Message, Outcomes, Terminal
    <3>3. /\ rc' \in [pc : {"idle", "mark", "produce"}, outcome : Terminal, marked : BOOLEAN]
          /\ rc'.pc = "idle" /\ rc'.marked = rc.marked /\ rc.marked
      BY <1>1, <2>4, Zenon DEF RcProduce, ShapeInv
    <3>4. callbacks' = callbacks \cup {m}
      BY <2>4, <3>1, Zenon DEF RcProduce
    <3> QED
      BY <1>1, <1>2, <2>4, <3>2, <3>3, <3>4, Zenon DEF RcProduce, ledgerVars, history
  <2> QED
    BY <2>1, <2>2, <2>3, <2>4, Zenon DEF Reconciler
<1>3. Apart
  BY <1>1, <1>2, Zenon DEF Apart, ShapeInv
<1>4. (Msgs' \ Msgs \subseteq callbacks' \ callbacks) /\ Carriers \subseteq Carriers'
  BY <1>2, Zenon DEF Msgs, Carriers
<1>5. Carries
  BY <1>2, <1>3, <1>4, Zenon DEF Carries
<1> QED
  BY <1>5, CarryKeeps, Zenon

-----------------------------------------------------------------------------
(* The theorems *)

\* The initial states satisfy the invariant.
LEMMA CallbackInit == Init => CallbackInv
<1> SUFFICES ASSUME Init PROVE CallbackInv
  BY Zenon
<1>1. /\ Keyed(b) /\ b.status = "running" /\ b.claims = {} /\ b.invoked = {}
  BY DEF Init, IndexBatch, CreateBatch, NoLedger, Keyed
<1>2. /\ callbacks = {} /\ client = {} /\ ep.fires = {} /\ {"pc", "fires"} \subseteq DOMAIN ep
      /\ cc = [pc |-> "idle", msgs |-> {}]
      /\ rc = [pc |-> "idle", outcome |-> "success", marked |-> FALSE]
      /\ runs = [k \in Kinds |-> 0] /\ failOpen = 0
  BY Zenon DEF Init, Idle
<1>3. Msgs = {} /\ \A k : ~Running(k)
  BY <1>2, Zenon DEF Msgs, Running
<1>4. ShapeInv
  BY <1>1, <1>2, <1>3, Zenon DEF ShapeInv, Statuses, Terminal
<1>5. \A k, kind \in Kinds : Bounded(k, kind)
  BY <1>1, <1>2, <1>3 DEF Bounded
<1>6. GrantInv
  BY <1>1, <1>2, <1>3, <1>5 DEF GrantInv, Kinds, Terminal
<1>7. StampInv /\ AnswerInv
  BY <1>1, <1>2, <1>3, Zenon DEF StampInv, AnswerInv
<1> QED
  BY <1>4, <1>5, <1>6, <1>7, Zenon DEF CallbackInv, Kinds

\* Every step of every process keeps it.
LEMMA CallbackStep == CallbackInv /\ [Next]_vars => CallbackInv'
<1> SUFFICES ASSUME CallbackInv, [Next]_vars PROVE CallbackInv'
  BY Zenon
<1>1. CASE UNCHANGED vars
  BY <1>1, QuietKeeps, Zenon DEF vars, ledgerVars, history, CallbackInv, ShapeInv
<1>2. CASE Push \/ SealScript \/ SealProduce \/ Work
  BY <1>2, ClientKeeps, ScriptKeeps, Zenon
<1>3. CASE Processor
  BY <1>3, ProcessorKeeps, ScriptKeeps, Zenon DEF Processor
<1>4. CASE Consumer
  BY <1>4, ConsumerKeeps, Zenon DEF Consumer
<1>5. CASE Reconciler
  BY <1>5, ReconcilerKeeps, Zenon
<1>6. CASE Failures
  BY <1>6, ClientKeeps, ProcessorKeeps, ConsumerKeeps, ReconcilerKeeps, Zenon DEF Failures
<1> QED
  BY <1>1, <1>2, <1>3, <1>4, <1>5, <1>6, Zenon DEF Next

\* The invariant on which the two theorems rest.
LEMMA CallbackAlways == Spec => []CallbackInv
  BY CallbackInit, CallbackStep, PTL DEF Spec

\* A callback runs once: whatever is redelivered, replayed, re-fired or lost, on_success
\* is invoked once and, unless the reconciler finished the batch, so is on_complete; each
\* MarkCallbackInvoked that fails open allows one more.
THEOREM InvokedOnce == Spec => []RunsOnce
<1>1. CallbackInv => RunsOnce
  <2> SUFFICES ASSUME CallbackInv PROVE RunsOnce
    BY Zenon
  <2>1. /\ ShapeInv /\ Bounded("success", "success")
        /\ ~rc.marked => \E kind \in Kinds : Bounded("complete", kind)
    BY Zenon DEF CallbackInv, GrantInv
  <2>2. \A k \in Kinds : runs[k] \in Nat /\ failOpen \in Nat
    BY <2>1, Zenon DEF ShapeInv
  <2>3. \A k, kind \in Kinds : Bounded(k, kind) => runs[k] <= 1 + failOpen
    BY <2>2 DEF Bounded
  <2> QED
    BY <2>1, <2>3, Zenon DEF RunsOnce, Kinds
<1> QED
  BY <1>1, CallbackAlways, PTL

\* A stamp is kept: a kind stamped as dispatched has run, is parked, or is carried by a
\* message or a process that can still run it, unless a seal was granted it or its holder
\* failed.
THEOREM StampsAnswered == Spec => []ClaimsAnswered
<1>1. CallbackInv => ClaimsAnswered
  BY Zenon DEF CallbackInv, AnswerInv, ClaimsAnswered, Answered, Able, Carriers, Runs
<1> QED
  BY <1>1, CallbackAlways, PTL

=============================================================================
