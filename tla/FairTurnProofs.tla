--------------------------- MODULE FairTurnProofs ----------------------------
(***************************************************************************)
(* Whose turn it is: one of the forwarders that list a stale forward       *)
(* reclaims it, and a tenant new to the ring is served in turn.  For any   *)
(* number of tenants, jobs, forwarders and faults and every setting.       *)
(***************************************************************************)
EXTENDS FairLaneProofs

-----------------------------------------------------------------------------
(* Reclaims *)

Reclaiming(f) == fwd[f].at \in {"reclaim", "reconfirm"}

\* A forwarder reclaims under the claim key, and what it listed is not reclaimed yet
\* unless the claim key says so.  A slot whose claim key expired under a forwarder that
\* reclaims it, or listed it before another one did, is out of the account.
ReclaimOf(f) ==
    fwd[f].slot \notin overtaken =>
    /\ At(f, "reclaim") => fwd[f].slot \in claimed /\ reclaims[fwd[f].slot] = 0
    /\ At(f, "reconfirm") => fwd[f].slot \in claimed /\ reclaims[fwd[f].slot] = 1
    /\ At(f, "listed") /\ fwd[f].slot \notin claimed => reclaims[fwd[f].slot] = 0

\* A slot is reclaimed by one forwarder at a time.
OneEach ==
    \A f, g \in Forwarders : f # g /\ Reclaiming(f) /\ Reclaiming(g) =>
        fwd[f].slot # fwd[g].slot \/ fwd[f].slot \in overtaken

\* Of the slots in the buffer, those reclaimed are about to be confirmed.
ToConfirm ==
    \A s \in Slots \ overtaken : s \in forwarding /\ reclaims[s] = 1 =>
        \E f \in Forwarders : At(f, "reconfirm") /\ fwd[f].slot = s

ReclaimInv ==
    /\ reclaims \in [Slots -> Int] /\ \A s \in Slots \ overtaken : reclaims[s] \in {0, 1}
    /\ \A s \in Slots : slotJob[s] = NoJob => reclaims[s] = 0
    /\ \A f \in Forwarders : ReclaimOf(f)
    /\ OneEach /\ ToConfirm

\* A step that adds to the buffer no slot that was reclaimed.
Buffered ==
    /\ \A s \in Slots : slotJob'[s] = NoJob => slotJob[s] = NoJob
    /\ \A s \in Slots : s \in forwarding' => s \in forwarding \/ slotJob[s] = NoJob

\* A forwarder that neither listed nor reclaims owes nothing.
LEMMA OfFree ==
    ASSUME NEW g, fwd'[g].at \notin {"listed", "reclaim", "reconfirm"}
    PROVE  ReclaimOf(g)' /\ ~Reclaiming(g)'
  BY Zenon DEF ReclaimOf, At, Reclaiming

\* Nothing changes for a forwarder whose slot keeps its reclaims and claim key.
LEMMA OfSame ==
    ASSUME NEW g, ReclaimOf(g), fwd'[g] = fwd[g], NEW q, q = fwd[g].slot,
           reclaims'[q] = reclaims[q], q \in claimed' <=> q \in claimed, overtaken \subseteq overtaken'
    PROVE  ReclaimOf(g)'
  BY Zenon DEF ReclaimOf, At

\* Forwarders that do not start a reclaim keep apart.
LEMMA EachSame ==
    ASSUME OneEach, \A g \in Forwarders : Reclaiming(g)' => fwd'[g] = fwd[g],
           overtaken \subseteq overtaken'
    PROVE  OneEach'
  <1> SUFFICES ASSUME NEW g \in Forwarders, NEW h \in Forwarders, g # h,
                      Reclaiming(g)', Reclaiming(h)'
               PROVE  fwd'[g].slot # fwd'[h].slot \/ fwd'[g].slot \in overtaken'
    BY Zenon DEF OneEach
  <1>1. fwd'[g] = fwd[g] /\ fwd'[h] = fwd[h]
    BY Zenon
  <1>2. Reclaiming(g) /\ Reclaiming(h)
    BY <1>1, Zenon DEF Reclaiming
  <1>3. fwd[g].slot # fwd[h].slot \/ fwd[g].slot \in overtaken
    BY <1>2, Zenon DEF OneEach
  <1> QED
    BY <1>1, <1>3, Zenon

\* One forwarder reclaims a slot that no other one does.
LEMMA EachNew ==
    ASSUME OneEach, NEW f \in Forwarders, NEW s, fwd'[f].slot = s, overtaken \subseteq overtaken',
           \A g \in Forwarders : g # f =>
               fwd'[g] = fwd[g] /\ (Reclaiming(g) => fwd[g].slot # s \/ s \in overtaken)
    PROVE  OneEach'
  <1> SUFFICES ASSUME NEW g \in Forwarders, NEW h \in Forwarders, g # h,
                      Reclaiming(g)', Reclaiming(h)'
               PROVE  fwd'[g].slot # fwd'[h].slot \/ fwd'[g].slot \in overtaken'
    BY Zenon DEF OneEach
  <1>1. ASSUME NEW x \in Forwarders, x # f, Reclaiming(x)'
        PROVE  fwd'[x] = fwd[x] /\ Reclaiming(x) /\ (fwd'[x].slot # s \/ s \in overtaken')
    <2>1. fwd'[x] = fwd[x]
      BY <1>1, Zenon
    <2>2. Reclaiming(x)
      BY <1>1, <2>1, Zenon DEF Reclaiming
    <2> QED
      BY <1>1, <2>1, <2>2, Zenon
  <1>2. CASE g # f /\ h # f
    <2>1. fwd'[g] = fwd[g] /\ fwd'[h] = fwd[h] /\ Reclaiming(g) /\ Reclaiming(h)
      BY <1>1, <1>2, Zenon
    <2> QED
      BY <2>1, Zenon DEF OneEach
  <1>3. CASE g = f \/ h = f
    BY <1>1, <1>3, Zenon
  <1> QED
    BY <1>2, <1>3, Zenon

\* A reclaimed slot of the buffer was one before, and not f's, or f reclaims it now.
LEMMA ConfirmKept ==
    ASSUME ToConfirm, NEW f \in Forwarders, \A g \in Forwarders : g # f => fwd'[g] = fwd[g],
           overtaken \subseteq overtaken',
           \A q \in Slots \ overtaken' : q \in forwarding' /\ reclaims'[q] = 1 =>
               \/ At(f, "reconfirm")' /\ fwd'[f].slot = q
               \/ /\ q \in forwarding /\ reclaims[q] = 1
                  /\ ~(At(f, "reconfirm") /\ fwd[f].slot = q)
    PROVE  ToConfirm'
  <1> SUFFICES ASSUME NEW q \in Slots \ overtaken', q \in forwarding', reclaims'[q] = 1
               PROVE  \E g \in Forwarders : At(g, "reconfirm")' /\ fwd'[g].slot = q
    BY Zenon DEF ToConfirm
  <1>1. CASE At(f, "reconfirm")' /\ fwd'[f].slot = q
    BY <1>1, Zenon
  <1>2. CASE q \in forwarding /\ reclaims[q] = 1 /\ ~(At(f, "reconfirm") /\ fwd[f].slot = q)
    <2>1. PICK g \in Forwarders : At(g, "reconfirm") /\ fwd[g].slot = q
      BY <1>2, Zenon DEF ToConfirm
    <2>2. fwd'[g] = fwd[g]
      BY <1>2, <2>1, Zenon
    <2> QED
      BY <2>1, <2>2, Zenon DEF At
  <1> QED
    BY <1>1, <1>2, Zenon

\* A step away from the reclaims keeps the invariant.
LEMMA ReclaimSame ==
    ASSUME ReclaimInv, Buffered, UNCHANGED <<reclaims, claimed, fwd, overtaken>>
    PROVE  ReclaimInv'
  <1>1. \A f \in Forwarders : ReclaimOf(f)'
    BY OfSame, Zenon DEF ReclaimInv
  <1>2. OneEach'
    BY EachSame, Zenon DEF ReclaimInv
  <1>3. \A q \in Slots : q \in forwarding' /\ reclaims[q] = 1 => q \in forwarding
    BY DEF Buffered, ReclaimInv
  <1>4. ToConfirm'
    BY <1>3, Zenon DEF ReclaimInv, ToConfirm, At
  <1> QED
    BY <1>1, <1>2, <1>4, Zenon DEF ReclaimInv, Buffered

\* What a forwarder's move does to the others.
LEMMA GotoIs ==
    ASSUME BaseInv, NEW f \in Forwarders, NEW pc, NEW s, Goto(f, pc, s)
    PROVE  /\ fwd'[f].at = pc /\ fwd'[f].slot = s
           /\ \A g \in Forwarders : g # f => fwd'[g] = fwd[g]
  BY Zenon DEF BaseInv, SlotsInv, Goto

\* A forwarder that reclaims nothing afterwards and confirms no reclaim.
LEMMA ReclaimGoto ==
    ASSUME BaseInv, ReclaimInv, Buffered, UNCHANGED <<reclaims, claimed, overtaken>>,
           NEW f \in Forwarders, NEW pc, NEW s, Goto(f, pc, s),
           pc \notin {"listed", "reclaim", "reconfirm"}, fwd[f].at # "reconfirm"
    PROVE  ReclaimInv'
  <1>1. fwd'[f].at = pc /\ \A g \in Forwarders : g # f => fwd'[g] = fwd[g]
    BY GotoIs, Zenon
  <1>2. ReclaimOf(f)' /\ ~Reclaiming(f)'
    BY <1>1, OfFree, Zenon
  <1>3. \A g \in Forwarders : ReclaimOf(g)'
    BY <1>1, <1>2, OfSame, Zenon DEF ReclaimInv
  <1>4. OneEach'
    BY <1>1, <1>2, EachSame, Zenon DEF ReclaimInv
  <1>5. \A q \in Slots : q \in forwarding' /\ reclaims'[q] = 1 =>
            q \in forwarding /\ reclaims[q] = 1 /\ ~At(f, "reconfirm")
    BY DEF Buffered, ReclaimInv, At
  <1>6. ToConfirm'
    BY <1>1, <1>5, ConfirmKept, Zenon DEF ReclaimInv
  <1> QED
    BY <1>3, <1>4, <1>6, Zenon DEF ReclaimInv, Buffered

\* Listing a stale forward.
LEMMA ListReclaims ==
    ASSUME BaseInv, ReclaimInv, NEW f \in Forwarders, NEW s \in Slots, ListStale(f, s)
    PROVE  ReclaimInv'
  <1>1. /\ fwd'[f].at = "listed" /\ fwd'[f].slot = s /\ fwd[f].at = "idle"
        /\ \A g \in Forwarders : g # f => fwd'[g] = fwd[g]
    BY GotoIs, Zenon DEF ListStale, At
  <1>2. UNCHANGED <<reclaims, claimed, overtaken, forwarding, slotJob>> /\ s \in forwarding
    BY Zenon DEF ListStale, Stale, slots, past
  <1>3. s \notin claimed /\ s \notin overtaken => reclaims[s] = 0
    <2> SUFFICES ASSUME s \notin claimed, s \notin overtaken PROVE reclaims[s] = 0
      BY Zenon
    <2>1. ~\E g \in Forwarders : At(g, "reconfirm") /\ fwd[g].slot = s
      BY Zenon DEF ReclaimInv, ReclaimOf
    <2> QED
      BY <1>2, <2>1, Zenon DEF ReclaimInv, ToConfirm
  <1>4. ReclaimOf(f)' /\ ~Reclaiming(f)'
    BY <1>1, <1>2, <1>3, Zenon DEF ReclaimOf, Reclaiming, At
  <1>5. \A g \in Forwarders : ReclaimOf(g)'
    BY <1>1, <1>2, <1>4, OfSame, Zenon DEF ReclaimInv
  <1>6. OneEach'
    BY <1>1, <1>2, <1>4, EachSame, Zenon DEF ReclaimInv
  <1>7. ToConfirm'
    <2>1. ~At(f, "reconfirm")
      BY <1>1, Zenon DEF At
    <2> QED
      BY <1>1, <1>2, <2>1, ConfirmKept, Zenon DEF ReclaimInv
  <1> QED
    BY <1>2, <1>5, <1>6, <1>7, Zenon DEF ReclaimInv

\* SET NX of the reclaim claim: one forwarder gets it.
LEMMA ClaimReclaims ==
    ASSUME BaseInv, ReclaimInv, NEW f \in Forwarders, ReclaimClaim(f)
    PROVE  ReclaimInv'
  <1>1. PICK s : s = fwd[f].slot
    BY Zenon
  <1>2. fwd[f].at = "listed" /\ s \in Slots /\ claimed' = claimed \cup {s}
        /\ UNCHANGED <<reclaims, overtaken, forwarding, slotJob>>
    BY <1>1, HandFacts, Zenon DEF ReclaimClaim, At, slots, past
  <1>3. CASE s \in claimed
    <2>1. claimed' = claimed /\ Goto(f, "idle", 0) /\ Buffered
      BY <1>1, <1>2, <1>3, Zenon DEF ReclaimClaim, Buffered
    <2> QED
      BY <1>2, <2>1, ReclaimGoto, Zenon
  <1>4. CASE s \notin claimed
    <2>1. /\ fwd'[f].at = "reclaim" /\ fwd'[f].slot = s
          /\ \A g \in Forwarders : g # f => fwd'[g] = fwd[g]
      BY <1>1, <1>4, GotoIs, Zenon DEF ReclaimClaim
    <2>2. s \notin overtaken => reclaims[s] = 0
      BY <1>1, <1>2, <1>4, Zenon DEF ReclaimInv, ReclaimOf, At
    <2>3. \A g \in Forwarders : Reclaiming(g) => fwd[g].slot # s \/ s \in overtaken
      BY <1>4, Zenon DEF ReclaimInv, ReclaimOf, At, Reclaiming
    <2>4. ReclaimOf(f)'
      BY <1>2, <2>1, <2>2, Zenon DEF ReclaimOf, At
    <2>5. ASSUME NEW g \in Forwarders, g # f PROVE ReclaimOf(g)'
      <3>1. fwd'[g] = fwd[g] /\ ReclaimOf(g)
        BY <2>1, <2>5, Zenon DEF ReclaimInv
      <3>2. CASE fwd[g].slot = s
        BY <1>2, <2>2, <2>3, <3>1, <3>2, Zenon DEF ReclaimOf, At, Reclaiming
      <3>3. CASE fwd[g].slot # s
        BY <1>2, <3>1, <3>3, OfSame, Zenon
      <3> QED
        BY <3>2, <3>3, Zenon
    <2>6. OneEach'
      BY <1>2, <2>1, <2>3, EachNew DEF ReclaimInv
    <2>7. ToConfirm'
      <3>1. ~At(f, "reconfirm")
        BY <1>2, Zenon DEF At
      <3> QED
        BY <1>2, <2>1, <3>1, ConfirmKept, Zenon DEF ReclaimInv
    <2> QED
      BY <1>2, <2>4, <2>5, <2>6, <2>7, Zenon DEF ReclaimInv
  <1> QED
    BY <1>3, <1>4, Zenon

\* The produce of a reclaimed forward, under the claim key.
LEMMA ProduceReclaims ==
    ASSUME BaseInv, ReclaimInv, NEW f \in Forwarders, ReclaimProduce(f)
    PROVE  ReclaimInv'
  <1>1. PICK s : s = fwd[f].slot
    BY Zenon
  <1>2. fwd[f].at = "reclaim" /\ s \in Slots /\ slotJob[s] # NoJob
        /\ reclaims' = [reclaims EXCEPT ![s] = @ + 1] /\ UNCHANGED <<claimed, overtaken, forwarding, slotJob>>
    BY <1>1, HandFacts, Zenon DEF ReclaimProduce, At, slots
  <1>3. /\ fwd'[f].at = "reconfirm" /\ fwd'[f].slot = s
        /\ \A g \in Forwarders : g # f => fwd'[g] = fwd[g]
    BY <1>1, GotoIs, Zenon DEF ReclaimProduce
  <1>4. s \notin overtaken => s \in claimed /\ reclaims[s] = 0
    BY <1>1, <1>2, Zenon DEF ReclaimInv, ReclaimOf, At
  <1>5. \A g \in Forwarders : g # f /\ Reclaiming(g) => fwd[g].slot # s \/ s \in overtaken
    BY <1>1, <1>2, Zenon DEF ReclaimInv, OneEach, Reclaiming
  <1>6. /\ reclaims' \in [Slots -> Int] /\ (s \notin overtaken => reclaims'[s] = 1)
        /\ \A q \in Slots : q # s => reclaims'[q] = reclaims[q]
    BY <1>2, <1>4 DEF ReclaimInv
  <1>7. ReclaimOf(f)'
    BY <1>2, <1>3, <1>4, <1>6, Zenon DEF ReclaimOf, At
  <1>8. ASSUME NEW g \in Forwarders, g # f PROVE ReclaimOf(g)'
    <2>1. fwd'[g] = fwd[g] /\ ReclaimOf(g)
      BY <1>3, <1>8, Zenon DEF ReclaimInv
    <2>2. CASE fwd[g].at = "idle"
      BY <2>1, <2>2, OfFree, Zenon
    <2>3. CASE fwd[g].slot = s
      BY <1>2, <1>4, <1>5, <1>8, <2>1, <2>3, Zenon DEF ReclaimOf, At, Reclaiming
    <2>4. CASE fwd[g].at # "idle" /\ fwd[g].slot # s
      <3>1. fwd[g].slot \in Slots
        BY <2>4, HandFacts, Zenon
      <3> QED
        BY <1>2, <1>6, <2>1, <2>4, <3>1, OfSame, Zenon
    <2> QED
      BY <2>2, <2>3, <2>4, Zenon
  <1>9. OneEach'
    BY <1>2, <1>3, <1>5, EachNew DEF ReclaimInv
  <1>10. ToConfirm'
    <2>1. At(f, "reconfirm")' /\ ~At(f, "reconfirm")
      BY <1>2, <1>3, Zenon DEF At
    <2>2. \A q \in Slots \ overtaken' : q \in forwarding' /\ reclaims'[q] = 1 =>
              fwd'[f].slot = q \/ (q \in forwarding /\ reclaims[q] = 1)
      BY <1>2, <1>3, <1>6, Zenon
    <2> QED
      BY <1>2, <1>3, <2>1, <2>2, ConfirmKept, Zenon DEF ReclaimInv
  <1>11. \A q \in Slots \ overtaken' : reclaims'[q] \in {0, 1}
    BY <1>2, <1>6, Zenon DEF ReclaimInv
  <1> QED
    BY <1>2, <1>6, <1>7, <1>8, <1>9, <1>10, <1>11, Zenon DEF ReclaimInv

\* The confirm of a reclaim fails, or its forwarder dies: the slot may be reclaimed again.
LEMMA WithdrawReclaims ==
    ASSUME BaseInv, ReclaimInv, NEW f \in Forwarders, NEW s, s = fwd[f].slot, At(f, "reconfirm"),
           Goto(f, "idle", 0), reclaims' = [reclaims EXCEPT ![s] = @ - 1],
           UNCHANGED <<claimed, overtaken, forwarding, slotJob>>
    PROVE  ReclaimInv'
  <1>1. s \in Slots /\ slotJob[s] # NoJob /\ (s \notin overtaken => s \in claimed /\ reclaims[s] = 1)
    BY HandFacts, Zenon DEF ReclaimInv, ReclaimOf, At
  <1>2. \A g \in Forwarders : g # f /\ Reclaiming(g) => fwd[g].slot # s \/ s \in overtaken
    BY Zenon DEF ReclaimInv, OneEach, At, Reclaiming
  <1>3. fwd'[f].at = "idle" /\ \A g \in Forwarders : g # f => fwd'[g] = fwd[g]
    BY GotoIs, Zenon
  <1>4. /\ reclaims' \in [Slots -> Int] /\ (s \notin overtaken => reclaims'[s] = 0)
        /\ \A q \in Slots : q # s => reclaims'[q] = reclaims[q]
    BY <1>1 DEF ReclaimInv
  <1>5. ReclaimOf(f)' /\ ~Reclaiming(f)'
    BY <1>3, OfFree, Zenon
  <1>6. ASSUME NEW g \in Forwarders, g # f PROVE ReclaimOf(g)'
    <2>1. fwd'[g] = fwd[g] /\ ReclaimOf(g)
      BY <1>3, <1>6, Zenon DEF ReclaimInv
    <2>2. CASE fwd[g].at = "idle"
      BY <2>1, <2>2, OfFree, Zenon
    <2>3. CASE fwd[g].slot = s
      BY <1>1, <1>2, <1>4, <1>6, <2>1, <2>3, Zenon DEF ReclaimOf, At, Reclaiming
    <2>4. CASE fwd[g].at # "idle" /\ fwd[g].slot # s
      <3>1. fwd[g].slot \in Slots
        BY <2>4, HandFacts, Zenon
      <3> QED
        BY <1>4, <2>1, <2>4, <3>1, OfSame, Zenon
    <2> QED
      BY <2>2, <2>3, <2>4, Zenon
  <1>7. OneEach'
    BY <1>3, <1>5, EachSame, Zenon DEF ReclaimInv
  <1>8. ToConfirm'
    <2>1. \A q \in Slots \ overtaken' : q \in forwarding' /\ reclaims'[q] = 1 =>
              q \in forwarding /\ reclaims[q] = 1 /\ fwd[f].slot # q
      BY <1>4
    <2> QED
      BY <1>3, <2>1, ConfirmKept, Zenon DEF ReclaimInv
  <1>9. \A q \in Slots \ overtaken' : reclaims'[q] \in {0, 1}
    BY <1>4, Zenon DEF ReclaimInv
  <1> QED
    BY <1>1, <1>4, <1>5, <1>6, <1>7, <1>8, <1>9, Zenon DEF ReclaimInv

\* The confirmation, which takes the forward out of the buffer.
LEMMA ConfirmReclaims ==
    ASSUME BaseInv, ReclaimInv, NEW f \in Forwarders, ReclaimConfirm(f, TRUE)
    PROVE  ReclaimInv'
  <1>1. PICK s : s = fwd[f].slot
    BY Zenon
  <1>2. forwarding' = forwarding \ {s} /\ UNCHANGED <<reclaims, claimed, overtaken, slotJob>>
    BY <1>1, Zenon DEF ReclaimConfirm
  <1>3. fwd'[f].at = "rearm" /\ \A g \in Forwarders : g # f => fwd'[g] = fwd[g]
    BY GotoIs, Zenon DEF ReclaimConfirm
  <1>4. ReclaimOf(f)' /\ ~Reclaiming(f)'
    BY <1>3, OfFree, Zenon
  <1>5. \A g \in Forwarders : ReclaimOf(g)'
    BY <1>2, <1>3, <1>4, OfSame, Zenon DEF ReclaimInv
  <1>6. OneEach'
    BY <1>2, <1>3, <1>4, EachSame, Zenon DEF ReclaimInv
  <1>7. \A q \in Slots : q \in forwarding' /\ reclaims'[q] = 1 =>
            q \in forwarding /\ reclaims[q] = 1 /\ fwd[f].slot # q
    BY <1>1, <1>2, Zenon
  <1>8. ToConfirm'
    BY <1>2, <1>3, <1>7, ConfirmKept, Zenon DEF ReclaimInv
  <1> QED
    BY <1>2, <1>5, <1>6, <1>8, Zenon DEF ReclaimInv

\* A claim key that expires under a forwarder takes its slot out of the account.
LEMMA ClaimExpiryReclaims ==
    ASSUME BaseInv, ReclaimInv, NEW s \in Slots, ClaimExpires(s)
    PROVE  ReclaimInv'
  <1>1. claimed' = claimed \ {s} /\ UNCHANGED <<fwd, reclaims, forwarding, slotJob>>
        /\ overtaken \subseteq overtaken' /\ (BeingReclaimed(s) => s \in overtaken')
    BY Zenon DEF ClaimExpires, slots
  <1>2. ASSUME NEW g \in Forwarders PROVE ReclaimOf(g)'
    <2>1. CASE fwd[g].slot = s /\ fwd[g].at \in {"reclaim", "reconfirm"}
      <3>1. s \in overtaken'
        BY <1>1, <2>1, Zenon DEF BeingReclaimed
      <3> QED
        BY <1>1, <2>1, <3>1, Zenon DEF ReclaimOf
    <2>4. CASE fwd[g].slot = s /\ fwd[g].at = "listed"
      <3> SUFFICES ASSUME s \notin overtaken' PROVE reclaims[s] = 0
        BY <1>1, <2>4, Zenon DEF ReclaimOf, At
      <3>1. s \in forwarding /\ s \notin overtaken
        BY <1>1, <2>4, Zenon DEF BeingReclaimed
      <3>2. ~\E f \in Forwarders : At(f, "reconfirm") /\ fwd[f].slot = s
        BY <1>1, Zenon DEF BeingReclaimed, At
      <3> QED
        BY <3>1, <3>2, Zenon DEF ReclaimInv, ToConfirm
    <2>2. CASE fwd[g].at \notin {"listed", "reclaim", "reconfirm"}
      BY <1>1, <2>2, OfFree, Zenon
    <2>3. CASE fwd[g].slot # s
      BY <1>1, <2>3, OfSame, Zenon DEF ReclaimInv
    <2> QED
      BY <2>1, <2>2, <2>3, <2>4, Zenon
  <1>3. OneEach'
    BY <1>1, EachSame, Zenon DEF ReclaimInv
  <1>4. ToConfirm'
    BY <1>1, Zenon DEF ReclaimInv, ToConfirm, At
  <1> QED
    BY <1>1, <1>2, <1>3, <1>4, Zenon DEF ReclaimInv

\* Every step keeps the reclaim invariant.
LEMMA ReclaimStep ==
    ASSUME BaseInv, ReclaimInv, [Next]_vars
    PROVE  ReclaimInv'
  <1>1. ASSUME NEW f \in Forwarders, ForwarderFault(f) PROVE ReclaimInv'
    <2>1. ASSUME Buffered, UNCHANGED <<reclaims, claimed, overtaken>>, fwd[f].at # "reconfirm",
                 NEW pc \in {"idle", "abort", "complete", "confirm"}, NEW s, Goto(f, pc, s)
          PROVE  ReclaimInv'
      BY <2>1, ReclaimGoto, Zenon
    <2>2. CASE ForwardFails(f)
      <3>1. Buffered /\ UNCHANGED <<reclaims, claimed, overtaken>> /\ fwd[f].at # "reconfirm" /\ Goto(f, "abort", fwd[f].slot)
        BY <2>2, Zenon DEF ForwardFails, Buffered, slots, past, At
      <3> QED
        BY <2>1, <3>1, Zenon
    <2>3. CASE Expired(f)
      <3>1. Buffered /\ UNCHANGED <<reclaims, claimed, overtaken>> /\ fwd[f].at # "reconfirm" /\ Goto(f, "complete", fwd[f].slot)
        BY <2>3, Zenon DEF Expired, Buffered, slots, past, At
      <3> QED
        BY <2>1, <3>1, Zenon
    <2>4. CASE ExpiredFails(f)
      <3>1. Buffered /\ UNCHANGED <<reclaims, claimed, overtaken>> /\ fwd[f].at # "reconfirm" /\ Goto(f, "idle", 0)
        BY <2>4, Zenon DEF ExpiredFails, Buffered, slots, past, At
      <3> QED
        BY <2>1, <3>1, Zenon
    <2>5. CASE ExpiredComplete(f, FALSE)
      <3>1. Buffered /\ UNCHANGED <<reclaims, claimed, overtaken>> /\ fwd[f].at # "reconfirm" /\ Goto(f, "confirm", fwd[f].slot)
        BY <2>5, Zenon DEF ExpiredComplete, Buffered, slots, past, At
      <3> QED
        BY <2>1, <3>1, Zenon
    <2>6. CASE Confirm(f, FALSE)
      <3>1. Buffered /\ UNCHANGED <<reclaims, claimed, overtaken>> /\ fwd[f].at # "reconfirm" /\ Goto(f, "idle", 0)
        BY <2>6, Zenon DEF Confirm, Buffered, slots, past, At
      <3> QED
        BY <2>1, <3>1, Zenon
    <2>7. CASE Abort(f, FALSE)
      <3>1. Buffered /\ UNCHANGED <<reclaims, claimed, overtaken>> /\ fwd[f].at # "reconfirm" /\ Goto(f, "idle", 0)
        BY <2>7, Zenon DEF Abort, Buffered, slots, past, At
      <3> QED
        BY <2>1, <3>1, Zenon
    <2>8. CASE ReclaimProduceFails(f)
      <3>1. Buffered /\ UNCHANGED <<reclaims, claimed, overtaken>> /\ fwd[f].at # "reconfirm" /\ Goto(f, "abort", fwd[f].slot)
        BY <2>8, Zenon DEF ReclaimProduceFails, Buffered, slots, past, At
      <3> QED
        BY <2>1, <3>1, Zenon
    <2>9. CASE Crash(f) /\ ~At(f, "reconfirm")
      <3>1. Buffered /\ UNCHANGED <<reclaims, claimed, overtaken>> /\ fwd[f].at # "reconfirm" /\ Goto(f, "idle", 0)
        BY <2>9, Zenon DEF Crash, Buffered, slots, past, At
      <3> QED
        BY <2>1, <3>1, Zenon
    <2>10. CASE ReclaimConfirm(f, FALSE) \/ (Crash(f) /\ At(f, "reconfirm"))
      <3>1. PICK s : s = fwd[f].slot
        BY Zenon
      <3>2. /\ At(f, "reconfirm") /\ Goto(f, "idle", 0) /\ UNCHANGED <<claimed, overtaken, forwarding, slotJob>>
            /\ reclaims' = [reclaims EXCEPT ![s] = @ - 1]
        BY <2>10, <3>1, Zenon DEF ReclaimConfirm, Crash, slots
      <3> QED
        BY <3>1, <3>2, WithdrawReclaims, Zenon
    <2> QED
      BY <1>1, <2>2, <2>3, <2>4, <2>5, <2>6, <2>7, <2>8, <2>9, <2>10, Zenon DEF ForwarderFault
  <1>2. ASSUME NEW f \in Forwarders, ForwarderStep(f) PROVE ReclaimInv'
    <2>1. ASSUME Buffered, UNCHANGED <<reclaims, claimed, overtaken>>, fwd[f].at # "reconfirm",
                 NEW pc \in {"idle", "checkedOut", "confirm"}, NEW s, Goto(f, pc, s)
          PROVE  ReclaimInv'
      BY <2>1, ReclaimGoto, Zenon
    <2>2. ASSUME NEW view \in SUBSET Tenants, Checkout(f, view) PROVE ReclaimInv'
      <3>1. PICK t \in DOMAIN ring, s \in Slots : Serves(f, view, t, s)
        BY <2>2, CheckoutServes, Zenon DEF BaseInv
      <3>2. Head(ready[t]) # NoJob
        BY <3>1, TakeIs, JobFacts, Zenon DEF BaseInv, ListsInv
      <3>3. Buffered
        BY <3>1, <3>2, Zenon DEF Serves, Buffered, BaseInv, SlotsInv
      <3>4. UNCHANGED <<reclaims, claimed, overtaken>> /\ fwd[f].at # "reconfirm" /\ Goto(f, "checkedOut", s)
        BY <3>1, Zenon DEF Serves, At
      <3> QED
        BY <2>1, <3>3, <3>4, Zenon
    <2>3. CASE Forward(f)
      <3>1. Buffered /\ UNCHANGED <<reclaims, claimed, overtaken>> /\ fwd[f].at # "reconfirm"
            /\ Goto(f, "confirm", fwd[f].slot)
        BY <2>3, Zenon DEF Forward, Buffered, slots, past, At
      <3> QED
        BY <2>1, <3>1, Zenon
    <2>4. CASE ExpiredComplete(f, TRUE)
      <3>1. Buffered /\ UNCHANGED <<reclaims, claimed, overtaken>> /\ fwd[f].at # "reconfirm"
            /\ Goto(f, "confirm", fwd[f].slot)
        BY <2>4, Zenon DEF ExpiredComplete, CompleteScript, Buffered, past, At
      <3> QED
        BY <2>1, <3>1, Zenon
    <2>5. CASE Confirm(f, TRUE) \/ Abort(f, TRUE) \/ Rearm(f)
      <3>1. Buffered /\ UNCHANGED <<reclaims, claimed, overtaken>> /\ fwd[f].at # "reconfirm"
            /\ Goto(f, "idle", 0)
        BY <2>5, Zenon DEF Confirm, Abort, AbortScript, Rearm, Buffered, slots, past, At
      <3> QED
        BY <2>1, <3>1, Zenon
    <2> QED
      BY <1>2, <2>2, <2>3, <2>4, <2>5, ListReclaims, ClaimReclaims, ProduceReclaims, ConfirmReclaims
       , Zenon DEF ForwarderStep
  <1>3. ASSUME NEW j \in Jobs, Dispatch(j, TRUE) \/ Dispatch(j, FALSE) \/ DispatchExpired(j)
        PROVE  ReclaimInv'
    BY <1>3, ReclaimSame, Zenon DEF Dispatch, DispatchExpired, Buffered, slots, others, past
  <1>4. ASSUME LeaseStep PROVE ReclaimInv'
    BY <1>4, ReclaimSame, Zenon DEF LeaseStep, Calm, Buffered, others, past
  <1>5. ASSUME NEW s \in Slots, Start(s) PROVE ReclaimInv'
    BY <1>5, ReclaimSame, Zenon DEF Start, Buffered, slots, past
  <1>6. ASSUME NEW s \in Slots, NEW inc, Finish(s, inc, TRUE) \/ Finish(s, inc, FALSE) PROVE ReclaimInv'
    BY <1>6, ReclaimSame, Zenon DEF Finish, CompleteScript, Buffered, slots, past
  <1>7. CASE ResetVtimeIfQuiescent \/ UNCHANGED vars
    BY <1>7, ReclaimSame, Zenon DEF ResetVtimeIfQuiescent, vars, Buffered, slots, others, past
  <1> QED
    BY <1>1, <1>2, <1>3, <1>4, <1>5, <1>6, <1>7, LeaseSteps, ClaimExpiryReclaims, Zenon DEF Next

-----------------------------------------------------------------------------
(* Newcomers *)

Ahead(t) == {u \in Tenants : vtime[u] > vtime[t]}

\* A newcomer that waits has nothing in flight, so it is under its share whatever view a
\* forwarder has, and no tenant of the ring is before its time; each checkout that passes
\* it over puts one more tenant ahead of it in virtual time.
Newcomer(t) ==
    /\ InRing(t)
    /\ \A s \in LeasedTo(t) : tenantLeases[s] = "none"
    /\ \A u \in DOMAIN ring : vtime[t] <= vtime[u]
    /\ waited[t] <= Cardinality(Ahead(t))

WaitInv == lane = "throughput" => \A t \in Tenants : waited[t] = -1 \/ Newcomer(t)

\* A set of tenants is counted by at most their number.
LEMMA AheadCount ==
    ASSUME NEW A, A \subseteq Tenants
    PROVE  IsFiniteSet(A) /\ Cardinality(A) \in Nat /\ Cardinality(A) <= Cardinality(Tenants)
  <1>1. IsFiniteSet(Tenants)
    BY FairLaneAssumption, Zenon
  <1> QED
    BY <1>1, FS_Subset, FS_CardinalityType, Zenon

\* A newcomer waits less than once for each tenant.
LEMMA WaitBound ==
    ASSUME BaseInv, waited \in [Tenants -> Nat \cup {-1}], WaitInv
    PROVE  NoMonopoly
  <1> SUFFICES ASSUME lane = "throughput", NEW t \in Tenants
               PROVE  waited[t] < Cardinality(Tenants)
    BY Zenon DEF NoMonopoly
  <1>1. IsFiniteSet(Tenants) /\ Cardinality(Tenants) \in Nat
    BY AheadCount, Zenon
  <1>2. IsFiniteSet(Tenants \ {t}) /\ Cardinality(Tenants \ {t}) = Cardinality(Tenants) - 1
    BY <1>1, FS_RemoveElement, Zenon
  <1>3. Ahead(t) \subseteq Tenants \ {t}
    BY DEF Ahead, BaseInv, ListsInv
  <1>4. Cardinality(Ahead(t)) \in Nat /\ Cardinality(Ahead(t)) <= Cardinality(Tenants \ {t})
    BY <1>2, <1>3, FS_Subset, FS_CardinalityType, Zenon
  <1>5. waited[t] \in Int /\ (waited[t] = -1 \/ waited[t] <= Cardinality(Ahead(t)))
    <2>1. waited[t] \in Nat \cup {-1}
      BY Zenon
    <2>2. waited[t] = -1 \/ waited[t] <= Cardinality(Ahead(t))
      BY Zenon DEF WaitInv, Newcomer
    <2> QED
      BY <2>1, <2>2
  <1>6. Cardinality(Tenants) - 1 \in Nat
    BY <1>2, FS_CardinalityType, Zenon
  <1> QED
    BY <1>1, <1>2, <1>4, <1>5, <1>6

\* A step that leaves ring and virtual times alone, or ends the waiting.
LEMMA WaitSame ==
    ASSUME BaseInv, WaitInv, Calm, lane = "throughput" => UNCHANGED <<ring, vtime>>,
           \A t \in Tenants : waited'[t] = waited[t] \/ waited'[t] = -1
    PROVE  WaitInv'
  <1> SUFFICES ASSUME lane = "throughput", NEW t \in Tenants, waited'[t] # -1
               PROVE  Newcomer(t)'
    BY Zenon DEF WaitInv, Calm, lane
  <1>1. Newcomer(t) /\ waited'[t] = waited[t] /\ UNCHANGED <<ring, vtime>>
    BY Zenon DEF WaitInv
  <1>2. ASSUME NEW s \in LeasedTo(t)' PROVE tenantLeases'[s] = "none"
    <2>1. s \in LeasedTo(t) /\ s \in Slots /\ Tenant(s) = t
      BY <1>2, Zenon DEF LeasedTo, Calm, Tenant
    <2>2. tenantLeases[s] = "none"
      BY <1>1, <2>1, Zenon DEF Newcomer
    <2> QED
      BY <2>1, <2>2, Zenon DEF Calm, Rearmed
  <1>3. Ahead(t)' = Ahead(t)
    BY <1>1, Zenon DEF Ahead
  <1> QED
    BY <1>1, <1>2, <1>3, Zenon DEF Newcomer, InRing

\* A tenant that joins the ring starts behind nobody but those ahead in the ring.
LEMMA JoinWaits ==
    ASSUME BaseInv, waited \in [Tenants -> Nat \cup {-1}], WaitInv, Calm, NEW j \in Jobs, Enqueue(j),
           ~InRing(j[1]), lane = "throughput", UNCHANGED <<slotJob, tenantLeases>>
    PROVE  WaitInv'
  <1>1. PICK t : t = j[1]
    BY Zenon
  <1>2. t \in Tenants /\ ~InRing(t) /\ ring' = ZAdd(ring, t, JoinScore(t))
        /\ vtime' = [vtime EXCEPT ![t] = JoinScore(t)]
        /\ waited' = IF NoDebt(t) THEN [waited EXCEPT ![t] = 0] ELSE waited
    BY <1>1, JobFacts, Zenon DEF Enqueue
  <1>3. /\ DOMAIN ring \subseteq Tenants /\ vtime \in [Tenants -> Int]
        /\ \A u \in DOMAIN ring : ring[u] = vtime[u] /\ ring[u] \in Int
    BY Zenon DEF BaseInv, ListsInv
  <1>4. /\ JoinScore(t) \in Int /\ JoinScore(t) >= vtime[t]
        /\ DOMAIN ring # {} => JoinScore(t) >= RingMin
        /\ DOMAIN ring # {} /\ vtime[t] <= RingMin => JoinScore(t) = RingMin
    BY <1>2, JoinScoreIs, Zenon DEF BaseInv
  <1>5. DOMAIN ring # {} => /\ RingMin \in Int /\ \A u \in DOMAIN ring : RingMin <= ring[u]
                            /\ \E u \in DOMAIN ring : RingMin = ring[u]
    BY <1>3, RingMinIs, Zenon
  <1>6. /\ DOMAIN ring' = DOMAIN ring \cup {t} /\ vtime'[t] = JoinScore(t)
        /\ \A u \in Tenants : u # t => vtime'[u] = vtime[u]
    BY <1>2, <1>3, Zenon DEF ZAdd
  <1>7. \A u : LeasedTo(u)' = LeasedTo(u)
    BY Zenon DEF LeasedTo, Tenant
  <1>8. ASSUME waited'[t] # -1 PROVE Newcomer(t)'
    <2>1. NoDebt(t) /\ waited'[t] = 0
      BY <1>2, <1>8, Zenon DEF WaitInv, Newcomer
    <2>2. \A s \in LeasedTo(t)' : tenantLeases'[s] = "none"
      BY <1>7, <2>1, Zenon DEF NoDebt, LeasedTo
    <2>3. \A u \in DOMAIN ring' : vtime'[t] <= vtime'[u]
      <3> SUFFICES ASSUME NEW u \in DOMAIN ring' PROVE vtime'[t] <= vtime'[u]
        BY Zenon
      <3>1. CASE u = t
        BY <1>4, <1>6, <3>1
      <3>2. CASE u # t
        <4>1. u \in DOMAIN ring /\ vtime'[u] = ring[u] /\ vtime[t] <= RingMin
          BY <1>3, <1>6, <2>1, <3>2, Zenon DEF NoDebt
        <4> QED
          BY <1>4, <1>5, <1>6, <4>1, Zenon
      <3> QED
        BY <3>1, <3>2, Zenon
    <2>4. Cardinality(Ahead(t)') \in Nat
      BY AheadCount, Zenon DEF Ahead
    <2>5. waited'[t] <= Cardinality(Ahead(t)')
      BY <2>1, <2>4
    <2>6. InRing(t)'
      BY <1>6, Zenon DEF InRing
    <2> QED
      BY <2>2, <2>3, <2>5, <2>6, Zenon DEF Newcomer
  <1>9. ASSUME NEW u \in Tenants, u # t, waited'[u] # -1 PROVE Newcomer(u)'
    <2>1. waited'[u] = waited[u] /\ Newcomer(u)
      BY <1>2, <1>9, Zenon DEF WaitInv
    <2>2. u \in DOMAIN ring /\ vtime'[u] = vtime[u] /\ \A x \in DOMAIN ring : vtime[u] <= vtime[x]
      BY <1>6, <1>9, <2>1, Zenon DEF Newcomer, InRing
    <2>3. vtime[u] <= JoinScore(t)
      <3>1. PICK x \in DOMAIN ring : RingMin = ring[x]
        BY <1>5, <2>2, Zenon
      <3>2. vtime[u] <= RingMin /\ RingMin \in Int /\ JoinScore(t) >= RingMin /\ vtime[u] \in Int
        BY <1>3, <1>4, <1>5, <1>9, <2>2, <3>1, Zenon
      <3> QED
        BY <1>4, <3>2
    <2>4. \A x \in DOMAIN ring' : vtime'[u] <= vtime'[x]
      BY <1>3, <1>6, <2>2, <2>3, Zenon
    <2>5. Ahead(u) \subseteq Ahead(u)'
      <3> SUFFICES ASSUME NEW x \in Tenants, vtime[x] > vtime[u] PROVE vtime'[x] > vtime'[u]
        BY Zenon DEF Ahead
      <3>1. vtime[x] \in Int /\ vtime[u] \in Int /\ vtime'[x] \in Int /\ vtime'[x] >= vtime[x]
        <4>1. CASE x = t
          BY <1>2, <1>3, <1>4, <1>6, <4>1, Zenon
        <4>2. CASE x # t
          <5>1. vtime'[x] = vtime[x] /\ vtime[x] \in Int
            BY <1>3, <1>6, <4>2, Zenon
          <5>2. vtime[u] \in Int
            BY <1>3, Zenon
          <5> QED
            BY <5>1, <5>2
        <4> QED
          BY <4>1, <4>2, Zenon
      <3> QED
        BY <2>2, <3>1
    <2>6. waited'[u] <= Cardinality(Ahead(u)')
      <3>1. Ahead(u)' \subseteq Tenants /\ Ahead(u) \subseteq Tenants
        BY Zenon DEF Ahead
      <3>2. IsFiniteSet(Ahead(u)') /\ Cardinality(Ahead(u)') \in Nat /\ Cardinality(Ahead(u)) \in Nat
        BY <3>1, AheadCount, Zenon
      <3>3. Cardinality(Ahead(u)) <= Cardinality(Ahead(u)')
        BY <2>5, <3>2, FS_Subset, Zenon
      <3>4. waited[u] \in Nat \cup {-1} /\ waited[u] <= Cardinality(Ahead(u))
        BY <2>1, Zenon DEF Newcomer
      <3> QED
        BY <2>1, <3>2, <3>3, <3>4
    <2>7. \A s \in LeasedTo(u)' : tenantLeases'[s] = "none"
      BY <1>7, <2>1, Zenon DEF Newcomer
    <2> QED
      BY <1>6, <2>2, <2>4, <2>6, <2>7, Zenon DEF Newcomer, InRing
  <1> QED
    BY <1>8, <1>9, Zenon DEF WaitInv

\* A checkout serves the tenant of least virtual time, and moves it behind the newcomers.
LEMMA ServeWaits ==
    ASSUME BaseInv, waited \in [Tenants -> Nat \cup {-1}], WaitInv, Served
    PROVE  WaitInv'
  <1>1. PICK f \in Forwarders, view \in SUBSET Tenants, t \in DOMAIN ring, s \in Slots :
             Serves(f, view, t, s)
    BY Zenon DEF Served
  <1>2. settings' = settings /\ slotJob[s] = NoJob /\ slotJob' = [slotJob EXCEPT ![s] = Head(ready[t])]
        /\ waited' = [u \in Tenants |-> IF u = t \/ waited[u] = -1 \/ ~InRing(u) THEN -1
                                        ELSE waited[u] + 1]
    BY <1>1, Zenon DEF Serves
  <1> SUFFICES ASSUME lane = "throughput", NEW u \in Tenants, waited'[u] # -1
               PROVE  Newcomer(u)'
    BY <1>2, Zenon DEF WaitInv, lane
  <1>3. /\ Head(ready[t]) \in Jobs /\ Head(ready[t])[1] = t
        /\ vtime'[t] > vtime[t] /\ DOMAIN ring' \subseteq DOMAIN ring
        /\ \A x \in Tenants : x # t => vtime'[x] = vtime[x] /\ (InRing(x) => InRing(x)')
    BY <1>1, ServeLists, Zenon DEF Serves, BaseInv
  <1>4. u # t /\ waited[u] # -1 /\ InRing(u) /\ waited'[u] = waited[u] + 1
    BY <1>2, Zenon
  <1>5. Newcomer(u)
    BY <1>4, Zenon DEF WaitInv
  <1>6. /\ t \in Tenants /\ DOMAIN ring \subseteq Tenants /\ vtime \in [Tenants -> Int]
        /\ vtime'[t] \in Int /\ ring[t] = vtime[t] /\ ring[u] = vtime[u]
    <2>1. ListsInv'
      BY <1>1, ServeKeeps, Zenon DEF BaseInv
    <2> QED
      BY <1>4, <2>1, Zenon DEF BaseInv, ListsInv, InRing
  <1>7. vtime[t] = vtime[u]
    <2>1. Inflight(u) = 0
      <3>1. {q \in LeasedTo(u) : tenantLeases[q] = "live"} = {}
        BY <1>5, Zenon DEF Newcomer
      <3> QED
        BY <3>1, FS_EmptySet, Zenon DEF Inflight
    <2>2. UnderShare(u, view)
      BY <1>6, <2>1, SharesIs, Zenon DEF BaseInv, ListsInv
    <2>3. u \in Candidates(view)
      BY <1>4, <2>2, Zenon DEF Candidates, InRing
    <2>4. Before(t, u)
      BY <1>1, <2>3, Zenon DEF Serves
    <2>5. vtime[u] <= vtime[t]
      BY <1>5, Zenon DEF Newcomer
    <2> QED
      BY <1>6, <2>4, <2>5 DEF Before
  <1>8. ASSUME NEW q \in LeasedTo(u)' PROVE tenantLeases'[q] = "none"
    <2>1. q # s
      BY <1>2, <1>3, <1>4, <1>8, Zenon DEF LeasedTo, Tenant, BaseInv, SlotsInv
    <2>2. q \in LeasedTo(u) /\ q \in Slots
      BY <1>2, <1>8, <2>1, Zenon DEF LeasedTo, Tenant, BaseInv, SlotsInv
    <2>3. tenantLeases[q] = "none" /\ tenantLeases \in [Slots -> LeaseStates]
      BY <1>5, <2>2, Zenon DEF Newcomer, BaseInv, SlotsInv
    <2>4. tenantLeases' = [PurgedTenants(Visited(t, view)) EXCEPT ![s] = "live"]
      BY <1>1, Zenon DEF Serves
    <2> QED
      BY <2>1, <2>2, <2>3, <2>4, Zenon DEF PurgedTenants, Purged
  <1>9. \A x \in DOMAIN ring' : vtime'[u] <= vtime'[x]
    <2> SUFFICES ASSUME NEW x \in DOMAIN ring' PROVE vtime'[u] <= vtime'[x]
      BY Zenon
    <2>1. x \in DOMAIN ring /\ x \in Tenants /\ vtime[u] <= vtime[x] /\ vtime'[u] = vtime[u]
      BY <1>3, <1>4, <1>5, <1>6, Zenon DEF Newcomer
    <2>2. CASE x = t
      BY <1>3, <1>6, <2>1, <2>2
    <2>3. CASE x # t
      BY <1>3, <2>1, <2>3, Zenon
    <2> QED
      BY <2>2, <2>3, Zenon
  <1>10. waited'[u] <= Cardinality(Ahead(u)')
    <2>1. t \notin Ahead(u) /\ Ahead(u) \cup {t} \subseteq Ahead(u)'
      <3>1. t \notin Ahead(u)
        BY <1>6, <1>7 DEF Ahead
      <3>2. vtime'[t] > vtime'[u]
        BY <1>3, <1>4, <1>6, <1>7, Zenon
      <3>3. ASSUME NEW x \in Ahead(u) PROVE x \in Ahead(u)'
        BY <1>3, <1>4, <3>1, <3>3, Zenon DEF Ahead
      <3> QED
        BY <1>6, <3>1, <3>2, <3>3, Zenon DEF Ahead
    <2>2. Ahead(u)' \subseteq Tenants /\ Ahead(u) \subseteq Tenants
      BY Zenon DEF Ahead
    <2>3. IsFiniteSet(Ahead(u)') /\ Cardinality(Ahead(u)') \in Nat
          /\ IsFiniteSet(Ahead(u)) /\ Cardinality(Ahead(u)) \in Nat
      BY <2>2, AheadCount, Zenon
    <2>4. Cardinality(Ahead(u) \cup {t}) = Cardinality(Ahead(u)) + 1
      BY <2>1, <2>3, FS_AddElement, Zenon
    <2>5. Cardinality(Ahead(u) \cup {t}) <= Cardinality(Ahead(u)')
      BY <2>1, <2>3, FS_Subset, Zenon
    <2>6. waited[u] \in Nat /\ waited[u] <= Cardinality(Ahead(u))
      BY <1>4, <1>5, Zenon DEF Newcomer
    <2>7. PICK m, n, k : m = Cardinality(Ahead(u)) /\ n = Cardinality(Ahead(u)') /\ k = waited[u]
      BY Zenon
    <2>8. m \in Nat /\ n \in Nat /\ k \in Nat /\ k <= m /\ m + 1 <= n /\ waited'[u] = k + 1
      BY <1>4, <2>3, <2>4, <2>5, <2>6, <2>7, Zenon
    <2>9. k + 1 <= n
      BY <2>8
    <2> QED
      BY <2>7, <2>8, <2>9, Zenon
  <1> QED
    BY <1>3, <1>4, <1>8, <1>9, <1>10, Zenon DEF Newcomer

\* Every step keeps the account of waiting newcomers.
LEMMA WaitStep ==
    ASSUME BaseInv, waited \in [Tenants -> Nat \cup {-1}], WaitInv, [Next]_vars, Calm \/ Served
    PROVE  WaitInv'
  <1>0. CASE Served
    BY <1>0, ServeWaits, Zenon
  <1> SUFFICES ASSUME Calm PROVE WaitInv'
    BY <1>0, Zenon
  <1>1. ASSUME UNCHANGED <<ring, vtime, waited>> PROVE WaitInv'
    BY <1>1, WaitSame, Zenon
  <1>2. ASSUME NEW j \in Jobs, Dispatch(j, TRUE) \/ Dispatch(j, FALSE) PROVE WaitInv'
    <2>1. Enqueue(j) /\ UNCHANGED <<slotJob, tenantLeases, settings>>
      BY <1>2, Zenon DEF Dispatch, slots
    <2>2. CASE InRing(j[1])
      BY <1>1, <2>1, <2>2, Zenon DEF Enqueue
    <2>3. CASE ~InRing(j[1]) /\ lane = "throughput"
      BY <2>1, <2>3, JoinWaits, Zenon
    <2>4. CASE lane # "throughput"
      BY <2>1, <2>4, Zenon DEF WaitInv, lane
    <2> QED
      BY <2>2, <2>3, <2>4, Zenon
  <1>3. ASSUME NEW s, NEW inc, CompleteScript(s, inc), waited' = waited PROVE WaitInv'
    <2>1. lane = "throughput" => UNCHANGED <<ring, vtime>>
      BY <1>3, Zenon DEF CompleteScript
    <2> QED
      BY <1>3, <2>1, WaitSame, Zenon
  <1>4. ASSUME NEW s, AbortScript(s) PROVE WaitInv'
    <2>1. CASE s \notin forwarding
      BY <1>1, <1>4, <2>1, Zenon DEF AbortScript, lists
    <2>2. CASE s \in forwarding
      <3>1. \A t \in Tenants : waited'[t] = -1
        BY <1>4, <2>2, Zenon DEF AbortScript
      <3> QED
        BY <3>1, Zenon DEF WaitInv
    <2> QED
      BY <2>1, <2>2, Zenon
  <1>5. ASSUME NEW f \in Forwarders, Rearm(f) PROVE WaitInv'
    <2>1. UNCHANGED <<ring, vtime>> /\ \A t \in Tenants : waited'[t] = waited[t] \/ waited'[t] = -1
      BY <1>5, Zenon DEF Rearm, lists
    <2> QED
      BY <2>1, WaitSame, Zenon
  <1>6. CASE ResetVtimeIfQuiescent
    <2>1. DOMAIN ring = {} /\ waited' = waited
      BY <1>6, Zenon DEF ResetVtimeIfQuiescent, past
    <2> QED
      BY <2>1, Zenon DEF WaitInv, Newcomer, InRing, lane, Calm
  <1>7. ASSUME NEW f \in Forwarders, ForwarderFault(f) PROVE WaitInv'
    BY <1>1, <1>7, Zenon DEF ForwarderFault, ForwardFails, Expired, ExpiredFails, ExpiredComplete, Confirm,
                      Abort, ReclaimProduceFails, ReclaimConfirm, Crash, past, lists
  <1>8. ASSUME NEW f \in Forwarders, ForwarderStep(f) PROVE WaitInv'
    <2>1. ASSUME NEW view \in SUBSET Tenants, Checkout(f, view) PROVE WaitInv'
      BY <2>1, CheckoutServes, ServeWaits, Zenon DEF BaseInv, Served
    <2>2. CASE ExpiredComplete(f, TRUE)
      BY <1>3, <2>2, Zenon DEF ExpiredComplete, past
    <2>3. CASE Abort(f, TRUE)
      BY <1>4, <2>3, Zenon DEF Abort
    <2>4. CASE Forward(f) \/ Confirm(f, TRUE) \/ ReclaimClaim(f) \/ ReclaimProduce(f)
               \/ ReclaimConfirm(f, TRUE) \/ \E s \in Slots : ListStale(f, s)
      BY <1>1, <2>4, Zenon DEF Forward, Confirm, ReclaimClaim, ReclaimProduce, ReclaimConfirm, ListStale,
                        past, lists
    <2> QED
      BY <1>5, <1>8, <2>1, <2>2, <2>3, <2>4, Zenon DEF ForwarderStep
  <1>9. ASSUME NEW s \in Slots, ClaimExpires(s) \/ Start(s) PROVE WaitInv'
    BY <1>1, <1>9, Zenon DEF ClaimExpires, Start, past, lists
  <1>10. ASSUME NEW s \in Slots, NEW inc, Finish(s, inc, TRUE) \/ Finish(s, inc, FALSE) PROVE WaitInv'
    BY <1>1, <1>3, <1>10, Zenon DEF Finish, past, lists
  <1>11. ASSUME NEW j \in Jobs, DispatchExpired(j) PROVE WaitInv'
    BY <1>1, <1>11, Zenon DEF DispatchExpired, past, lists
  <1>12. CASE LeaseStep \/ UNCHANGED vars
    BY <1>1, <1>12, Zenon DEF LeaseStep, vars, past, lists
  <1> QED
    BY <1>2, <1>6, <1>7, <1>8, <1>9, <1>10, <1>11, <1>12, LeaseSteps, Zenon DEF Next

-----------------------------------------------------------------------------
(* The theorems *)

TurnInv == FairInv /\ ReclaimInv /\ WaitInv

\* The initial states satisfy the invariant.
LEMMA TurnInit ==
    ASSUME Init
    PROVE  TurnInv
  <1>1. FairInv
    BY FairInit, Zenon
  <1>2. ReclaimInv
    <2>1. reclaims \in [Slots -> Int] /\ \A s \in Slots : reclaims[s] = 0
      BY DEF Init
    <2>2. \A f \in Forwarders : ReclaimOf(f) /\ ~Reclaiming(f)
      BY Zenon DEF Init, Resting, ReclaimOf, Reclaiming, At
    <2>3. OneEach /\ ToConfirm
      BY <2>1, <2>2 DEF OneEach, ToConfirm
    <2> QED
      BY <2>1, <2>2, <2>3, Zenon DEF ReclaimInv
  <1>3. WaitInv
    BY Zenon DEF Init, WaitInv
  <1> QED
    BY <1>1, <1>2, <1>3, Zenon DEF TurnInv

\* Every step keeps it.
LEMMA TurnStep ==
    ASSUME TurnInv, [Next]_vars
    PROVE  TurnInv'
  <1>1. FairInv' /\ (Calm \/ Served)
    BY FairStep, Zenon DEF TurnInv
  <1>2. ReclaimInv' /\ WaitInv'
    BY <1>1, ReclaimStep, WaitStep, Zenon DEF TurnInv, FairInv
  <1> QED
    BY <1>1, <1>2, Zenon DEF TurnInv

\* The invariant on which the two theorems rest.
LEMMA TurnInvariant == Spec => []TurnInv
  BY TurnInit, TurnStep, PTL DEF Spec

\* A tenant that joins the throughput ring with no debt and nothing in flight is passed
\* over by fewer checkouts than there are tenants, whatever the weights, the window and
\* the view of each forwarder.
THEOREM NewcomersServed == Spec => []NoMonopoly
  <1>1. TurnInv => NoMonopoly
    BY WaitBound, Zenon DEF TurnInv, FairInv
  <1> QED
    BY <1>1, TurnInvariant, PTL

\* However many forwarders list a stale forward, under the claim key of another or not,
\* it is reclaimed once, unless the confirm of the reclaim fails, its forwarder dies, or
\* the claim key expires under a forwarder that has the slot on its list.
THEOREM ReclaimedOnlyOnce == Spec => []ReclaimedOnce
  <1>1. TurnInv => ReclaimedOnce
    <2>1. TurnInv => \A s \in Slots \ overtaken : reclaims[s] \in {0, 1}
      BY Zenon DEF TurnInv, ReclaimInv
    <2>2. \A n \in {0, 1} : n <= 1
      OBVIOUS
    <2> QED
      BY <2>1, <2>2, Zenon DEF ReclaimedOnce
  <1> QED
    BY <1>1, TurnInvariant, PTL

====
