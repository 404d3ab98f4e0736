--------------------------- MODULE FairLaneProofs ----------------------------
(***************************************************************************)
(* What the lane promises in every state, for any number of tenants, jobs, *)
(* forwarders and faults and every setting: no job is lost, and the budget *)
(* and the caps hold.                                                      *)
(***************************************************************************)
EXTENDS FairLane, FiniteSetTheorems, WellFoundedInduction, TLAPS

-----------------------------------------------------------------------------
(* The operators of the model *)

\* No job is the absence of a job, and a job has a tenant.
LEMMA JobFacts ==
    ASSUME NEW j \in Jobs
    PROVE  j # NoJob /\ j[1] \in Tenants
  <1>1. PICK t \in Tenants, k \in 1..MaxLoad : j = <<t, k>>
    BY DEF Jobs
  <1>2. Len(j) = 2 /\ Len(NoJob) = 0
    BY <1>1, Zenon DEF NoJob
  <1> QED
    BY <1>1, <1>2

\* The slots are finitely many, and so are the tenants of the ring.
LEMMA SlotsFinite == IsFiniteSet(Slots) /\ Cardinality(Slots) = MaxSlots
  <1>1. MaxSlots \in Nat
    BY FairLaneAssumption, Zenon
  <1> QED
    BY <1>1, FS_Interval DEF Slots

\* Among finitely many tenants of the ring one is first: ZRANGE has an answer.
LEMMA FirstExists ==
    ASSUME NEW T, T \subseteq DOMAIN ring, T # {}, DOMAIN ring \subseteq Tenants,
           \A t \in DOMAIN ring : ring[t] \in Int
    PROVE  FirstOf(T) \in T /\ \A u \in T : Before(FirstOf(T), u)
  <1>1. IsFiniteSet(T) /\ T \subseteq Nat /\ \A t \in T : ring[t] \in Int
    BY FairLaneAssumption, FS_Subset, Zenon
  <1> DEFINE below(t) == {u \in T : Before(u, t)}
             B == {below(t) : t \in T}
  <1>2. B \subseteq FiniteSubsetsOf(T) /\ B # {}
    <2>1. \A t \in T : below(t) \subseteq T /\ IsFiniteSet(below(t))
      BY <1>1, FS_Subset, Zenon
    <2>2. \A c \in B : c \in FiniteSubsetsOf(T)
      BY <2>1, Zenon DEF FiniteSubsetsOf
    <2> QED
      BY <2>2, Zenon
  <1>3. PICK b \in B : \A c \in B : <<c, b>> \notin StrictSubsetOrdering(T)
    BY <1>2, FS_StrictSubsetOrderingWellFounded, WFMin, Zenon
  <1>4. PICK t \in T : b = below(t)
    BY <1>3, Zenon
  <1>5. ASSUME NEW u \in T PROVE Before(t, u)
    <2>1. SUFFICES ASSUME ~Before(t, u) PROVE FALSE
      BY Zenon
    <2>2. below(u) \subseteq below(t)
      BY <1>1, <2>1 DEF Before
    <2>3. t \in below(t) /\ t \notin below(u)
      BY <1>1, <2>1 DEF Before
    <2>4. <<below(u), below(t)>> \in StrictSubsetOrdering(T)
      BY <2>2, <2>3, Zenon DEF StrictSubsetOrdering
    <2> QED
      BY <1>3, <1>4, <2>4, Zenon
  <1> QED
    BY <1>5, Zenon DEF FirstOf

\* The least score of the ring is one of its scores.
LEMMA RingMinIs ==
    ASSUME DOMAIN ring # {}, DOMAIN ring \subseteq Tenants,
           \A t \in DOMAIN ring : ring[t] \in Int
    PROVE  /\ RingMin \in Int /\ \A t \in DOMAIN ring : RingMin <= ring[t]
           /\ \E t \in DOMAIN ring : RingMin = ring[t]
  <1>1. PICK t \in DOMAIN ring : \A u \in DOMAIN ring : Before(t, u)
    BY FirstExists, Zenon
  <1>2. \A u \in DOMAIN ring : ring[t] <= ring[u]
    BY <1>1, FairLaneAssumption DEF Before
  <1> DEFINE scores == {ring[u] : u \in DOMAIN ring}
  <1>3. ring[t] \in scores /\ \A y \in scores : ring[t] <= y
    BY <1>2, Zenon
  <1>4. RingMin \in scores /\ \A y \in scores : RingMin <= y
    <2> HIDE DEF scores
    <2>1. Min(scores) \in scores /\ \A y \in scores : Min(scores) <= y
      BY <1>3, Zenon DEF Min
    <2> QED
      BY <2>1, Zenon DEF RingMin, scores
  <1> QED
    BY <1>4, Zenon

\* Whole numbers divide to whole numbers.
LEMMA Quotient ==
    ASSUME NEW a \in Nat, NEW n \in Nat \ {0}
    PROVE  a \div n \in Nat
  OBVIOUS

\* The greater of two, and of three, numbers.
LEMMA MaxIs ==
    ASSUME NEW a \in Int, NEW c \in Int, NEW d \in Int
    PROVE  /\ Max({a, c}) \in Int /\ Max({a, c}) >= a
           /\ Max({a, c, d}) \in Int /\ Max({a, c, d}) >= c
  <1>1. \E x \in {a, c} : \A y \in {a, c} : x >= y
    OBVIOUS
  <1>2. \E x \in {a, c, d} : \A y \in {a, c, d} : x >= y
    OBVIOUS
  <1>3. Max({a, c}) \in {a, c} /\ \A y \in {a, c} : Max({a, c}) >= y
    BY <1>1, Zenon DEF Max
  <1>4. Max({a, c, d}) \in {a, c, d} /\ \A y \in {a, c, d} : Max({a, c, d}) >= y
    BY <1>2, Zenon DEF Max
  <1> QED
    BY <1>3, <1>4, Zenon

\* The number of slots with some property, at most all of them.
LEMMA SlotCount ==
    ASSUME NEW A, A \subseteq Slots
    PROVE  IsFiniteSet(A) /\ Cardinality(A) \in Nat
  BY SlotsFinite, FS_Subset, FS_CardinalityType, Zenon

\* A view of some tenants has a positive weight.
LEMMA WeightIs ==
    ASSUME NEW view, view \subseteq Tenants, view # {}
    PROVE  SumWeight(view) \in Nat \ {0}
  <1> DEFINE W == {p \in view \X (1..Unit) : p[2] <= Weight[p[1]]}
  <1>0. Unit \in Nat \ {0}
    BY FairLaneAssumption, Zenon
  <1>1. IsFiniteSet(view) /\ IsFiniteSet(1..Unit)
    <2>1. 1 \in Int /\ Unit \in Int
      BY <1>0
    <2>2. IsFiniteSet(1..Unit)
      BY <2>1, FS_Interval, Zenon
    <2> QED
      BY <2>2, FairLaneAssumption, FS_Subset, Zenon
  <1>2. IsFiniteSet(view \X (1..Unit))
    BY <1>1, FS_Product, Zenon
  <1>3. IsFiniteSet(W) /\ Cardinality(W) \in Nat
    BY <1>2, FS_Subset, FS_CardinalityType, Zenon
  <1>4. PICK u \in view : TRUE
    BY Zenon
  <1>5. Weight[u] \in Nat \ {0}
    BY FairLaneAssumption, Zenon
  <1>6. <<u, 1>> \in W
    BY <1>0, <1>4, <1>5
  <1>7. Cardinality(W) # 0
    BY <1>3, <1>6, FS_EmptySet, Zenon
  <1> QED
    BY <1>3, <1>7, Zenon DEF SumWeight

\* A tenant's share is a number, positive and within the cap where there is a cap, so
\* that a tenant with nothing in flight is always under its share.
LEMMA ShareIs ==
    ASSUME settings \in Instances, DOMAIN ring \subseteq Tenants,
           NEW t \in Tenants, NEW view, view \subseteq Tenants
    PROVE  /\ EffCap(t, view) \in Nat
           /\ Cap > 0 => 0 < EffCap(t, view) /\ EffCap(t, view) <= Cap
  <1> DEFINE active == Max({Cardinality(DOMAIN ring), 1, Cardinality(view)})
             sumW == IF view # {} THEN SumWeight(view) ELSE active
             share == IF Budget = 0 THEN 0
                      ELSE IF settings.weighted THEN Max({1, (Budget * Weight[t]) \div sumW})
                      ELSE (Budget + active - 1) \div active
  <1>1. Budget \in Nat /\ Cap \in Nat /\ Weight[t] \in Nat \ {0}
    BY FairLaneAssumption, Zenon DEF Settings, Budget, Cap
  <1>2. Cardinality(DOMAIN ring) \in Nat /\ Cardinality(view) \in Nat
    BY FairLaneAssumption, FS_Subset, FS_CardinalityType, Zenon
  <1>3. active \in Nat \ {0}
    <2>1. Cardinality(DOMAIN ring) \in Int /\ Cardinality(view) \in Int /\ 1 \in Int
      BY <1>2
    <2>2. active \in Int /\ active >= 1
      BY <2>1, MaxIs, Zenon
    <2> QED
      BY <2>2
  <1>4. sumW \in Nat \ {0}
    BY <1>3, WeightIs, Zenon
  <1>5. share \in Nat
    <2>1. CASE Budget = 0
      BY <2>1, Zenon
    <2>2. CASE Budget # 0 /\ settings.weighted
      <3>1. Budget * Weight[t] \in Nat
        BY <1>1
      <3>2. (Budget * Weight[t]) \div sumW \in Nat
        BY <1>4, <3>1, Quotient, Zenon
      <3>3. Max({1, (Budget * Weight[t]) \div sumW}) \in Nat
        <4>1. PICK q : q = (Budget * Weight[t]) \div sumW
          BY Zenon
        <4>2. q \in Int /\ 1 \in Int
          BY <3>2, <4>1
        <4>3. Max({1, q}) \in Int /\ Max({1, q}) >= 1
          BY <4>2, MaxIs, Zenon
        <4> QED
          BY <4>1, <4>3
      <3> QED
        BY <2>2, <3>3, Zenon
    <2>3. CASE Budget # 0 /\ ~settings.weighted
      <3>1. Budget + active - 1 \in Nat
        BY <1>1, <1>3, <2>3
      <3>2. (Budget + active - 1) \div active \in Nat
        BY <1>3, <3>1, Quotient, Zenon
      <3> QED
        BY <2>3, <3>2, Zenon
    <2> QED
      BY <2>1, <2>2, <2>3, Zenon
  <1>6. EffCap(t, view) = IF Cap > 0 /\ (share = 0 \/ Cap < share) THEN Cap ELSE share
    BY Zenon DEF EffCap
  <1> HIDE DEF share
  <1> QED
    BY <1>1, <1>5, <1>6

\* Who is under its share is under the cap, and who has nothing in flight is both.
LEMMA SharesIs ==
    ASSUME settings \in Instances, DOMAIN ring \subseteq Tenants,
           NEW t \in Tenants, NEW view, view \subseteq Tenants
    PROVE  /\ UnderShare(t, view) => UnderCap(t)
           /\ Inflight(t) = 0 => UnderShare(t, view)
  <1>1. Cap \in Nat
    BY FairLaneAssumption, Zenon DEF Settings, Cap
  <1>2. Inflight(t) \in Nat
    BY SlotCount, Zenon DEF Inflight, LeasedTo
  <1> QED
    BY <1>1, <1>2, ShareIs DEF UnderShare, UnderCap

\* The slots in use are the first ones, so that the next is not in use.
InOrder == \E n \in 0..MaxSlots : \A s \in Slots : slotJob[s] # NoJob <=> s <= n

\* The next slot is free, and the slots handed out are those below it.
LEMMA NextSlotIs ==
    ASSUME InOrder
    PROVE  /\ NextSlot \in Slots => slotJob[NextSlot] = NoJob
           /\ \A s \in Slots : slotJob[s] # NoJob <=> s < NextSlot
           /\ NextSlot \in Nat
  <1>1. PICK n \in 0..MaxSlots : \A s \in Slots : slotJob[s] # NoJob <=> s <= n
    BY Zenon DEF InOrder
  <1>2. {s \in Slots : slotJob[s] # NoJob} = 1..n
    BY <1>1, FairLaneAssumption DEF Slots
  <1>3. Cardinality(1..n) = n
    BY FS_Interval, FairLaneAssumption
  <1>4. NextSlot = n + 1
    BY <1>2, <1>3, Zenon DEF NextSlot
  <1> QED
    BY <1>1, <1>4, FairLaneAssumption DEF Slots

-----------------------------------------------------------------------------
(* The lists: ready lists, ring and virtual times *)

QueueOf(t, q) == q \in Seq(Jobs) /\ \A i \in DOMAIN q : q[i][1] = t
In(q, j) == \E i \in DOMAIN q : q[i] = j

\* Appending a job to its tenant's list.
LEMMA PutIs ==
    ASSUME NEW t, NEW q, QueueOf(t, q), NEW j \in Jobs, j[1] = t
    PROVE  /\ QueueOf(t, Append(q, j)) /\ Append(q, j) # <<>> /\ In(Append(q, j), j)
           /\ \A x : In(q, x) => In(Append(q, j), x)
  <1>1. q \in Seq(Jobs) /\ Len(q) \in Nat /\ DOMAIN q = 1..Len(q)
    BY DEF QueueOf
  <1>2. /\ Append(q, j) \in Seq(Jobs) /\ DOMAIN Append(q, j) = 1..(Len(q) + 1)
        /\ \A i \in 1..Len(q) : Append(q, j)[i] = q[i]
        /\ Append(q, j)[Len(q) + 1] = j /\ Len(Append(q, j)) = Len(q) + 1
    BY <1>1
  <1>3. QueueOf(t, Append(q, j))
    BY <1>1, <1>2 DEF QueueOf
  <1>4. Append(q, j) # <<>>
    BY <1>1, <1>2
  <1>5. In(Append(q, j), j)
    BY <1>1, <1>2 DEF In
  <1>6. \A x : In(q, x) => In(Append(q, j), x)
    BY <1>1, <1>2 DEF In
  <1> QED
    BY <1>3, <1>4, <1>5, <1>6, Zenon

\* Popping the first job of a list.
LEMMA TakeIs ==
    ASSUME NEW t, NEW q, QueueOf(t, q), q # <<>>
    PROVE  /\ Head(q) \in Jobs /\ Head(q)[1] = t /\ QueueOf(t, Tail(q))
           /\ Len(q) # 1 => Tail(q) # <<>>
           /\ \A x : In(q, x) => x = Head(q) \/ In(Tail(q), x)
  <1>1. q \in Seq(Jobs) /\ Len(q) \in Nat \ {0} /\ DOMAIN q = 1..Len(q)
    BY DEF QueueOf
  <1>2. /\ Tail(q) \in Seq(Jobs) /\ Len(Tail(q)) = Len(q) - 1 /\ DOMAIN Tail(q) = 1..(Len(q) - 1)
        /\ \A i \in 1..(Len(q) - 1) : Tail(q)[i] = q[i + 1]
    BY <1>1
  <1>3. Head(q) = q[1] /\ Head(q) \in Jobs /\ Head(q)[1] = t
    <2>1. 1 \in DOMAIN q /\ Head(q) = q[1] /\ q[1] \in Jobs
      BY <1>1
    <2> QED
      BY <2>1, Zenon DEF QueueOf
  <1>4. QueueOf(t, Tail(q))
    BY <1>1, <1>2 DEF QueueOf
  <1>5. Len(q) # 1 => Tail(q) # <<>>
    <2>1. Len(<<>>) = 0 /\ Len(Tail(q)) = Len(q) - 1
      BY <1>2, Zenon
    <2>2. Len(q) # 1 => Len(q) - 1 # 0
      BY <1>1
    <2> QED
      BY <2>1, <2>2, Zenon
  <1>6. ASSUME NEW x, In(q, x) PROVE x = Head(q) \/ In(Tail(q), x)
    <2>1. PICK i \in 1..Len(q) : q[i] = x
      BY <1>1, <1>6, Zenon DEF In
    <2>2. CASE i = 1
      BY <1>3, <2>1, <2>2, Zenon
    <2>3. CASE i # 1
      <3>1. i - 1 \in 1..(Len(q) - 1) /\ (i - 1) + 1 = i
        BY <1>1, <2>3
      <3>2. Tail(q)[i - 1] = x
        BY <1>2, <2>1, <3>1, Zenon
      <3> QED
        BY <1>2, <3>1, <3>2, Zenon DEF In
    <2> QED
      BY <2>2, <2>3, Zenon
  <1> QED
    BY <1>3, <1>4, <1>5, <1>6, Zenon

\* A tenant of the ring has work, and in the throughput lane its score is its virtual time.
ListsInv ==
    /\ settings \in Instances
    /\ ready \in [Tenants -> Seq(Jobs)] /\ \A t \in Tenants : QueueOf(t, ready[t])
    /\ vtime \in [Tenants -> Int]
    /\ DOMAIN ring \subseteq Tenants
    /\ \A t \in DOMAIN ring : ring[t] \in Int /\ ready[t] # <<>>
    /\ lane = "throughput" => \A t \in DOMAIN ring : ring[t] = vtime[t]

\* A tenant joins at no less than its own virtual time and the least score.
LEMMA JoinScoreIs ==
    ASSUME ListsInv, NEW t \in Tenants
    PROVE  /\ JoinScore(t) \in Int /\ JoinScore(t) >= vtime[t]
           /\ DOMAIN ring # {} => JoinScore(t) >= RingMin
           /\ DOMAIN ring # {} /\ vtime[t] <= RingMin => JoinScore(t) = RingMin
  <1>1. vtime[t] \in Int
    BY Zenon DEF ListsInv
  <1>2. DOMAIN ring # {} => RingMin \in Int
    BY RingMinIs, Zenon DEF ListsInv
  <1> QED
    BY <1>1, <1>2 DEF JoinScore

\* Changing the list of one tenant.
LEMMA QueueChange ==
    ASSUME ListsInv, NEW t \in Tenants, NEW q, QueueOf(t, q), ready' = [ready EXCEPT ![t] = q]
    PROVE  /\ ready' \in [Tenants -> Seq(Jobs)] /\ \A u \in Tenants : QueueOf(u, ready'[u])
           /\ ready'[t] = q /\ \A u \in Tenants : u # t => ready'[u] = ready[u]
  BY Zenon DEF ListsInv, QueueOf

\* Enqueue keeps lists, ring and leases consistent.
LEMMA EnqueueLists ==
    ASSUME ListsInv, NEW j \in Jobs, Enqueue(j), settings' = settings
    PROVE  ListsInv'
  <1> DEFINE t == j[1]
  <1>1. t \in Tenants /\ JoinScore(t) \in Int
    BY JobFacts, JoinScoreIs, Zenon
  <1>2. /\ ready' = [ready EXCEPT ![t] = Append(@, j)]
        /\ ring' = IF InRing(t) THEN ring ELSE ZAdd(ring, t, JoinScore(t))
        /\ vtime' = IF InRing(t) THEN vtime ELSE [vtime EXCEPT ![t] = JoinScore(t)]
    BY Zenon DEF Enqueue
  <1> HIDE DEF t
  <1>3. QueueOf(t, Append(ready[t], j)) /\ Append(ready[t], j) # <<>>
    BY <1>1, PutIs DEF ListsInv, t
  <1>4. /\ ready' \in [Tenants -> Seq(Jobs)] /\ \A u \in Tenants : QueueOf(u, ready'[u])
        /\ \A u \in Tenants : ready[u] # <<>> \/ u = t => ready'[u] # <<>>
    BY <1>1, <1>2, <1>3, Zenon DEF ListsInv, QueueOf
  <1>5. CASE InRing(t)
    BY <1>1, <1>2, <1>4, <1>5, Zenon DEF ListsInv, InRing, lane
  <1>6. CASE ~InRing(t)
    <2>1. DOMAIN ring' = DOMAIN ring \cup {t} /\ ring'[t] = JoinScore(t)
          /\ \A u \in DOMAIN ring : ring'[u] = ring[u]
      BY <1>2, <1>6, Zenon DEF InRing, ZAdd
    <2>2. vtime' \in [Tenants -> Int] /\ vtime'[t] = JoinScore(t)
          /\ \A u \in DOMAIN ring : vtime'[u] = vtime[u]
      BY <1>1, <1>2, <1>6, Zenon DEF InRing, ListsInv
    <2> QED
      BY <1>1, <1>4, <2>1, <2>2, Zenon DEF ListsInv, lane
  <1> QED
    BY <1>5, <1>6, Zenon

\* So does the completion of a slot.
LEMMA CompleteLists ==
    ASSUME ListsInv, NEW s, NEW inc \in Nat, Tenant(s) \in Tenants,
           CompleteScript(s, inc), settings' = settings
    PROVE  ListsInv'
  <1> DEFINE t == Tenant(s)
             known == lane = "time" /\ tenantLeases[s] # "none"
             charge == vtime[t] + inc \div Weight[t]
  <1>1. t \in Tenants /\ charge \in Int
    <2>1. Weight[t] \in Nat \ {0} /\ vtime[t] \in Int /\ t \in Tenants
      BY FairLaneAssumption, Zenon DEF ListsInv
    <2>2. inc \div Weight[t] \in Nat
      BY <2>1, Quotient, Zenon
    <2> QED
      BY <2>1, <2>2
  <1>2. /\ ready' = ready
        /\ vtime' = IF known THEN [vtime EXCEPT ![t] = charge] ELSE vtime
        /\ ring' = IF known /\ ready[t] # <<>> THEN ZAdd(ring, t, charge) ELSE ring
    BY Zenon DEF CompleteScript
  <1> HIDE DEF t, charge
  <1>3. vtime' \in [Tenants -> Int]
    BY <1>1, <1>2, Zenon DEF ListsInv
  <1>4. CASE known
    <2>1. DOMAIN ring' \subseteq DOMAIN ring \cup {t} /\ (t \in DOMAIN ring' => ready[t] # <<>>)
          /\ \A u \in DOMAIN ring' : ring'[u] \in Int
      BY <1>1, <1>2, <1>4, Zenon DEF ListsInv, ZAdd
    <2> QED
      BY <1>1, <1>2, <1>3, <1>4, <2>1, Zenon DEF ListsInv, lane
  <1>5. CASE ~known
    BY <1>2, <1>5, Zenon DEF ListsInv, lane
  <1> QED
    BY <1>4, <1>5, Zenon

\* So does an abort, which puts the job back in its list.
LEMMA AbortLists ==
    ASSUME ListsInv, NEW s, slotJob[s] \in Jobs, AbortScript(s), settings' = settings
    PROVE  ListsInv'
  <1> DEFINE t == Tenant(s)
             back == vtime[t] - Step(t)
  <1>1. t \in Tenants /\ back \in Int
    <2>1. t \in Tenants
      BY JobFacts, Zenon DEF Tenant
    <2>2. Weight[t] \in Nat \ {0} /\ Unit \in Nat /\ vtime[t] \in Int
      BY <2>1, FairLaneAssumption, Zenon DEF ListsInv
    <2>3. Step(t) \in Nat
      BY <2>2, Quotient, Zenon DEF Step
    <2> QED
      BY <2>1, <2>2, <2>3
  <1>2. CASE s \notin forwarding
    BY <1>2, Zenon DEF AbortScript, lists, ListsInv, lane
  <1>3. CASE s \in forwarding
    <2>1. /\ ready' = [ready EXCEPT ![t] = Append(@, slotJob[s])]
          /\ vtime' = IF lane = "throughput" THEN [vtime EXCEPT ![t] = back] ELSE vtime
          /\ ring' = IF lane = "throughput" THEN ZAdd(ring, t, back) ELSE ring
      BY <1>3, Zenon DEF AbortScript
    <2>2. QueueOf(t, Append(ready[t], slotJob[s])) /\ Append(ready[t], slotJob[s]) # <<>>
      <3>1. QueueOf(t, ready[t]) /\ slotJob[s] \in Jobs /\ slotJob[s][1] = t
        BY <1>1, Zenon DEF ListsInv, Tenant
      <3> QED
        BY <3>1, PutIs, Zenon
    <2> HIDE DEF t, back
    <2>3. /\ ready' \in [Tenants -> Seq(Jobs)] /\ \A u \in Tenants : QueueOf(u, ready'[u])
          /\ \A u \in Tenants : ready[u] # <<>> \/ u = t => ready'[u] # <<>>
      <3>1. PICK q : q = Append(ready[t], slotJob[s])
        BY Zenon
      <3>2. ready' = [ready EXCEPT ![t] = q] /\ QueueOf(t, q) /\ q # <<>>
        BY <2>1, <2>2, <3>1, Zenon
      <3> QED
        BY <1>1, <3>2, QueueChange, Zenon
    <2>4. CASE lane = "throughput"
      <3>1. DOMAIN ring' = DOMAIN ring \cup {t} /\ ring'[t] = back
            /\ \A u \in DOMAIN ring : u # t => ring'[u] = ring[u]
        BY <2>1, <2>4, Zenon DEF ZAdd
      <3>2. vtime' \in [Tenants -> Int] /\ vtime'[t] = back
            /\ \A u \in Tenants : u # t => vtime'[u] = vtime[u]
        BY <1>1, <2>1, <2>4, Zenon DEF ListsInv
      <3> QED
        BY <1>1, <2>3, <2>4, <3>1, <3>2, Zenon DEF ListsInv, lane
    <2>5. CASE lane # "throughput"
      BY <2>1, <2>3, <2>5, Zenon DEF ListsInv, lane
    <2> QED
      BY <2>4, <2>5, Zenon
  <1> QED
    BY <1>2, <1>3, Zenon

\* Serving a tenant of the ring.
LEMMA ServeLists ==
    ASSUME ListsInv, NEW t \in DOMAIN ring, settings' = settings,
           ready' = [ready EXCEPT ![t] = Tail(@)], vtime' = Charged(t),
           ring' = IF Len(ready[t]) = 1 THEN ZRem(ring, t)
                   ELSE IF lane = "throughput" THEN ZAdd(ring, t, Charged(t)[t]) ELSE ring
    PROVE  /\ ListsInv'
           /\ Head(ready[t]) \in Jobs /\ Head(ready[t])[1] = t
           /\ lane = "throughput" =>
                /\ vtime'[t] > vtime[t] /\ DOMAIN ring' \subseteq DOMAIN ring
                /\ \A u \in Tenants : u # t => vtime'[u] = vtime[u] /\ (InRing(u) => InRing(u)')
  <1>1. /\ t \in Tenants /\ QueueOf(t, ready[t]) /\ ready[t] # <<>>
        /\ ring[t] \in Int /\ vtime[t] \in Int
    BY Zenon DEF ListsInv
  <1>2. /\ Head(ready[t]) \in Jobs /\ Head(ready[t])[1] = t /\ QueueOf(t, Tail(ready[t]))
        /\ Len(ready[t]) # 1 => Tail(ready[t]) # <<>>
    BY <1>1, TakeIs, Zenon
  <1>3. /\ ready' \in [Tenants -> Seq(Jobs)] /\ \A u \in Tenants : QueueOf(u, ready'[u])
        /\ \A u \in Tenants : u # t => ready'[u] = ready[u]
        /\ Len(ready[t]) # 1 => ready'[t] # <<>>
    <2>1. PICK q : q = Tail(ready[t])
      BY Zenon
    <2>2. ready' = [ready EXCEPT ![t] = q] /\ QueueOf(t, q)
      BY <1>2, <2>1, Zenon
    <2> QED
      BY <1>1, <1>2, <2>1, <2>2, QueueChange, Zenon
  <1>4. Step(t) \in Nat \ {0}
    <2>1. Weight[t] \in Nat \ {0} /\ Unit \in Nat \ {0} /\ Unit % Weight[t] = 0
      BY <1>1, FairLaneAssumption, Zenon
    <2> QED
      BY <2>1 DEF Step
  <1> DEFINE score == ring[t] + Step(t)
  <1>5. score \in Int /\ score > ring[t]
    BY <1>1, <1>4
  <1>6. CASE lane = "throughput"
    <2>1. vtime' \in [Tenants -> Int] /\ vtime'[t] = score
          /\ \A u \in Tenants : u # t => vtime'[u] = vtime[u]
      BY <1>1, <1>5, <1>6, Zenon DEF ListsInv, Charged
    <2>2. Charged(t)[t] = score
      BY <2>1, Zenon
    <2> HIDE DEF score
    <2>3. /\ DOMAIN ring' \subseteq DOMAIN ring /\ \A u \in DOMAIN ring : u # t => u \in DOMAIN ring'
          /\ \A u \in DOMAIN ring' : u # t => ring'[u] = ring[u]
          /\ t \in DOMAIN ring' => ring'[t] = score /\ Len(ready[t]) # 1
      BY <1>6, <2>2, Zenon DEF ZRem, ZAdd
    <2>4. vtime[t] = ring[t]
      BY <1>6, Zenon DEF ListsInv
    <2>5. ListsInv'
      BY <1>3, <1>5, <2>1, <2>3 DEF ListsInv, lane
    <2> QED
      BY <1>2, <1>5, <2>1, <2>3, <2>4, <2>5, Zenon DEF InRing
  <1>7. CASE lane # "throughput"
    <2>1. vtime' = vtime
      BY <1>7, Zenon DEF Charged
    <2>2. /\ DOMAIN ring' \subseteq DOMAIN ring /\ \A u \in DOMAIN ring' : ring'[u] = ring[u]
          /\ t \in DOMAIN ring' => Len(ready[t]) # 1
      BY <1>7, Zenon DEF ZRem
    <2>3. ListsInv'
      BY <1>3, <1>7, <2>1, <2>2, Zenon DEF ListsInv, lane
    <2> QED
      BY <1>2, <1>7, <2>3, Zenon
  <1> QED
    BY <1>6, <1>7, Zenon

-----------------------------------------------------------------------------
(* The slots *)

\* A slot that no checkout has used has no trace, and a forwarder or worker at work
\* has a slot in use.
SlotsInv ==
    /\ leases \in [Slots -> LeaseStates] /\ tenantLeases \in [Slots -> LeaseStates]
    /\ slotJob \in [Slots -> Jobs \cup {NoJob}] /\ InOrder
    /\ forwarding \subseteq Slots /\ topic \in [Slots -> Nat]
    /\ work \in [Slots -> {"none", "running", "done"}]
    /\ fwd \in [Forwarders -> [at : {"idle", "checkedOut", "complete", "confirm", "abort",
                                     "listed", "reclaim", "reconfirm", "rearm"},
                               slot : Slots \cup {0}]]
    /\ \A f \in Forwarders : fwd[f].at # "idle" =>
           fwd[f].slot \in Slots /\ slotJob[fwd[f].slot] # NoJob
    /\ \A s \in Slots : work[s] # "none" => topic[s] > 0
    /\ \A s \in Slots : slotJob[s] = NoJob =>
           leases[s] = "none" /\ tenantLeases[s] = "none" /\ topic[s] = 0 /\ s \notin forwarding

\* A checkout by f of the first job of tenant t as slot s.
Serves(f, view, t, s) ==
    /\ At(f, "idle") /\ ~BudgetFull
    /\ t \in Candidates(view) /\ \A u \in Candidates(view) : Before(t, u)
    /\ s = NextSlot /\ slotJob[s] = NoJob
    /\ ready' = [ready EXCEPT ![t] = Tail(@)]
    /\ vtime' = Charged(t)
    /\ ring' = IF Len(ready[t]) = 1 THEN ZRem(ring, t)
               ELSE IF lane = "throughput" THEN ZAdd(ring, t, Charged(t)[t]) ELSE ring
    /\ leases' = [Purged(leases, Slots) EXCEPT ![s] = "live"]
    /\ tenantLeases' = [PurgedTenants(Visited(t, view)) EXCEPT ![s] = "live"]
    /\ slotJob' = [slotJob EXCEPT ![s] = Head(ready[t])]
    /\ forwarding' = forwarding \cup {s}
    /\ Goto(f, "checkedOut", s)
    /\ waited' = [u \in Tenants |-> IF u = t \/ waited[u] = -1 \/ ~InRing(u) THEN -1
                                    ELSE waited[u] + 1]
    /\ UNCHANGED <<settings, ingest, claimed, topic, work, dropped, rearmed, reclaims, overtaken,
                   faults>>

\* A checkout that finds a tenant serves one tenant with one slot.
LEMMA CheckoutServes ==
    ASSUME ListsInv, SlotsInv, NEW f, NEW view, Checkout(f, view)
    PROVE  \E t \in DOMAIN ring, s \in Slots : Serves(f, view, t, s)
  <1> DEFINE t == FirstOf(Candidates(view))
             s == NextSlot
  <1>1. Candidates(view) \subseteq DOMAIN ring /\ Candidates(view) # {}
    BY Zenon DEF Candidates, Checkout
  <1>2. t \in Candidates(view) /\ \A u \in Candidates(view) : Before(t, u)
    BY <1>1, FirstExists, Zenon DEF ListsInv
  <1>3. s \in Slots /\ slotJob[s] = NoJob
    BY NextSlotIs, Zenon DEF SlotsInv, Checkout
  <1>4. Serves(f, view, t, s)
    BY <1>2, <1>3, Zenon DEF Checkout, Serves
  <1> QED
    BY <1>1, <1>2, <1>3, <1>4, Zenon

\* A step that uses no new slot and creates no lease, unless it is that of a slot in use
\* which a reclaim arms again.
Rearmed(s) == s \in rearmed' /\ slotJob[s] # NoJob /\ waited'[Tenant(s)] = -1

Calm ==
    /\ leases' \in [Slots -> LeaseStates] /\ tenantLeases' \in [Slots -> LeaseStates]
    /\ UNCHANGED <<settings, slotJob>> /\ forwarding' \subseteq forwarding /\ rearmed \subseteq rearmed'
    /\ \A s \in Slots : leases[s] = "none" => leases'[s] = "none" \/ Rearmed(s)
    /\ \A s \in Slots : tenantLeases[s] = "none" => tenantLeases'[s] = "none" \/ Rearmed(s)

\* A step that hands out no slot keeps what is known of slots.
LEMMA CalmKeeps ==
    ASSUME SlotsInv, Calm, topic' = topic, work' = work, fwd' = fwd
    PROVE  SlotsInv'
  BY Zenon DEF SlotsInv, Calm, InOrder, Rearmed

\* A forwarder moves on with its slot, or rests.
LEMMA GotoKeeps ==
    ASSUME SlotsInv, Calm, NEW f \in Forwarders, NEW pc, NEW s, Goto(f, pc, s), work' = work,
           pc \in {"idle", "checkedOut", "complete", "confirm", "abort",
                   "listed", "reclaim", "reconfirm", "rearm"},
           (pc = "idle" /\ s = 0) \/ (s \in Slots /\ slotJob[s] # NoJob),
           \/ topic' = topic
           \/ s \in Slots /\ slotJob[s] # NoJob /\ topic' = [topic EXCEPT ![s] = @ + 1]
    PROVE  SlotsInv'
  <1>1. fwd' \in [Forwarders -> [at : {"idle", "checkedOut", "complete", "confirm", "abort",
                                     "listed", "reclaim", "reconfirm", "rearm"},
                               slot : Slots \cup {0}]]
    BY Zenon DEF SlotsInv, Goto
  <1>2. ASSUME NEW g \in Forwarders, fwd'[g].at # "idle"
        PROVE  fwd'[g].slot \in Slots /\ slotJob'[fwd'[g].slot] # NoJob
    BY <1>2, Zenon DEF SlotsInv, Goto, Calm
  <1>3. topic' \in [Slots -> Nat] /\ \A q \in Slots : topic[q] > 0 => topic'[q] > 0
    BY DEF SlotsInv
  <1>4. \A q \in Slots : slotJob[q] = NoJob => topic'[q] = 0
    BY Zenon DEF SlotsInv
  <1>5. InOrder'
    BY Zenon DEF SlotsInv, Calm, InOrder
  <1>6. \A q \in Slots : work'[q] # "none" => topic'[q] > 0
    BY <1>3, Zenon DEF SlotsInv
  <1>7. \A q \in Slots : slotJob'[q] = NoJob =>
           leases'[q] = "none" /\ tenantLeases'[q] = "none" /\ topic'[q] = 0 /\ q \notin forwarding'
    BY <1>4, Zenon DEF SlotsInv, Calm, Rearmed
  <1> QED
    BY <1>1, <1>2, <1>3, <1>5, <1>6, <1>7, Zenon DEF SlotsInv, Calm

\* A checkout keeps lists and slots consistent.
LEMMA ServeKeeps ==
    ASSUME ListsInv, SlotsInv, NEW f \in Forwarders, NEW view, NEW t \in DOMAIN ring, NEW s \in Slots,
           Serves(f, view, t, s)
    PROVE  ListsInv' /\ SlotsInv'
  <1>1. ListsInv' /\ Head(ready[t]) \in Jobs
    BY ServeLists, Zenon DEF Serves
  <1>2. Head(ready[t]) # NoJob
    BY <1>1, JobFacts, Zenon
  <1>3. /\ slotJob' \in [Slots -> Jobs \cup {NoJob}] /\ slotJob'[s] # NoJob
        /\ \A q \in Slots : q # s => slotJob'[q] = slotJob[q]
    BY <1>1, <1>2, Zenon DEF Serves, SlotsInv
  <1>4. InOrder'
    <2>1. s \in Nat /\ s \in 0..MaxSlots /\ \A q \in Slots : slotJob[q] # NoJob <=> q < s
      BY NextSlotIs, FairLaneAssumption DEF SlotsInv, Serves, Slots
    <2>2. \A q \in Slots : slotJob'[q] # NoJob <=> q <= s
      BY <1>3, <2>1 DEF Slots
    <2> QED
      BY <2>1, <2>2, Zenon DEF InOrder
  <1>5. /\ leases' \in [Slots -> LeaseStates] /\ tenantLeases' \in [Slots -> LeaseStates]
        /\ \A q \in Slots : q # s =>
              /\ leases[q] = "none" => leases'[q] = "none"
              /\ tenantLeases[q] = "none" => tenantLeases'[q] = "none"
    BY Zenon DEF Serves, SlotsInv, Purged, PurgedTenants, LeaseStates
  <1>6. fwd' \in [Forwarders -> [at : {"idle", "checkedOut", "complete", "confirm", "abort",
                                     "listed", "reclaim", "reconfirm", "rearm"},
                               slot : Slots \cup {0}]]
    BY Zenon DEF SlotsInv, Goto, Serves
  <1>7. ASSUME NEW g \in Forwarders, fwd'[g].at # "idle"
        PROVE  fwd'[g].slot \in Slots /\ slotJob'[fwd'[g].slot] # NoJob
    BY <1>3, <1>7, ZenonT(30) DEF SlotsInv, Goto, Serves
  <1>8. forwarding' = forwarding \cup {s} /\ topic' = topic /\ work' = work
    BY Zenon DEF Serves
  <1> QED
    BY <1>1, <1>3, <1>4, <1>5, <1>6, <1>7, <1>8, ZenonT(30) DEF SlotsInv

BaseInv == ListsInv /\ SlotsInv

\* What was checked out is a job of a tenant.
LEMMA SlotFacts ==
    ASSUME BaseInv, NEW s \in Slots, slotJob[s] # NoJob
    PROVE  slotJob[s] \in Jobs /\ Tenant(s) \in Tenants
  BY JobFacts DEF BaseInv, SlotsInv, Tenant

\* The slot in the hand of a forwarder carries a job.
LEMMA HandFacts ==
    ASSUME BaseInv, NEW f \in Forwarders, fwd[f].at # "idle"
    PROVE  fwd[f].slot \in Slots /\ slotJob[fwd[f].slot] # NoJob
  BY Zenon DEF BaseInv, SlotsInv

\* So does a slot in the ready topic.
LEMMA WorkFacts ==
    ASSUME BaseInv, NEW s \in Slots, topic[s] > 0
    PROVE  slotJob[s] # NoJob
  BY DEF BaseInv, SlotsInv

\* Steps that leave the slots, or the lists, alone.
LEMMA SameSlots ==
    ASSUME BaseInv, UNCHANGED <<settings, slots, rearmed>>
    PROVE  Calm
  BY Zenon DEF BaseInv, SlotsInv, Calm, slots

\* A step that leaves the lists alone keeps them consistent.
LEMMA SameLists ==
    ASSUME BaseInv, UNCHANGED <<settings, lists>>
    PROVE  ListsInv'
  BY Zenon DEF BaseInv, ListsInv, lists, lane

\* The scripts on leases.
LEMMA CompleteCalm ==
    ASSUME BaseInv, NEW s \in Slots, NEW inc, CompleteScript(s, inc), UNCHANGED <<settings, rearmed>>
    PROVE  Calm
  BY Zenon DEF BaseInv, SlotsInv, CompleteScript, Gone, LeaseStates, Calm

\* An abort hands out no slot.
LEMMA AbortCalm ==
    ASSUME BaseInv, NEW s \in Slots, AbortScript(s), UNCHANGED <<settings, rearmed>>
    PROVE  Calm
  <1>1. CASE s \notin forwarding
    BY <1>1, SameSlots, Zenon DEF AbortScript
  <1>2. CASE s \in forwarding
    BY <1>2, Zenon DEF BaseInv, SlotsInv, AbortScript, Gone, LeaseStates, Calm
  <1> QED
    BY <1>1, <1>2, Zenon

\* A step on leases only: purges, renewals and expiries.
LeaseStep ==
    /\ Calm
    /\ UNCHANGED <<ingest, lists, forwarding, others, dropped, past>>

\* Renewals, expiries and sweeps of leases touch nothing but leases.
LEMMA LeaseSteps ==
    ASSUME BaseInv,
           \/ \E f \in Forwarders, view \in SUBSET Tenants : CheckoutIdle(f, view)
           \/ ReclaimExpiredLeases
           \/ \E s \in Slots : Renew(s) \/ Expire(s)
    PROVE  LeaseStep
  <1>0. leases \in [Slots -> LeaseStates] /\ tenantLeases \in [Slots -> LeaseStates]
    BY Zenon DEF BaseInv, SlotsInv
  <1>1. ASSUME NEW z \in [Slots -> LeaseStates], NEW A
        PROVE  /\ Purged(z, A) \in [Slots -> LeaseStates]
               /\ \A s \in Slots : z[s] = "none" => Purged(z, A)[s] = "none"
    BY Zenon DEF Purged, LeaseStates
  <1>2. ASSUME NEW f \in Forwarders, NEW view, CheckoutIdle(f, view) PROVE LeaseStep
    BY <1>0, <1>1, <1>2 DEF CheckoutIdle, PurgedTenants, LeaseStep, Calm, past
  <1>3. CASE ReclaimExpiredLeases
    BY <1>0, <1>1, <1>3 DEF ReclaimExpiredLeases, LeaseStep, Calm, past
  <1>4. ASSUME NEW s \in Slots, Renew(s) PROVE LeaseStep
    BY <1>0, <1>4, Zenon DEF Renew, Revived, LeaseStep, Calm, past, LeaseStates
  <1>5. ASSUME NEW s \in Slots, Expire(s) PROVE LeaseStep
    BY <1>0, <1>5, Zenon DEF Expire, LeaseStep, Calm, past, LeaseStates
  <1> QED
    BY <1>2, <1>3, <1>4, <1>5, Zenon

\* Such steps keep the base invariant.
LEMMA LeaseStepKeeps ==
    ASSUME BaseInv, LeaseStep
    PROVE  BaseInv'
  <1>1. ListsInv'
    BY SameLists, Zenon DEF LeaseStep, Calm
  <1>2. SlotsInv'
    BY CalmKeeps, Zenon DEF LeaseStep, others, BaseInv
  <1> QED
    BY <1>1, <1>2, Zenon DEF BaseInv

-----------------------------------------------------------------------------
(* Every step keeps the lists and the slots *)

Served ==
    \E f \in Forwarders, view \in SUBSET Tenants, t \in DOMAIN ring, s \in Slots : Serves(f, view, t, s)

\* A forwarder that moves on with its slot, or rests.
LEMMA MoveKeeps ==
    ASSUME BaseInv, NEW f \in Forwarders, NEW pc, fwd[f].at # "idle", work' = work,
           Goto(f, pc, fwd[f].slot),
           pc \in {"idle", "checkedOut", "complete", "confirm", "abort",
                   "listed", "reclaim", "reconfirm", "rearm"},
           topic' = topic \/ topic' = [topic EXCEPT ![fwd[f].slot] = @ + 1],
           Calm, ListsInv'
    PROVE  BaseInv' /\ Calm
  <1>1. PICK s : s = fwd[f].slot
    BY Zenon
  <1>2. s \in Slots /\ slotJob[s] # NoJob
    BY <1>1, HandFacts, Zenon
  <1>3. Goto(f, pc, s) /\ (topic' = topic \/ topic' = [topic EXCEPT ![s] = @ + 1])
    BY <1>1, Zenon
  <1>4. SlotsInv'
    BY <1>2, <1>3, GotoKeeps, Zenon DEF BaseInv
  <1> QED
    BY <1>4, Zenon DEF BaseInv

\* A forwarder that puts its slot down keeps the base invariant.
LEMMA RestKeeps ==
    ASSUME BaseInv, NEW f \in Forwarders, Goto(f, "idle", 0), work' = work, topic' = topic,
           Calm, ListsInv'
    PROVE  BaseInv' /\ Calm
  <1>1. SlotsInv'
    <2>1. PICK pc, s : pc = "idle" /\ s = 0
      BY Zenon
    <2>2. Goto(f, pc, s) /\ pc \in {"idle", "checkedOut", "complete", "confirm", "abort",
                                     "listed", "reclaim", "reconfirm", "rearm"}
      BY <2>1, Zenon
    <2>3. SlotsInv
      BY Zenon DEF BaseInv
    <2> QED
      BY <2>1, <2>2, <2>3, GotoKeeps, Zenon
  <1> QED
    BY <1>1, Zenon DEF BaseInv

\* The steps of the dispatcher keep the base invariant and are calm.
LEMMA DispatchStep ==
    ASSUME BaseInv, NEW j \in Jobs,
           Dispatch(j, TRUE) \/ Dispatch(j, FALSE) \/ DispatchExpired(j)
    PROVE  BaseInv' /\ Calm
  <1>1. Calm
    BY SameSlots, Zenon DEF Dispatch, DispatchExpired, past
  <1>2. SlotsInv'
    BY <1>1, CalmKeeps, Zenon DEF Dispatch, DispatchExpired, others, BaseInv
  <1>3. CASE DispatchExpired(j)
    BY <1>1, <1>2, <1>3, SameLists, Zenon DEF DispatchExpired, BaseInv
  <1>4. CASE Dispatch(j, TRUE) \/ Dispatch(j, FALSE)
    <2>1. Enqueue(j) /\ settings' = settings
      BY <1>4, Zenon DEF Dispatch
    <2> QED
      BY <1>1, <1>2, <2>1, EnqueueLists, Zenon DEF BaseInv
  <1> QED
    BY <1>3, <1>4, Zenon

\* A step of a forwarder keeps the base invariant and is calm, or serves one tenant.
LEMMA ForwarderSteps ==
    ASSUME BaseInv, waited \in [Tenants -> Nat \cup {-1}], NEW f \in Forwarders,
           ForwarderStep(f) \/ ForwarderFault(f)
    PROVE  BaseInv' /\ (Calm \/ Served)
  <1>1. ASSUME NEW view \in SUBSET Tenants, Checkout(f, view) PROVE BaseInv' /\ Served
    <2>1. PICK t \in DOMAIN ring, s \in Slots : Serves(f, view, t, s)
      BY <1>1, CheckoutServes, Zenon DEF BaseInv
    <2>2. BaseInv'
      BY <2>1, ServeKeeps, Zenon DEF BaseInv
    <2> QED
      BY <2>1, <2>2, Zenon DEF Served
  <1>2. CASE Forward(f)
    <2>1. ListsInv' /\ Calm
      BY <1>2, SameLists, SameSlots, Zenon DEF Forward, past
    <2>2. work' = work /\ fwd[f].at # "idle" /\ Goto(f, "confirm", fwd[f].slot)
          /\ topic' = [topic EXCEPT ![fwd[f].slot] = @ + 1]
      BY <1>2, Zenon DEF Forward, At
    <2> QED
      BY <2>1, <2>2, MoveKeeps, Zenon
  <1>3. CASE ForwardFails(f)
    <2>1. ListsInv' /\ Calm
      BY <1>3, SameLists, SameSlots, Zenon DEF ForwardFails, past
    <2>2. work' = work /\ fwd[f].at # "idle" /\ Goto(f, "abort", fwd[f].slot)
          /\ topic' = topic
      BY <1>3, Zenon DEF ForwardFails, At
    <2> QED
      BY <2>1, <2>2, MoveKeeps, Zenon
  <1>4. CASE Expired(f)
    <2>1. ListsInv' /\ Calm
      BY <1>4, SameLists, SameSlots, Zenon DEF Expired, past
    <2>2. work' = work /\ fwd[f].at # "idle" /\ Goto(f, "complete", fwd[f].slot)
          /\ topic' = topic
      BY <1>4, Zenon DEF Expired, At
    <2> QED
      BY <2>1, <2>2, MoveKeeps, Zenon
  <1>5. CASE ExpiredFails(f)
    <2>1. ListsInv' /\ Calm
      BY <1>5, SameLists, SameSlots, Zenon DEF ExpiredFails, past
    <2>2. work' = work /\ topic' = topic /\ Goto(f, "idle", 0)
      BY <1>5, Zenon DEF ExpiredFails
    <2> QED
      BY <2>1, <2>2, RestKeeps, Zenon
  <1>6. CASE ReclaimClaim(f) /\ fwd[f].slot \in claimed
    <2>1. ListsInv' /\ Calm
      BY <1>6, SameLists, SameSlots, Zenon DEF ReclaimClaim, past
    <2>2. work' = work /\ topic' = topic /\ Goto(f, "idle", 0)
      BY <1>6, Zenon DEF ReclaimClaim
    <2> QED
      BY <2>1, <2>2, RestKeeps, Zenon
  <1>7. CASE ReclaimClaim(f) /\ fwd[f].slot \notin claimed
    <2>1. ListsInv' /\ Calm
      BY <1>7, SameLists, SameSlots, Zenon DEF ReclaimClaim, past
    <2>2. work' = work /\ fwd[f].at # "idle" /\ Goto(f, "reclaim", fwd[f].slot)
          /\ topic' = topic
      BY <1>7, Zenon DEF ReclaimClaim, At
    <2> QED
      BY <2>1, <2>2, MoveKeeps, Zenon
  <1>8. CASE ReclaimProduce(f)
    <2>1. ListsInv' /\ Calm
      BY <1>8, SameLists, SameSlots, Zenon DEF ReclaimProduce, past
    <2>2. work' = work /\ fwd[f].at # "idle" /\ Goto(f, "reconfirm", fwd[f].slot)
          /\ topic' = [topic EXCEPT ![fwd[f].slot] = @ + 1]
      BY <1>8, Zenon DEF ReclaimProduce, At
    <2> QED
      BY <2>1, <2>2, MoveKeeps, Zenon
  <1>9. CASE ReclaimProduceFails(f)
    <2>1. ListsInv' /\ Calm
      BY <1>9, SameLists, SameSlots, Zenon DEF ReclaimProduceFails, past
    <2>2. work' = work /\ fwd[f].at # "idle" /\ Goto(f, "abort", fwd[f].slot)
          /\ topic' = topic
      BY <1>9, Zenon DEF ReclaimProduceFails, At
    <2> QED
      BY <2>1, <2>2, MoveKeeps, Zenon
  <1>10. CASE Crash(f)
    <2>1. ListsInv' /\ Calm
      BY <1>10, SameLists, SameSlots, Zenon DEF Crash, past
    <2>2. work' = work /\ topic' = topic /\ Goto(f, "idle", 0)
      BY <1>10, Zenon DEF Crash
    <2> QED
      BY <2>1, <2>2, RestKeeps, Zenon
  <1>11. CASE ExpiredComplete(f, TRUE)
    <2>1. fwd[f].at # "idle" /\ fwd[f].slot \in Slots /\ Tenant(fwd[f].slot) \in Tenants
      BY <1>11, HandFacts, SlotFacts, Zenon DEF ExpiredComplete, At
    <2>2. CompleteScript(fwd[f].slot, 0) /\ UNCHANGED <<settings, rearmed>> /\ work' = work
      BY <1>11, Zenon DEF ExpiredComplete, past
    <2>3. ListsInv' /\ Calm
      BY <2>1, <2>2, CompleteLists, CompleteCalm, Zenon DEF BaseInv
    <2>4. topic' = topic /\ Goto(f, "confirm", fwd[f].slot)
      BY <1>11, Zenon DEF ExpiredComplete
    <2> QED
      BY <2>1, <2>2, <2>3, <2>4, MoveKeeps, Zenon
  <1>12. CASE ExpiredComplete(f, FALSE)
    <2>1. ListsInv' /\ Calm
      BY <1>12, SameLists, SameSlots, Zenon DEF ExpiredComplete, past
    <2>2. work' = work /\ fwd[f].at # "idle" /\ Goto(f, "confirm", fwd[f].slot)
          /\ topic' = topic
      BY <1>12, Zenon DEF ExpiredComplete, At
    <2> QED
      BY <2>1, <2>2, MoveKeeps, Zenon
  <1>13. CASE Confirm(f, TRUE) \/ Confirm(f, FALSE)
    <2>1. ListsInv' /\ work' = work /\ topic' = topic /\ Goto(f, "idle", 0)
      BY <1>13, SameLists, Zenon DEF Confirm
    <2>2. Calm
      BY <1>13, Zenon DEF Confirm, past, Calm, BaseInv, SlotsInv
    <2> QED
      BY <2>1, <2>2, RestKeeps, Zenon
  <1>14. CASE Abort(f, TRUE)
    <2>1. fwd[f].at # "idle" /\ fwd[f].slot \in Slots /\ slotJob[fwd[f].slot] \in Jobs
      BY <1>14, HandFacts, SlotFacts, Zenon DEF Abort, At
    <2>2. AbortScript(fwd[f].slot) /\ UNCHANGED <<settings, rearmed>> /\ work' = work
      BY <1>14, Zenon DEF Abort
    <2>3. ListsInv' /\ Calm
      BY <2>1, <2>2, AbortLists, AbortCalm, Zenon DEF BaseInv
    <2>4. topic' = topic /\ Goto(f, "idle", 0)
      BY <1>14, Zenon DEF Abort
    <2> QED
      BY <2>2, <2>3, <2>4, RestKeeps, Zenon
  <1>15. CASE Abort(f, FALSE)
    <2>1. ListsInv' /\ Calm
      BY <1>15, SameLists, SameSlots, Zenon DEF Abort, past
    <2>2. work' = work /\ topic' = topic /\ Goto(f, "idle", 0)
      BY <1>15, Zenon DEF Abort
    <2> QED
      BY <2>1, <2>2, RestKeeps, Zenon
  <1>16. ASSUME NEW s \in Slots, ListStale(f, s) PROVE BaseInv' /\ Calm
    <2>1. ListsInv' /\ Calm /\ work' = work /\ topic' = topic /\ Goto(f, "listed", s)
      BY <1>16, SameLists, SameSlots, Zenon DEF ListStale, past
    <2>2. slotJob[s] # NoJob
      BY <1>16, Zenon DEF ListStale, Stale, BaseInv, SlotsInv
    <2>3. SlotsInv'
      BY <2>1, <2>2, GotoKeeps, Zenon DEF BaseInv
    <2> QED
      BY <2>1, <2>3, Zenon DEF BaseInv
  <1>17. CASE ReclaimConfirm(f, TRUE)
    <2>1. ListsInv' /\ work' = work /\ fwd[f].at # "idle" /\ topic' = topic /\ Goto(f, "rearm", fwd[f].slot)
      BY <1>17, SameLists, Zenon DEF ReclaimConfirm, At
    <2>2. Calm
      BY <1>17, Zenon DEF ReclaimConfirm, Calm, BaseInv, SlotsInv
    <2> QED
      BY <2>1, <2>2, MoveKeeps, Zenon
  <1>18. CASE ReclaimConfirm(f, FALSE)
    <2>1. ListsInv' /\ work' = work /\ fwd[f].at # "idle" /\ topic' = topic /\ Goto(f, "idle", 0)
      BY <1>18, SameLists, Zenon DEF ReclaimConfirm, At
    <2>2. Calm
      BY <1>18, Zenon DEF ReclaimConfirm, Calm, BaseInv, SlotsInv
    <2> QED
      BY <2>1, <2>2, RestKeeps, Zenon
  <1>19. CASE Rearm(f)
    <2>1. ListsInv' /\ work' = work /\ fwd[f].at # "idle" /\ topic' = topic /\ Goto(f, "idle", 0)
      BY <1>19, SameLists, Zenon DEF Rearm, At
    <2>2. fwd[f].slot \in Slots /\ slotJob[fwd[f].slot] # NoJob /\ Tenant(fwd[f].slot) \in Tenants
      BY <2>1, HandFacts, SlotFacts, Zenon
    <2>3. Calm
      BY <1>19, <2>2, Zenon DEF Rearm, Calm, BaseInv, SlotsInv, Rearmed, LeaseStates
    <2> QED
      BY <2>1, <2>3, RestKeeps, Zenon
  <1> QED
    BY <1>1, <1>2, <1>3, <1>4, <1>5, <1>6, <1>7, <1>8, <1>9, <1>10, <1>11, <1>12, <1>13, <1>14, <1>15, <1>16, <1>17, <1>18, <1>19, Zenon DEF ForwarderStep, ForwarderFault

\* The reset of virtual times in a quiet lane is calm.
LEMMA ResetStep ==
    ASSUME BaseInv, ResetVtimeIfQuiescent
    PROVE  BaseInv' /\ Calm
  <1>1. Calm
    BY SameSlots, Zenon DEF ResetVtimeIfQuiescent, past
  <1>2. SlotsInv'
    BY <1>1, CalmKeeps, Zenon DEF ResetVtimeIfQuiescent, BaseInv, others
  <1>3. ListsInv'
    BY DEF ResetVtimeIfQuiescent, BaseInv, ListsInv, lane
  <1> QED
    BY <1>1, <1>2, <1>3, Zenon DEF BaseInv

\* So are the steps of workers and the expiry of a reclaim claim.
LEMMA OtherSteps ==
    ASSUME BaseInv, NEW s \in Slots,
           \/ ClaimExpires(s) \/ Start(s)
           \/ \E inc \in Durations : Finish(s, inc, TRUE) \/ Finish(s, inc, FALSE)
    PROVE  BaseInv' /\ Calm
  <1>1. CASE ClaimExpires(s)
    <2>1. ListsInv' /\ Calm
      BY <1>1, SameLists, SameSlots, Zenon DEF ClaimExpires, past
    <2>2. SlotsInv'
      BY <1>1, <2>1, CalmKeeps, Zenon DEF ClaimExpires, BaseInv
    <2> QED
      BY <2>1, <2>2, Zenon DEF BaseInv
  <1>2. CASE Start(s)
    <2>1. ListsInv' /\ Calm
      BY <1>2, SameLists, SameSlots, Zenon DEF Start, past
    <2>2. SlotsInv'
      BY <1>2, <2>1, Zenon DEF Start, BaseInv, SlotsInv, InOrder, slots
    <2> QED
      BY <2>1, <2>2, Zenon DEF BaseInv
  <1>3. ASSUME NEW inc \in Durations, Finish(s, inc, TRUE) \/ Finish(s, inc, FALSE)
        PROVE  BaseInv' /\ Calm
    <2>1. topic[s] > 0 /\ slotJob[s] # NoJob /\ Tenant(s) \in Tenants /\ inc \in Nat
      <3>1. topic[s] > 0
        BY <1>3, Zenon DEF Finish, BaseInv, SlotsInv
      <3> QED
        BY <3>1, WorkFacts, SlotFacts, FairLaneAssumption, Zenon
    <2>2. UNCHANGED <<settings, rearmed, fwd, topic>> /\ work' = [work EXCEPT ![s] = "done"]
      BY <1>3, Zenon DEF Finish, past
    <2>3. ListsInv' /\ Calm
      <3>1. CASE Finish(s, inc, TRUE)
        <4>1. CompleteScript(s, inc)
          BY <3>1, Zenon DEF Finish
        <4> QED
          BY <2>1, <2>2, <4>1, CompleteLists, CompleteCalm, Zenon DEF BaseInv
      <3>2. CASE Finish(s, inc, FALSE)
        BY <2>2, <3>2, SameLists, SameSlots, Zenon DEF Finish
      <3> QED
        BY <1>3, <3>1, <3>2, Zenon
    <2>4. SlotsInv'
      <3>1. work' \in [Slots -> {"none", "running", "done"}]
            /\ \A q \in Slots : work'[q] # "none" => topic'[q] > 0
        BY <2>1, <2>2, Zenon DEF BaseInv, SlotsInv
      <3>2. InOrder'
        BY <2>3, Zenon DEF Calm, BaseInv, SlotsInv, InOrder
      <3> QED
        BY <2>2, <2>3, <3>1, <3>2, Zenon DEF Calm, Rearmed, BaseInv, SlotsInv
    <2> QED
      BY <2>3, <2>4, Zenon DEF BaseInv
  <1> QED
    BY <1>1, <1>2, <1>3, Zenon

\* The history of waiting newcomers keeps its type.
LEMMA WaitedStep ==
    ASSUME waited \in [Tenants -> Nat \cup {-1}], [Next]_vars
    PROVE  waited' \in [Tenants -> Nat \cup {-1}]
  <1>0. SUFFICES ASSUME waited' # waited PROVE waited' \in [Tenants -> Nat \cup {-1}]
    BY Zenon
  <1>1. ASSUME NEW j, Enqueue(j) PROVE waited' \in [Tenants -> Nat \cup {-1}]
    BY <1>1, Zenon DEF Enqueue
  <1>2. ASSUME NEW f, NEW view, Checkout(f, view) PROVE waited' \in [Tenants -> Nat \cup {-1}]
    BY <1>2 DEF Checkout
  <1>3. ASSUME NEW s, AbortScript(s) PROVE waited' \in [Tenants -> Nat \cup {-1}]
    BY <1>3, Zenon DEF AbortScript
  <1>4. ASSUME NEW f, Rearm(f) PROVE waited' \in [Tenants -> Nat \cup {-1}]
    BY <1>4, Zenon DEF Rearm
  <1>5. ASSUME NEW j PROVE ~DispatchExpired(j) /\ (Dispatch(j, TRUE) \/ Dispatch(j, FALSE) => Enqueue(j))
    BY <1>0, Zenon DEF Dispatch, DispatchExpired, past
  <1>6. ASSUME NEW f PROVE ForwarderFault(f) => FALSE
    BY <1>0, Zenon DEF ForwarderFault, ForwardFails, Expired, ExpiredFails, ExpiredComplete, Confirm, Abort,
                ReclaimProduceFails, ReclaimConfirm, Crash, past
  <1>7. ASSUME NEW f, ForwarderStep(f)
        PROVE  \/ \E view : Checkout(f, view)
               \/ AbortScript(fwd[f].slot) \/ Rearm(f)
    BY <1>0, <1>7, Zenon DEF ForwarderStep, Forward, ExpiredComplete, Confirm, Abort, ListStale,
                      ReclaimClaim, ReclaimProduce, ReclaimConfirm, past
  <1>8. ASSUME NEW s PROVE ~ClaimExpires(s) /\ ~Start(s) /\ ~Renew(s) /\ ~Expire(s)
    BY <1>0, Zenon DEF ClaimExpires, Start, Renew, Expire, past
  <1>9. ASSUME NEW s, NEW inc PROVE ~Finish(s, inc, TRUE) /\ ~Finish(s, inc, FALSE)
    BY <1>0, Zenon DEF Finish, past
  <1>10. ASSUME NEW f, NEW view PROVE ~CheckoutIdle(f, view)
    BY <1>0, Zenon DEF CheckoutIdle, past
  <1>11. ~ReclaimExpiredLeases /\ ~ResetVtimeIfQuiescent /\ ~UNCHANGED vars
    BY <1>0, Zenon DEF ReclaimExpiredLeases, ResetVtimeIfQuiescent, past, vars
  <1> QED
    BY <1>1, <1>2, <1>3, <1>4, <1>5, <1>6, <1>7, <1>8, <1>9, <1>10, <1>11, Zenon DEF Next

\* Every step keeps lists and slots, and is calm unless it is a checkout.
LEMMA BaseStep ==
    ASSUME BaseInv, waited \in [Tenants -> Nat \cup {-1}], [Next]_vars
    PROVE  BaseInv' /\ (Calm \/ Served)
  <1>1. CASE UNCHANGED vars
    <2>1. UNCHANGED <<settings, lists, slots, rearmed, topic, work, fwd>>
      BY <1>1, Zenon DEF vars, lists, slots, others, past
    <2>2. ListsInv' /\ Calm
      BY <2>1, SameLists, SameSlots, Zenon
    <2>3. SlotsInv'
      BY <2>1, <2>2, CalmKeeps, Zenon DEF BaseInv
    <2> QED
      BY <2>2, <2>3, Zenon DEF BaseInv
  <1>2. ASSUME LeaseStep PROVE BaseInv' /\ Calm
    BY <1>2, LeaseStepKeeps, Zenon DEF LeaseStep
  <1>3. CASE ResetVtimeIfQuiescent
    BY <1>3, ResetStep, Zenon
  <1> QED
    BY <1>1, <1>2, <1>3, LeaseSteps, DispatchStep, ForwarderSteps, OtherSteps, Zenon DEF Next

-----------------------------------------------------------------------------
(* Concurrency *)

\* The leases that are not known to be gone, but for those a reclaim re-created: an
\* expired one may still be renewed, so BudgetRespected is not inductive without them.
Held == {s \in Slots \ rearmed : leases[s] # "none"}
HeldBy(t) == {s \in LeasedTo(t) \ rearmed : tenantLeases[s] # "none"}

BudgetInv ==
    /\ Budget > 0 => Cardinality(Held) <= Budget
    /\ \A t \in Tenants : Cap > 0 => Cardinality(HeldBy(t)) <= Cap

\* A set of slots counts no more than a set around it.
LEMMA Fewer ==
    ASSUME NEW A, NEW C, A \subseteq Slots, C \subseteq A, NEW n \in Nat, Cardinality(A) <= n
    PROVE  Cardinality(C) <= n
  <1>1. IsFiniteSet(A) /\ Cardinality(A) \in Nat
    BY SlotCount, Zenon
  <1>2. Cardinality(C) \in Nat /\ Cardinality(C) <= Cardinality(A)
    BY <1>1, FS_Subset, FS_CardinalityType, Zenon
  <1> QED
    BY <1>1, <1>2

\* A set below its limit stays within it with one more slot.
LEMMA OneMore ==
    ASSUME NEW A, A \subseteq Slots, NEW C, NEW s, C \subseteq A \cup {s}, NEW n \in Nat,
           ~(Cardinality(A) >= n)
    PROVE  Cardinality(C) <= n
  <1>1. IsFiniteSet(A) /\ Cardinality(A) \in Nat
    BY SlotCount, Zenon
  <1>2. IsFiniteSet(A \cup {s}) /\ Cardinality(A \cup {s}) \in Nat
        /\ Cardinality(A \cup {s}) <= Cardinality(A) + 1
    <2>1. CASE s \in A
      <3>1. A \cup {s} = A
        BY <2>1, Zenon
      <3>2. Cardinality(A \cup {s}) = Cardinality(A) /\ IsFiniteSet(A \cup {s})
        BY <1>1, <3>1, Zenon
      <3> QED
        BY <1>1, <3>2
    <2>2. CASE s \notin A
      <3>1. IsFiniteSet(A \cup {s}) /\ Cardinality(A \cup {s}) = Cardinality(A) + 1
        BY <1>1, <2>2, FS_AddElement, Zenon
      <3> QED
        BY <1>1, <3>1
    <2> QED
      BY <2>1, <2>2, Zenon
  <1>3. Cardinality(C) \in Nat /\ Cardinality(C) <= Cardinality(A \cup {s})
    BY <1>2, FS_Subset, FS_CardinalityType, Zenon
  <1> QED
    BY <1>1, <1>2, <1>3

\* Every step keeps budget and caps: only a checkout adds a lease, below the limits.
LEMMA BudgetStep ==
    ASSUME BaseInv, BudgetInv, Calm \/ Served
    PROVE  BudgetInv'
  <1>1. settings' = settings
    <2>1. CASE Calm
      BY <2>1, Zenon DEF Calm
    <2>2. CASE Served
      <3>1. PICK f \in Forwarders, view \in SUBSET Tenants, t \in DOMAIN ring, s \in Slots :
                 Serves(f, view, t, s)
        BY <2>2, Zenon DEF Served
      <3> QED
        BY <3>1, Zenon DEF Serves
    <2> QED
      BY <2>1, <2>2, Zenon
  <1>2. Budget \in Nat /\ Cap \in Nat /\ Budget' = Budget /\ Cap' = Cap
    BY <1>1, FairLaneAssumption, Zenon DEF BaseInv, ListsInv, Settings, Budget, Cap
  <1>3. Held \subseteq Slots /\ \A t : HeldBy(t) \subseteq Slots
    BY Zenon DEF Held, HeldBy, LeasedTo
  <1>4. CASE Calm
    <2>1. Held' \subseteq Held
      BY <1>4, Zenon DEF Calm, Held, Rearmed
    <2>2. \A t : HeldBy(t)' \subseteq HeldBy(t)
      BY <1>4, Zenon DEF Calm, HeldBy, Rearmed, LeasedTo, Tenant
    <2>3. Budget > 0 => Cardinality(Held') <= Budget
      BY <1>2, <1>3, <2>1, Fewer, Zenon DEF BudgetInv
    <2>4. \A t \in Tenants : Cap > 0 => Cardinality(HeldBy(t)') <= Cap
      BY <1>2, <1>3, <2>2, Fewer, Zenon DEF BudgetInv
    <2> QED
      BY <1>2, <2>3, <2>4, Zenon DEF BudgetInv
  <1>5. ASSUME NEW f \in Forwarders, NEW view \in SUBSET Tenants, NEW t \in DOMAIN ring,
               NEW s \in Slots, Serves(f, view, t, s)
        PROVE  BudgetInv'
    <2>1. t \in Tenants /\ settings \in Instances /\ DOMAIN ring \subseteq Tenants
          /\ t \in Nat /\ ring[t] \in Int
      BY FairLaneAssumption, Zenon DEF BaseInv, ListsInv
    <2> DEFINE live == {q \in Slots : leases[q] = "live"}
               mine == {q \in LeasedTo(t) : tenantLeases[q] = "live"}
    <2>2. /\ leases' = [Purged(leases, Slots) EXCEPT ![s] = "live"] /\ rearmed' = rearmed
          /\ tenantLeases' = [PurgedTenants(Visited(t, view)) EXCEPT ![s] = "live"]
          /\ slotJob' = [slotJob EXCEPT ![s] = Head(ready[t])] /\ slotJob[s] = NoJob
      BY <1>5, Zenon DEF Serves
    <2>3. leases \in [Slots -> LeaseStates] /\ tenantLeases \in [Slots -> LeaseStates]
          /\ slotJob \in [Slots -> Jobs \cup {NoJob}]
      BY Zenon DEF BaseInv, SlotsInv
    <2>4. Held' \subseteq live \cup {s}
      BY <2>2, <2>3, Zenon DEF Held, Purged, LeaseStates
    <2>5. Budget > 0 => ~(Cardinality(live) >= Budget)
      BY <1>5, Zenon DEF Serves, BudgetFull, Total
    <2>6. Budget > 0 => Cardinality(Held') <= Budget
      BY <1>2, <2>4, <2>5, OneMore, Zenon
    <2>7. UnderCap(t)
      BY <1>5, <2>1, SharesIs, Zenon DEF Serves, Candidates
    <2>8. Cap > 0 => ~(Cardinality(mine) >= Cap)
      <3>1. Cardinality(mine) \in Nat
        BY SlotCount, Zenon DEF LeasedTo
      <3> QED
        BY <1>2, <2>7, <3>1 DEF UnderCap, Inflight
    <2>9. Head(ready[t])[1] = t
      BY <2>1, TakeIs, Zenon DEF BaseInv, ListsInv
    <2>10. t \in Visited(t, view)
      BY <2>1 DEF Visited, Before
    <2>11. ASSUME NEW u \in Tenants
           PROVE  /\ u # t => HeldBy(u)' \subseteq HeldBy(u)
                  /\ u = t => HeldBy(u)' \subseteq mine \cup {s}
      <3>1. ASSUME NEW q \in HeldBy(u)', q # s
            PROVE  q \in HeldBy(u) /\ (u = t => tenantLeases[q] # "expired")
        <4>1. q \in Slots /\ slotJob'[q] = slotJob[q] /\ q \in LeasedTo(u) /\ q \notin rearmed
              /\ tenantLeases'[q] = PurgedTenants(Visited(t, view))[q] /\ tenantLeases'[q] # "none"
          BY <2>2, <2>3, <3>1 DEF HeldBy, LeasedTo, Tenant
        <4>2. tenantLeases'[q] = IF q \in UNION {LeasedTo(x) : x \in Visited(t, view)}
                                    /\ tenantLeases[q] = "expired" THEN "none" ELSE tenantLeases[q]
          BY <4>1, Zenon DEF PurgedTenants, Purged
        <4>3. tenantLeases[q] # "none"
          BY <4>1, <4>2, Zenon
        <4>4. u = t => q \in UNION {LeasedTo(x) : x \in Visited(t, view)}
          BY <2>10, <4>1, Zenon
        <4> QED
          BY <4>1, <4>2, <4>3, <4>4, Zenon DEF HeldBy
      <3>2. u # t => s \notin HeldBy(u)'
        BY <2>2, <2>3, <2>9, Zenon DEF HeldBy, LeasedTo, Tenant
      <3>3. \A q \in HeldBy(u) : tenantLeases[q] # "expired" => q \in {x \in LeasedTo(u) : tenantLeases[x] = "live"}
        BY <2>3, Zenon DEF HeldBy, LeasedTo, LeaseStates
      <3> QED
        BY <3>1, <3>2, <3>3, Zenon
    <2>12. ASSUME NEW u \in Tenants, Cap > 0 PROVE Cardinality(HeldBy(u)') <= Cap
      <3>1. CASE u = t
        <4>1. mine \subseteq Slots /\ HeldBy(u)' \subseteq mine \cup {s}
          BY <2>11, <3>1, Zenon DEF LeasedTo
        <4> HIDE DEF mine
        <4> QED
          BY <1>2, <2>8, <2>12, <4>1, OneMore, Zenon
      <3>2. CASE u # t
        BY <1>2, <1>3, <2>11, <2>12, <3>2, Fewer, Zenon DEF BudgetInv
      <3> QED
        BY <3>1, <3>2, Zenon
    <2> QED
      BY <1>2, <2>6, <2>12, Zenon DEF BudgetInv
  <1> QED
    BY <1>4, <1>5, Zenon DEF Served

-----------------------------------------------------------------------------
(* No job is lost *)

\* Where a job may be.
Safe(j) ==
    \/ j \in ingest \cup dropped
    \/ In(ready[j[1]], j)
    \/ \E s \in Slots : slotJob[s] = j /\ (s \in forwarding \/ topic[s] > 0)

\* A forwarder confirms what it has produced or dropped.
HandsInv ==
    \A f \in Forwarders :
        /\ At(f, "complete") => slotJob[fwd[f].slot] \in dropped
        /\ At(f, "confirm") => topic[fwd[f].slot] > 0 \/ slotJob[fwd[f].slot] \in dropped
        /\ At(f, "reconfirm") => topic[fwd[f].slot] > 0

LostInv == HandsInv /\ \A j \in Jobs : Pushed(j) => Safe(j)

\* What no step undoes: drops, produces and checkouts.
Lasting ==
    /\ settings' = settings /\ dropped \subseteq dropped'
    /\ \A s \in Slots : topic[s] > 0 => topic'[s] > 0
    /\ \A s \in Slots : slotJob[s] # NoJob => slotJob'[s] = slotJob[s]

\* What forwarders know of their slots survives the step of one of them.
LEMMA HandsGoto ==
    ASSUME BaseInv, HandsInv, Lasting, NEW f \in Forwarders, NEW pc, NEW s, Goto(f, pc, s),
           pc = "complete" => slotJob'[s] \in dropped',
           pc = "confirm" => topic'[s] > 0 \/ slotJob'[s] \in dropped',
           pc = "reconfirm" => topic'[s] > 0
    PROVE  HandsInv'
  <1>1. fwd'[f] = [at |-> pc, slot |-> s] /\ \A g \in Forwarders : g # f => fwd'[g] = fwd[g]
    BY Zenon DEF BaseInv, SlotsInv, Goto
  <1>2. ASSUME NEW g \in Forwarders, fwd[g].at # "idle"
        PROVE  /\ topic[fwd[g].slot] > 0 => topic'[fwd[g].slot] > 0
               /\ slotJob'[fwd[g].slot] = slotJob[fwd[g].slot]
    BY <1>2, HandFacts, Zenon DEF Lasting
  <1>3. ASSUME NEW g \in Forwarders, g # f
        PROVE  /\ At(g, "complete")' => slotJob'[fwd'[g].slot] \in dropped'
               /\ At(g, "confirm")' => topic'[fwd'[g].slot] > 0 \/ slotJob'[fwd'[g].slot] \in dropped'
               /\ At(g, "reconfirm")' => topic'[fwd'[g].slot] > 0
    <2>1. fwd'[g] = fwd[g]
      BY <1>1, <1>3, Zenon
    <2>2. CASE fwd[g].at = "idle"
      BY <2>1, <2>2, Zenon DEF At
    <2>3. CASE fwd[g].at # "idle"
      BY <1>2, <2>1, <2>3, Zenon DEF At, HandsInv, Lasting
    <2> QED
      BY <2>2, <2>3, Zenon
  <1>4. /\ At(f, "complete")' => slotJob'[fwd'[f].slot] \in dropped'
        /\ At(f, "confirm")' => topic'[fwd'[f].slot] > 0 \/ slotJob'[fwd'[f].slot] \in dropped'
        /\ At(f, "reconfirm")' => topic'[fwd'[f].slot] > 0
    BY <1>1 DEF At
  <1> QED
    BY <1>3, <1>4, Zenon DEF HandsInv

\* And any step that moves no forwarder.
LEMMA HandsSame ==
    ASSUME BaseInv, HandsInv, Lasting, fwd' = fwd
    PROVE  HandsInv'
  <1> SUFFICES ASSUME NEW f \in Forwarders, fwd[f].at # "idle"
               PROVE  /\ At(f, "complete")' => slotJob'[fwd[f].slot] \in dropped'
                      /\ At(f, "confirm")' => topic'[fwd[f].slot] > 0 \/ slotJob'[fwd[f].slot] \in dropped'
                      /\ At(f, "reconfirm")' => topic'[fwd[f].slot] > 0
    BY Zenon DEF HandsInv, At
  <1>1. /\ topic[fwd[f].slot] > 0 => topic'[fwd[f].slot] > 0
        /\ slotJob'[fwd[f].slot] = slotJob[fwd[f].slot]
    BY HandFacts, Zenon DEF Lasting
  <1> QED
    BY <1>1, Zenon DEF At, HandsInv, Lasting

\* A step after which every job still is where it was, or has been dropped.
Keeping ==
    /\ Lasting /\ ready' = ready /\ UNCHANGED slotJob /\ ingest \subseteq ingest' \cup dropped'
    /\ \A s \in Slots : s \in forwarding \ forwarding' => topic'[s] > 0 \/ slotJob[s] \in dropped'

\* A step that keeps every place a job can be in loses none.
LEMMA KeepingSafe ==
    ASSUME LostInv, Keeping
    PROVE  \A j \in Jobs : Pushed(j)' => Safe(j)'
  <1> SUFFICES ASSUME NEW j \in Jobs, Pushed(j)' PROVE Safe(j)'
    BY Zenon
  <1>1. Safe(j)
    BY Zenon DEF LostInv, Pushed, Keeping, Lasting
  <1> QED
    BY <1>1, Zenon DEF Safe, Keeping, Lasting

\* The dispatcher loses no job, whether its enqueue is reported or not.
LEMMA DispatchLoses ==
    ASSUME BaseInv, LostInv, NEW j \in Jobs, Dispatch(j, TRUE) \/ Dispatch(j, FALSE)
    PROVE  LostInv'
  <1>1. /\ ready' = [ready EXCEPT ![j[1]] = Append(@, j)] /\ ingest \ {j} \subseteq ingest'
        /\ UNCHANGED <<settings, slotJob, forwarding, fwd, topic, dropped>>
    BY Zenon DEF Dispatch, Enqueue, slots, others
  <1>2. HandsInv'
    BY <1>1, HandsSame, Zenon DEF Lasting, LostInv
  <1>3. j[1] \in Tenants /\ QueueOf(j[1], ready[j[1]])
    BY JobFacts, Zenon DEF BaseInv, ListsInv
  <1>4. /\ In(Append(ready[j[1]], j), j)
        /\ \A x : In(ready[j[1]], x) => In(Append(ready[j[1]], j), x)
    BY <1>3, PutIs
  <1>5. ASSUME NEW i \in Jobs PROVE /\ In(ready[i[1]], i) => In(ready'[i[1]], i)
                                    /\ i = j => In(ready'[i[1]], i)
    <2>1. i[1] \in Tenants /\ ready \in [Tenants -> Seq(Jobs)]
      BY JobFacts, Zenon DEF BaseInv, ListsInv
    <2>2. ready'[j[1]] = Append(ready[j[1]], j) /\ (i[1] # j[1] => ready'[i[1]] = ready[i[1]])
      BY <1>1, <1>3, <2>1, Zenon
    <2> QED
      BY <1>4, <2>2, Zenon
  <1>6. ASSUME NEW i \in Jobs, Pushed(i)' PROVE Safe(i)'
    <2>1. Safe(i)
      BY <1>1, <1>6, Zenon DEF LostInv, Pushed
    <2> QED
      BY <1>1, <1>5, <2>1, Zenon DEF Safe
  <1> QED
    BY <1>2, <1>6, Zenon DEF LostInv

\* A checkout moves its job from the list to the buffer.
LEMMA ServeLoses ==
    ASSUME BaseInv, LostInv, Served
    PROVE  LostInv'
  <1>1. PICK f \in Forwarders, view \in SUBSET Tenants, t \in DOMAIN ring, s \in Slots :
             Serves(f, view, t, s)
    BY Zenon DEF Served
  <1>2. /\ ready' = [ready EXCEPT ![t] = Tail(@)] /\ slotJob' = [slotJob EXCEPT ![s] = Head(ready[t])]
        /\ forwarding' = forwarding \cup {s} /\ Goto(f, "checkedOut", s) /\ slotJob[s] = NoJob
        /\ UNCHANGED <<settings, ingest, topic, dropped>>
    BY <1>1, Zenon DEF Serves
  <1>3. t \in Tenants /\ QueueOf(t, ready[t]) /\ ready[t] # <<>> /\ ready \in [Tenants -> Seq(Jobs)]
        /\ slotJob \in [Slots -> Jobs \cup {NoJob}]
    BY Zenon DEF BaseInv, ListsInv, SlotsInv
  <1>4. \A x : In(ready[t], x) => x = Head(ready[t]) \/ In(Tail(ready[t]), x)
    BY <1>3, TakeIs, Zenon
  <1>5. slotJob'[s] = Head(ready[t]) /\ \A q \in Slots : q # s => slotJob'[q] = slotJob[q]
    BY <1>2, <1>3, Zenon
  <1>6. Lasting
    BY <1>2, <1>5, Zenon DEF Lasting
  <1>7. HandsInv'
    BY <1>2, <1>6, HandsGoto, Zenon DEF LostInv
  <1>8. ASSUME NEW i \in Jobs, Pushed(i)' PROVE Safe(i)'
    <2>1. Safe(i) /\ i # NoJob /\ i[1] \in Tenants
      BY <1>2, <1>8, JobFacts, Zenon DEF LostInv, Pushed
    <2>2. CASE i \in ingest \cup dropped
      BY <1>2, <2>2, Zenon DEF Safe
    <2>3. CASE In(ready[i[1]], i)
      <3>1. CASE i = Head(ready[t])
        BY <1>2, <1>5, <3>1, Zenon DEF Safe
      <3>2. CASE i # Head(ready[t])
        <4>1. In(ready'[i[1]], i)
          BY <1>2, <1>3, <1>4, <2>1, <2>3, <3>2, Zenon
        <4> QED
          BY <4>1, Zenon DEF Safe
      <3> QED
        BY <3>1, <3>2, Zenon
    <2>4. ASSUME NEW q \in Slots, slotJob[q] = i, q \in forwarding \/ topic[q] > 0 PROVE Safe(i)'
      <3>1. q # s
        BY <1>2, <2>1, <2>4, Zenon
      <3>2. slotJob'[q] = i /\ (q \in forwarding' \/ topic'[q] > 0)
        BY <1>2, <1>5, <2>4, <3>1, Zenon
      <3> QED
        BY <3>2, Zenon DEF Safe
    <2> QED
      BY <2>1, <2>2, <2>3, <2>4, Zenon DEF Safe
  <1> QED
    BY <1>7, <1>8, Zenon DEF LostInv

\* An abort moves it back.
LEMMA AbortLoses ==
    ASSUME BaseInv, LostInv, NEW f \in Forwarders, Abort(f, TRUE)
    PROVE  LostInv'
  <1>1. PICK s : s = fwd[f].slot
    BY Zenon
  <1>2. s \in Slots /\ slotJob[s] # NoJob
    BY <1>1, HandFacts, Zenon DEF Abort, At
  <1>3. AbortScript(s) /\ Goto(f, "idle", 0) /\ UNCHANGED <<settings, ingest, topic, dropped>>
    BY <1>1, Zenon DEF Abort
  <1>4. slotJob' = slotJob
    BY <1>3, Zenon DEF AbortScript, slots
  <1>5. HandsInv'
    BY <1>3, <1>4, HandsGoto, Zenon DEF LostInv, Lasting
  <1>6. CASE s \notin forwarding
    <2>1. Keeping
      BY <1>3, <1>6, Zenon DEF Keeping, Lasting, AbortScript, lists, slots
    <2> QED
      BY <1>5, <2>1, KeepingSafe, Zenon DEF LostInv
  <1>7. CASE s \in forwarding
    <2>1. PICK t, j : t = Tenant(s) /\ j = slotJob[s]
      BY Zenon
    <2>2. t \in Tenants /\ j \in Jobs /\ j[1] = t /\ QueueOf(t, ready[t])
      BY <1>2, <2>1, SlotFacts, Zenon DEF Tenant, BaseInv, ListsInv
    <2>3. ready' = [ready EXCEPT ![t] = Append(@, j)] /\ forwarding' = forwarding \ {s}
      BY <1>3, <1>7, <2>1, Zenon DEF AbortScript
    <2>4. In(Append(ready[t], j), j) /\ \A x : In(ready[t], x) => In(Append(ready[t], j), x)
      BY <2>2, PutIs, Zenon
    <2>5. ASSUME NEW i \in Jobs PROVE /\ In(ready[i[1]], i) => In(ready'[i[1]], i)
                                      /\ i = j => In(ready'[i[1]], i)
      <3>1. i[1] \in Tenants /\ ready \in [Tenants -> Seq(Jobs)]
        BY JobFacts, Zenon DEF BaseInv, ListsInv
      <3>2. ready'[t] = Append(ready[t], j) /\ (i[1] # t => ready'[i[1]] = ready[i[1]])
        BY <2>2, <2>3, <3>1, Zenon
      <3> QED
        BY <2>2, <2>4, <3>2, Zenon
    <2>6. ASSUME NEW i \in Jobs, Pushed(i)' PROVE Safe(i)'
      <3>1. Safe(i)
        BY <1>3, <2>6, Zenon DEF LostInv, Pushed
      <3> QED
        BY <1>3, <1>4, <2>1, <2>3, <2>5, <3>1, Zenon DEF Safe
    <2> QED
      BY <1>5, <2>6, Zenon DEF LostInv
  <1> QED
    BY <1>6, <1>7, Zenon

\* No step loses a job.
LEMMA LostStep ==
    ASSUME BaseInv, LostInv, [Next]_vars
    PROVE  LostInv'
  <1> DEFINE slot(f) == fwd[f].slot
  <1>1. ASSUME Keeping, fwd' = fwd PROVE LostInv'
    BY <1>1, HandsSame, KeepingSafe, Zenon DEF LostInv, Keeping
  <1>2. ASSUME Keeping, NEW f \in Forwarders, NEW pc, NEW s, Goto(f, pc, s),
               pc = "complete" => slotJob'[s] \in dropped',
               pc = "confirm" => topic'[s] > 0 \/ slotJob'[s] \in dropped',
               pc = "reconfirm" => topic'[s] > 0
        PROVE  LostInv'
    BY <1>2, HandsGoto, KeepingSafe, Zenon DEF LostInv, Keeping
  <1>3. ASSUME Keeping, NEW f \in Forwarders, NEW pc, NEW s, Goto(f, pc, s),
               pc \in {"idle", "abort", "listed", "reclaim", "rearm"}
        PROVE  LostInv'
    BY <1>2, <1>3, Zenon
  <1>4. ASSUME NEW f \in Forwarders, ForwarderFault(f) PROVE LostInv'
    <2>1. CASE ForwardFails(f)
      <3>1. Keeping /\ Goto(f, "abort", slot(f))
        BY <2>1, Zenon DEF Keeping, Lasting, ForwardFails, lists, slots
      <3> QED
        BY <3>1, <1>3, Zenon
    <2>2. CASE Expired(f)
      <3>1. Keeping /\ Goto(f, "complete", slot(f)) /\ slotJob'[slot(f)] \in dropped'
        BY <2>2, Zenon DEF Keeping, Lasting, Expired, lists, slots
      <3> QED
        BY <3>1, <1>2, Zenon
    <2>3. CASE ExpiredFails(f)
      <3>1. Keeping /\ Goto(f, "idle", 0)
        BY <2>3, Zenon DEF Keeping, Lasting, ExpiredFails, lists, slots
      <3> QED
        BY <3>1, <1>3, Zenon
    <2>4. CASE ExpiredComplete(f, FALSE)
      <3>1. Keeping /\ Goto(f, "confirm", slot(f)) /\ slotJob'[slot(f)] \in dropped'
        BY <2>4, Zenon DEF Keeping, Lasting, ExpiredComplete, lists, slots, LostInv, HandsInv
      <3> QED
        BY <3>1, <1>2, Zenon
    <2>5. CASE Confirm(f, FALSE)
      <3>1. Keeping /\ Goto(f, "idle", 0)
        BY <2>5, Zenon DEF Keeping, Lasting, Confirm, lists, slots
      <3> QED
        BY <3>1, <1>3, Zenon
    <2>6. CASE Abort(f, FALSE)
      <3>1. Keeping /\ Goto(f, "idle", 0)
        BY <2>6, Zenon DEF Keeping, Lasting, Abort, lists, slots
      <3> QED
        BY <3>1, <1>3, Zenon
    <2>7. CASE ReclaimProduceFails(f)
      <3>1. Keeping /\ Goto(f, "abort", slot(f))
        BY <2>7, Zenon DEF Keeping, Lasting, ReclaimProduceFails, lists, slots
      <3> QED
        BY <3>1, <1>3, Zenon
    <2>8. CASE ReclaimConfirm(f, FALSE)
      <3>1. Keeping /\ Goto(f, "idle", 0)
        BY <2>8, Zenon DEF Keeping, Lasting, ReclaimConfirm, lists, slots
      <3> QED
        BY <3>1, <1>3, Zenon
    <2>9. CASE Crash(f)
      <3>1. Keeping /\ Goto(f, "idle", 0)
        BY <2>9, Zenon DEF Keeping, Lasting, Crash, lists, slots
      <3> QED
        BY <3>1, <1>3, Zenon
    <2> QED
      BY <1>4, <2>1, <2>2, <2>3, <2>4, <2>5, <2>6, <2>7, <2>8, <2>9, Zenon DEF ForwarderFault
  <1>5. ASSUME NEW f \in Forwarders, ForwarderStep(f) PROVE LostInv'
    <2>0. topic \in [Slots -> Nat]
      BY Zenon DEF BaseInv, SlotsInv
    <2>1. CASE Forward(f)
      <3>1. slot(f) \in Slots
        BY <2>1, HandFacts, Zenon DEF Forward, At
      <3>0. topic' = [topic EXCEPT ![slot(f)] = @ + 1] /\ Goto(f, "confirm", slot(f))
        BY <2>1, Zenon DEF Forward
      <3>2. topic'[slot(f)] > 0 /\ \A q \in Slots : topic[q] > 0 => topic'[q] > 0
        BY <2>0, <3>0, <3>1
      <3>3. Keeping
        BY <2>1, <3>2, Zenon DEF Keeping, Lasting, Forward, lists, slots
      <3> QED
        BY <3>0, <3>2, <3>3, <1>2, Zenon
    <2>2. CASE ExpiredComplete(f, TRUE)
      <3>1. Keeping /\ Goto(f, "confirm", slot(f)) /\ slotJob'[slot(f)] \in dropped'
        BY <2>2, Zenon DEF Keeping, Lasting, ExpiredComplete, CompleteScript, LostInv, HandsInv
      <3> QED
        BY <3>1, <1>2, Zenon
    <2>3. CASE Confirm(f, TRUE)
      <3>1. topic[slot(f)] > 0 \/ slotJob[slot(f)] \in dropped
        BY <2>3, Zenon DEF Confirm, LostInv, HandsInv
      <3>2. Keeping /\ Goto(f, "idle", 0)
        BY <2>3, <3>1, Zenon DEF Keeping, Lasting, Confirm, lists
      <3> QED
        BY <3>2, <1>3, Zenon
    <2>4. CASE Abort(f, TRUE)
      BY <2>4, AbortLoses, Zenon
    <2>5. ASSUME NEW s \in Slots, ListStale(f, s) PROVE LostInv'
      <3>1. Keeping /\ Goto(f, "listed", s)
        BY <2>5, Zenon DEF Keeping, Lasting, ListStale, lists, slots
      <3> QED
        BY <3>1, <1>3, Zenon
    <2>6. CASE ReclaimClaim(f)
      <3>1. Keeping /\ (Goto(f, "idle", 0) \/ Goto(f, "reclaim", slot(f)))
        BY <2>6, Zenon DEF Keeping, Lasting, ReclaimClaim, lists, slots
      <3> QED
        BY <3>1, <1>3, Zenon
    <2>7. CASE ReclaimProduce(f)
      <3>1. slot(f) \in Slots
        BY <2>7, HandFacts, Zenon DEF ReclaimProduce, At
      <3>0. topic' = [topic EXCEPT ![slot(f)] = @ + 1] /\ Goto(f, "reconfirm", slot(f))
        BY <2>7, Zenon DEF ReclaimProduce
      <3>2. topic'[slot(f)] > 0 /\ \A q \in Slots : topic[q] > 0 => topic'[q] > 0
        BY <2>0, <3>0, <3>1
      <3>3. Keeping
        BY <2>7, <3>2, Zenon DEF Keeping, Lasting, ReclaimProduce, lists, slots
      <3> QED
        BY <3>0, <3>2, <3>3, <1>2, Zenon
    <2>8. CASE ReclaimConfirm(f, TRUE)
      <3>1. topic[slot(f)] > 0
        BY <2>8, Zenon DEF ReclaimConfirm, LostInv, HandsInv
      <3>2. Keeping /\ Goto(f, "rearm", slot(f))
        BY <2>8, <3>1, Zenon DEF Keeping, Lasting, ReclaimConfirm, lists
      <3> QED
        BY <3>2, <1>3, Zenon
    <2>9. CASE Rearm(f)
      <3>1. Keeping /\ Goto(f, "idle", 0)
        BY <2>9, Zenon DEF Keeping, Lasting, Rearm, lists
      <3> QED
        BY <3>1, <1>3, Zenon
    <2>10. ASSUME NEW view \in SUBSET Tenants, Checkout(f, view) PROVE LostInv'
      BY <2>10, CheckoutServes, ServeLoses, Zenon DEF BaseInv, Served
    <2> QED
      BY <1>5, <2>1, <2>2, <2>3, <2>4, <2>5, <2>6, <2>7, <2>8, <2>9, <2>10, Zenon DEF ForwarderStep
  <1>6. ASSUME LeaseStep PROVE LostInv'
    BY <1>1, <1>6, Zenon DEF Keeping, Lasting, LeaseStep, Calm, lists, others
  <1>7. ASSUME NEW j \in Jobs, DispatchExpired(j) PROVE LostInv'
    <2>1. Keeping /\ fwd' = fwd
      BY <1>7, Zenon DEF Keeping, Lasting, DispatchExpired, lists, slots, others
    <2> QED
      BY <1>1, <2>1, Zenon
  <1>8. ASSUME NEW s \in Slots, ClaimExpires(s) \/ Start(s) PROVE LostInv'
    <2>1. Keeping /\ fwd' = fwd
      BY <1>8, Zenon DEF Keeping, Lasting, ClaimExpires, Start, lists, slots
    <2> QED
      BY <1>1, <2>1, Zenon
  <1>9. ASSUME NEW s \in Slots, NEW inc, Finish(s, inc, TRUE) \/ Finish(s, inc, FALSE) PROVE LostInv'
    <2>1. Keeping /\ fwd' = fwd
      BY <1>9, Zenon DEF Keeping, Lasting, Finish, CompleteScript, lists, slots
    <2> QED
      BY <1>1, <2>1, Zenon
  <1>10. CASE ResetVtimeIfQuiescent \/ UNCHANGED vars
    <2>1. Keeping /\ fwd' = fwd
      BY <1>10, Zenon DEF Keeping, Lasting, ResetVtimeIfQuiescent, vars, lists, slots, others
    <2> QED
      BY <1>1, <2>1, Zenon
  <1> QED
    BY <1>4, <1>5, <1>6, <1>7, <1>8, <1>9, <1>10, DispatchLoses, LeaseSteps, Zenon DEF Next

-----------------------------------------------------------------------------
(* The theorems *)

FairInv ==
    BaseInv /\ waited \in [Tenants -> Nat \cup {-1}] /\ BudgetInv /\ LostInv

\* The initial states satisfy the invariant.
LEMMA FairInit ==
    ASSUME Init
    PROVE  FairInv
  <1>1. ListsInv
    <2>1. settings \in Instances /\ DOMAIN ring = {}
      BY Zenon DEF Init
    <2>2. <<>> \in Seq(Jobs) /\ \A t \in Tenants : QueueOf(t, <<>>)
      BY DEF QueueOf
    <2> QED
      BY <2>1, <2>2 DEF Init, ListsInv
  <1>2. SlotsInv
    <2>1. InOrder
      <3>1. 0 \in 0..MaxSlots /\ \A s \in Slots : slotJob[s] = NoJob /\ ~(s <= 0)
        BY FairLaneAssumption DEF Init, Slots
      <3> QED
        BY <3>1, Zenon DEF InOrder
    <2>2. \A f \in Forwarders : fwd[f] = [at |-> "idle", slot |-> 0]
      BY Zenon DEF Init, Resting
    <2>3. fwd \in [Forwarders -> [at : {"idle", "checkedOut", "complete", "confirm", "abort",
                                        "listed", "reclaim", "reconfirm", "rearm"},
                                  slot : Slots \cup {0}]]
      BY Zenon DEF Init, Resting
    <2>4. /\ leases \in [Slots -> LeaseStates] /\ tenantLeases \in [Slots -> LeaseStates]
          /\ slotJob \in [Slots -> Jobs \cup {NoJob}]
          /\ forwarding \subseteq Slots /\ topic \in [Slots -> Nat]
          /\ work \in [Slots -> {"none", "running", "done"}]
      BY Zenon DEF Init, LeaseStates
    <2>5. \A f \in Forwarders : fwd[f].at = "idle"
      BY <2>2
    <2>6. \A s \in Slots : /\ work[s] = "none" /\ topic[s] = 0 /\ s \notin forwarding
                           /\ leases[s] = "none" /\ tenantLeases[s] = "none"
      BY Zenon DEF Init
    <2> QED
      BY <2>1, <2>3, <2>4, <2>5, <2>6, Zenon DEF SlotsInv
  <1>3. waited \in [Tenants -> Nat \cup {-1}]
    BY Zenon DEF Init
  <1>4. BudgetInv
    <2>1. Held = {} /\ \A t : HeldBy(t) = {}
      BY Zenon DEF Init, Held, HeldBy, LeasedTo
    <2>2. Budget \in Nat /\ Cap \in Nat
      BY <1>1, FairLaneAssumption, Zenon DEF ListsInv, Settings, Budget, Cap
    <2> QED
      BY <2>1, <2>2, FS_EmptySet DEF BudgetInv
  <1>5. LostInv
    BY Zenon DEF Init, LostInv, HandsInv, Safe, At, Resting
  <1> QED
    BY <1>1, <1>2, <1>3, <1>4, <1>5, Zenon DEF FairInv, BaseInv

\* Every step keeps it, and is calm or serves one tenant.
LEMMA FairStep ==
    ASSUME FairInv, [Next]_vars
    PROVE  FairInv' /\ (Calm \/ Served)
  <1>1. BaseInv' /\ (Calm \/ Served)
    BY BaseStep, Zenon DEF FairInv
  <1>2. waited' \in [Tenants -> Nat \cup {-1}]
    BY WaitedStep, Zenon DEF FairInv
  <1>3. BudgetInv' /\ LostInv'
    BY <1>1, BudgetStep, LostStep, Zenon DEF FairInv
  <1> QED
    BY <1>1, <1>2, <1>3, Zenon DEF FairInv

\* The invariant of the lane, on which the theorems of both modules rest.
LEMMA FairInvariant == Spec => []FairInv
  BY FairInit, FairStep, PTL DEF Spec

\* A job whose ingest record is committed is never lost, whatever number of forwarders
\* pop, produce, confirm, abort and reclaim, and whichever of them fail or crash.
THEOREM NothingIsLost == Spec => []NothingLost
  <1>1. FairInv => NothingLost
    BY Zenon DEF FairInv, LostInv, Safe, In, NothingLost
  <1> QED
    BY <1>1, FairInvariant, PTL

\* The live slots that no reclaim re-created stay within GlobalConcurrency and within
\* the cap of each tenant, for every budget, cap, weight and number of forwarders.
THEOREM BudgetIsRespected == Spec => []BudgetRespected
  <1>1. ASSUME FairInv PROVE BudgetRespected
    <2> DEFINE Live == {s \in Slots \ rearmed : leases[s] = "live"}
               LiveOf(t) == {s \in LeasedTo(t) \ rearmed : tenantLeases[s] = "live"}
    <2>1. Budget \in Nat /\ Cap \in Nat
      BY <1>1, FairLaneAssumption, Zenon DEF FairInv, BaseInv, ListsInv, Settings, Budget, Cap
    <2>2. Held \subseteq Slots /\ Live \subseteq Held
      BY Zenon DEF Held
    <2>3. ASSUME NEW t \in Tenants PROVE HeldBy(t) \subseteq Slots /\ LiveOf(t) \subseteq HeldBy(t)
      BY Zenon DEF HeldBy, LeasedTo
    <2>4. Budget > 0 => Cardinality(Live) <= Budget
      BY <1>1, <2>1, <2>2, Fewer, Zenon DEF FairInv, BudgetInv
    <2>5. ASSUME NEW t \in Tenants, Cap > 0 PROVE Cardinality(LiveOf(t)) <= Cap
      BY <1>1, <2>1, <2>3, <2>5, Fewer, Zenon DEF FairInv, BudgetInv
    <2> QED
      BY <2>4, <2>5, Zenon DEF BudgetRespected
  <1> QED
    BY <1>1, FairInvariant, PTL

====
