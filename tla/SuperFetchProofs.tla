-------------------------- MODULE SuperFetchProofs --------------------------
(***************************************************************************)
(* Redis owns the job before Kafka forgets it, for any number of consumers *)
(* and sweepers, any bounds and any faults, until a lease runs out or a    *)
(* running consumer's heartbeat lapses.  And when a lease does run out.    *)
(***************************************************************************)
EXTENDS SuperFetch, WorksetLease, TLAPS

USE DEF past

\* The rest values of entries, tasks and sweeps have their types.
LEMMA RestTypes ==
    /\ NoEntry \in Entries
    /\ NoTask \in Tasks
    /\ Resting \in Sweeps
<1>1. NoEntry \in Entries
  BY SuperFetchAssumption DEF NoEntry, Entries
<1>2. NoTask \in Tasks
  BY SuperFetchAssumption DEF NoTask, Tasks
<1> QED
  BY <1>1, <1>2, Zenon DEF Resting, Sweeps

\* claimLua keeps the types of what it writes.
LEMMA ClaimType ==
    ASSUME NEW c \in Consumers, TypeOK, ClaimScript(c)
    PROVE  /\ entry' \in Entries /\ fences' \in 0..MaxFence
           /\ indexed' \in BOOLEAN /\ live' \subseteq Consumers
           /\ Claimed(c) \in Entries
<1>1. fences + 1 \in 0..MaxFence
  BY SuperFetchAssumption DEF TypeOK, ClaimScript
<1>2. [owner |-> c, fence |-> fences + 1, aged |-> FALSE] \in Entries
  BY <1>1, Zenon DEF Entries
<1>3. Claimed(c) \in Entries
  BY <1>2, Zenon DEF Claimed, TypeOK
<1>4. fences' \in 0..MaxFence
  BY <1>1, Zenon DEF ClaimScript, TypeOK
<1>5. indexed' \in BOOLEAN
  BY Zenon DEF ClaimScript
<1>6. live' \subseteq Consumers
  BY Zenon DEF ClaimScript, TypeOK
<1> QED
  BY <1>3, <1>4, <1>5, <1>6, Zenon DEF ClaimScript

\* A fault keeps the fault counter in range.
LEMMA FaultType ==
    ASSUME NEW kind, TypeOK, Fault(kind)
    PROVE  faults' \in 0..MaxFaults
BY SuperFetchAssumption DEF TypeOK, Fault

\* A sweeper that moves on keeps its type.
LEMMA GoType ==
    ASSUME NEW s \in Sweepers, NEW pc, TypeOK, Go(s, pc),
           pc \in {"idle", "prune", "exists", "begin", "check", "produce", "mark", "finish"}
    PROVE  sweep' \in [Sweepers -> Sweeps]
<1>1. sweep[s].e \in Entries
  BY Zenon DEF TypeOK, Sweeps
<1>2. [pc |-> pc, e |-> sweep[s].e] \in Sweeps
  BY <1>1, Zenon DEF Sweeps
<1>3. (IF pc = "idle" THEN Resting ELSE [pc |-> pc, e |-> sweep[s].e]) \in Sweeps
  BY <1>2, RestTypes, Zenon
<1> QED
  BY <1>3, Zenon DEF Go, TypeOK

\* The two fields of a sweeper's place.
LEMMA PlaceFields ==
    ASSUME NEW p, NEW x
    PROVE  [pc |-> p, e |-> x].pc = p /\ [pc |-> p, e |-> x].e = x
  BY Zenon

\* Where a sweeper is after it moved on, and what it has in hand.
LEMMA GoPlace ==
    ASSUME NEW s \in Sweepers, NEW pc, TypeOK, Go(s, pc)
    PROVE  /\ sweep'[s].pc = pc
           /\ pc # "idle" => sweep'[s].e = sweep[s].e
           /\ \A t \in Sweepers \ {s} : sweep'[t] = sweep[t]
<1>1. sweep'[s] = IF pc = "idle" THEN Resting ELSE [pc |-> pc, e |-> sweep[s].e]
  BY Zenon DEF Go, TypeOK
<1>2. CASE pc = "idle"
  BY <1>1, <1>2, Zenon DEF Go, TypeOK, Resting
<1>3. CASE pc # "idle"
  <2>1. sweep'[s] = [pc |-> pc, e |-> sweep[s].e]
    BY <1>1, <1>3, Zenon
  <2>2. sweep'[s].pc = pc /\ sweep'[s].e = sweep[s].e
    BY <2>1, PlaceFields, SMTT(30)
  <2>3. \A t \in Sweepers \ {s} : sweep'[t] = sweep[t]
    BY Zenon DEF Go, TypeOK
  <2> QED
    BY <2>2, <2>3, Zenon
<1> QED
  BY <1>2, <1>3, Zenon

\* A task that moves on keeps its type.
LEMMA TaskType ==
    ASSUME NEW c \in Consumers, NEW pc \in {"none", "perform", "apply", "complete"}, TypeOK
    PROVE  /\ [task EXCEPT ![c].pc = pc] \in [Consumers -> Tasks]
           /\ [task EXCEPT ![c] = NoTask] \in [Consumers -> Tasks]
<1>1. task[c] \in Tasks
  BY Zenon DEF TypeOK
<1>2. [task[c] EXCEPT !.pc = pc] \in Tasks
  BY <1>1, Zenon DEF Tasks
<1> QED
  BY <1>2, RestTypes, Zenon DEF TypeOK

\* Producing a record keeps the log's type.
LEMMA NewRecordType ==
    ASSUME TypeOK, NewRecord
    PROVE  produced' \in Records /\ pending' \subseteq Records
BY SuperFetchAssumption DEF TypeOK, NewRecord, Records

\* Marking a record keeps the types of the offsets.
LEMMA MarkType ==
    ASSUME NEW c \in Consumers, NEW r \in Records, TypeOK, Mark(c, r)
    PROVE  pending' \subseteq Records /\ marked' \in [Consumers -> SUBSET Records]
BY Zenon DEF TypeOK, Mark

\* Every step of a consumer, and of the time that passes for it, keeps the types.
LEMMA ConsumerTypes ==
    ASSUME NEW c \in Consumers, TypeOK,
           \/ Work(c) \/ Lapse(c) \/ Crash(c) \/ Stall(c) \/ Redeliver(c) \/ CompleteError(c)
           \/ \E r \in Records, landed \in BOOLEAN : DispatchError(c, r, landed)
    PROVE  TypeOK'
<1>1. ASSUME NEW r \in Records, Dispatch(c, r) PROVE TypeOK'
  <2>1. ClaimScript(c) /\ Mark(c, r)
    BY <1>1, Zenon DEF Dispatch
  <2>2. [pc |-> "perform", fence |-> Claimed(c).fence] \in Tasks
    BY <2>1, ClaimType, Zenon DEF Tasks, Entries
  <2>3. task' \in [Consumers -> Tasks]
    BY <1>1, <2>2, Zenon DEF Dispatch, TypeOK
  <2>4. unanswered' \subseteq 0..MaxFence
    BY <1>1, Zenon DEF Dispatch, TypeOK
  <2> QED
    BY <1>1, <2>1, <2>3, <2>4, ClaimType, MarkType, Zenon DEF Dispatch, TypeOK
<1>2. ASSUME NEW r \in Records, DispatchDuplicate(c, r) PROVE TypeOK'
  BY <1>2, MarkType, Zenon DEF DispatchDuplicate, TypeOK
<1>3. CASE Commit(c)
  BY <1>3, Zenon DEF Commit, TypeOK
<1>4. CASE Perform(c)
  BY <1>4, TaskType, Zenon DEF Perform, TypeOK
<1>5. CASE Apply(c)
  BY <1>5, TaskType, Zenon DEF Apply, TypeOK
<1>6. CASE Complete(c)
  <2>1. entry' \in Entries
    BY <1>6, RestTypes, Zenon DEF Complete, TypeOK
  <2>2. indexed' \in BOOLEAN
    BY <1>6, Zenon DEF Complete
  <2> QED
    BY <1>6, <2>1, <2>2, TaskType, Zenon DEF Complete, TypeOK
<1>7. CASE TouchConsumer(c)
  BY <1>7, Zenon DEF TouchConsumer, TypeOK
<1>8. CASE Lapse(c)
  BY <1>8, Zenon DEF Lapse, TypeOK
<1>9. CASE Crash(c)
  BY <1>9, TaskType, FaultType, Zenon DEF Crash, TypeOK
<1>10. CASE Stall(c)
  BY <1>10, FaultType, Zenon DEF Stall, TypeOK
<1>11. CASE Redeliver(c)
  BY <1>11, FaultType, Zenon DEF Redeliver, TypeOK
<1>12. CASE CompleteError(c)
  BY <1>12, TaskType, FaultType, Zenon DEF CompleteError, TypeOK
<1>13. ASSUME NEW r \in Records, NEW landed \in BOOLEAN, DispatchError(c, r, landed) PROVE TypeOK'
  <2>1. CASE landed
    <3>1. unanswered' \subseteq 0..MaxFence
      <4>1. CASE Held(c)
        BY <1>13, <2>1, <4>1, Zenon DEF DispatchError, TypeOK
      <4>2. CASE ~Held(c)
        <5>1. Claimed(c).fence \in 0..MaxFence
          BY <1>13, <2>1, <4>2, ClaimType, Zenon DEF DispatchError, Entries
        <5> QED
          BY <1>13, <2>1, <4>2, <5>1, Zenon DEF DispatchError, TypeOK
      <4> QED
        BY <4>1, <4>2, Zenon
    <3> QED
      BY <1>13, <2>1, <3>1, ClaimType, FaultType, Zenon DEF DispatchError, TypeOK
  <2>2. CASE ~landed
    BY <1>13, <2>2, FaultType, Zenon DEF DispatchError, TypeOK
  <2> QED
    BY <2>1, <2>2, Zenon
<1> QED
  BY <1>1, <1>2, <1>3, <1>4, <1>5, <1>6, <1>7, <1>8, <1>9, <1>10, <1>11, <1>12, <1>13, Zenon DEF Work

\* Every step of a sweeper keeps the types.
LEMMA SweeperTypes ==
    ASSUME NEW s \in Sweepers, TypeOK,
           \/ Sweep(s) \/ SwMarkError(s) \/ SwFinishError(s) \/ SwCrash(s)
           \/ \E durable \in BOOLEAN : SwProduceError(s, durable)
    PROVE  TypeOK'
<1>0. sweep[s].e \in Entries /\ sweep[s].e.fence \in 0..MaxFence
  BY Zenon DEF TypeOK, Sweeps, Entries
<1>1. CASE SwGet(s)
  <2>1. [pc |-> "exists", e |-> entry] \in Sweeps
    BY Zenon DEF TypeOK, Sweeps
  <2> QED
    BY <1>1, <2>1, Zenon DEF SwGet, sweepOnly, TypeOK
<1>2. CASE SwExists(s) \/ SwMissing(s)
  BY <1>2, GoType, Zenon DEF SwExists, SwMissing, sweepOnly, TypeOK
<1>12. CASE SwPrune(s)
  BY <1>12, GoType, Zenon DEF SwPrune, TypeOK
<1>3. CASE SwBegin(s)
  BY <1>3, GoType, Zenon DEF SwBegin, TypeOK
<1>4. CASE SwCheck(s)
  <2>1. marker' \in 0..MaxFence
    BY <1>4, SuperFetchAssumption DEF SwCheck, TypeOK
  <2> QED
    BY <1>4, <2>1, GoType, Zenon DEF SwCheck, TypeOK
<1>5. CASE SwProduce(s)
  BY <1>5, GoType, NewRecordType, Zenon DEF SwProduce, TypeOK
<1>6. CASE SwMark(s)
  <2>1. loads' \in [Fences -> Nat]
    <3> DEFINE f == sweep[s].e.fence
    <3>1. loads \in [Fences -> Nat] /\ loads' = [loads EXCEPT ![f] = @ + 1]
      BY <1>6, Zenon DEF SwMark, TypeOK
    <3> HIDE DEF f
    <3>2. CASE f \in Fences
      <4>1. loads[f] + 1 \in Nat
        BY <3>1, <3>2
      <4> QED
        BY <3>1, <3>2, <4>1, Zenon
    <3>3. CASE f \notin Fences
      <4>1. loads' = loads
        BY <3>1, <3>3, Zenon
      <4> QED
        BY <3>1, <4>1, Zenon
    <3> QED
      BY <3>2, <3>3, Zenon
  <2> QED
    BY <1>6, <1>0, <2>1, GoType, Zenon DEF SwMark, TypeOK
<1>7. CASE SwFinish(s)
  <2>1. entry' \in Entries
    BY <1>7, RestTypes, Zenon DEF SwFinish, TypeOK
  <2>2. indexed' \in BOOLEAN
    BY <1>7, Zenon DEF SwFinish
  <2>3. marker' \in 0..MaxFence
    <3>1. marker' = marker \/ marker' = 0
      BY <1>7, Zenon DEF SwFinish
    <3> QED
      BY <3>1, SuperFetchAssumption DEF TypeOK
  <2>4. sweep' \in [Sweepers -> Sweeps] /\ lock' \in BOOLEAN
    BY <1>7, GoType, Zenon DEF SwFinish, TypeOK
  <2>5. UNCHANGED <<up, live, pending, marked, produced, fences, task, applied, past, faults>>
    BY <1>7, Zenon DEF SwFinish
  <2> QED
    BY <2>1, <2>2, <2>3, <2>4, <2>5, Zenon DEF TypeOK
<1>8. CASE SwMarkError(s)
  BY <1>8, GoType, FaultType, Zenon DEF SwMarkError, TypeOK
<1>9. CASE SwFinishError(s)
  BY <1>9, GoType, FaultType, Zenon DEF SwFinishError, TypeOK
<1>10. CASE SwCrash(s)
  BY <1>10, GoType, FaultType, Zenon DEF SwCrash, TypeOK
<1>11. ASSUME NEW durable \in BOOLEAN, SwProduceError(s, durable) PROVE TypeOK'
  <2>1. CASE durable
    BY <1>11, <2>1, GoType, FaultType, NewRecordType, Zenon DEF SwProduceError, TypeOK
  <2>2. CASE ~durable
    BY <1>11, <2>2, GoType, FaultType, Zenon DEF SwProduceError, TypeOK
  <2> QED
    BY <2>1, <2>2, Zenon
<1> QED
  BY <1>1, <1>2, <1>3, <1>4, <1>5, <1>6, <1>7, <1>8, <1>9, <1>10, <1>11, <1>12, Zenon DEF Sweep

\* The working set, the consumers and the sweepers keep their types whatever
\* crashes, errors and redeliveries happen.
THEOREM SuperFetchTypeCorrect == Spec => []TypeOK
<1>1. Init => TypeOK
  <2> SUFFICES ASSUME Init PROVE TypeOK
    BY Zenon
  <2>1. pending \subseteq Records /\ produced \in Records /\ marked \in [Consumers -> SUBSET Records]
    BY SuperFetchAssumption DEF Init, Records
  <2>2. task \in [Consumers -> Tasks] /\ sweep \in [Sweepers -> Sweeps] /\ entry \in Entries
    BY RestTypes, Zenon DEF Init
  <2>3. marker \in 0..MaxFence /\ fences \in 0..MaxFence /\ faults \in 0..MaxFaults
    BY SuperFetchAssumption DEF Init
  <2>4. loads \in [Fences -> Nat]
    BY Zenon DEF Init
  <2> QED
    BY <2>1, <2>2, <2>3, <2>4, Zenon DEF Init, TypeOK
<1>2. TypeOK /\ [Next]_vars => TypeOK'
  <2> SUFFICES ASSUME TypeOK, [Next]_vars PROVE TypeOK'
    BY Zenon
  <2>1. CASE Age
    <3>1. entry' \in Entries
      BY <2>1, Zenon DEF Age, TypeOK, Entries
    <3> QED
      BY <2>1, <3>1, Zenon DEF Age, TypeOK
  <2>2. CASE LockExpires
    <3>1. faults' \in 0..MaxFaults
      BY <2>2, FaultType, Zenon DEF LockExpires, TypeOK
    <3> QED
      BY <2>2, <3>1, Zenon DEF LockExpires, TypeOK
  <2>3. CASE UNCHANGED vars
    BY <2>3, Zenon DEF vars, TypeOK
  <2>4. CASE LeaseEnds
    BY <2>4, RestTypes, Zenon DEF LeaseEnds, TypeOK
  <2>5. CASE LeaseLost
    BY <2>5, RestTypes, FaultType, Zenon DEF LeaseLost, TypeOK
  <2> QED
    BY <2>1, <2>2, <2>3, <2>4, <2>5, ConsumerTypes, SweeperTypes, Zenon DEF Next
<1> QED
  BY <1>1, <1>2, PTL DEF Spec

-----------------------------------------------------------------------------
\* The generation a busy sweeper holds is one that was handed out.
LEMMA SweepFence ==
    ASSUME NEW s, SweepInv(s), sweep[s].pc \notin {"idle", "prune"}, fences \in Nat
    PROVE  sweep[s].e.fence \in Nat /\ sweep[s].e.fence # 0 /\ sweep[s].e.fence <= fences
<1>1. sweep[s].e.fence \in 1..fences
  BY Zenon DEF SweepInv
<1> QED
  BY <1>1

\* A step that leaves everything the invariant reads alone.
LEMMA ChargeFrame ==
    ASSUME InCharge,
           UNCHANGED <<up, live, pending, entry, indexed, fences, task, sweep, applied, expired, marker>>
    PROVE  InCharge'
<1>1. EntryInv' /\ OwnedInv'
  BY Zenon DEF InCharge, EntryInv, OwnedInv, Owned
<1>2. ASSUME NEW c \in Consumers PROVE TaskInv(c)'
  <2>1. TaskInv(c)
    BY Zenon DEF InCharge
  <2> QED
    BY <2>1, Zenon DEF TaskInv
<1>3. ASSUME NEW s \in Sweepers PROVE SweepInv(s)'
  <2>1. SweepInv(s)
    BY Zenon DEF InCharge
  <2> QED
    BY <2>1, Zenon DEF SweepInv, Backed
<1>4. MarkerInv'
  BY Zenon DEF InCharge, MarkerInv, Backed
<1> QED
  BY <1>1, <1>2, <1>3, <1>4, Zenon DEF InCharge

\* A sweeper's step that leaves the working set alone: what is left to show is
\* that the sweeper's own place is sound.
LEMMA SweepFrame ==
    ASSUME NEW s \in Sweepers, TypeOK, InCharge, SweepInv(s)',
           UNCHANGED <<up, live, pending, entry, indexed, fences, task, applied, expired, marker>>,
           \A t \in Sweepers \ {s} : sweep'[t] = sweep[t]
    PROVE  InCharge'
<1>1. EntryInv'
  BY Zenon DEF InCharge, EntryInv
<1>2. ASSUME NEW c \in Consumers PROVE TaskInv(c)'
  BY Zenon DEF InCharge, TaskInv
<1>3. ASSUME NEW t \in Sweepers PROVE SweepInv(t)'
  <2>1. CASE t # s
    BY <2>1, Zenon DEF InCharge, SweepInv, Backed
  <2> QED
    BY <2>1, Zenon
<1>4. MarkerInv'
  BY Zenon DEF InCharge, MarkerInv, Backed
<1>5. OwnedInv'
  BY Zenon DEF InCharge, OwnedInv, Owned
<1> QED
  BY <1>1, <1>2, <1>3, <1>4, <1>5, Zenon DEF InCharge

\* DispatchClaimsAndAcks: a claim that is lost is lost to a live or young owner,
\* so the entry it leaves in charge is no sweeper's to delete; one that is won
\* starts a generation of its own.
LEMMA ClaimOwns ==
    ASSUME NEW c \in up, TypeOK, InCharge, task[c] = NoTask, ClaimScript(c),
           UNCHANGED <<up, sweep, marker, applied, expired>>,
           \/ task' = task
           \/ /\ ~Held(c)
              /\ task' = [task EXCEPT ![c] = [pc |-> "perform", fence |-> Claimed(c).fence]]
    PROVE  InCharge'
<1>0. /\ c \in Consumers /\ c \in live /\ c # NoOwner
      /\ fences \in Nat /\ entry.fence \in Nat /\ marker \in Nat
  BY SuperFetchAssumption DEF InCharge, TypeOK, Entries
<1>1. CASE Held(c) \/ entry.owner = c
  <2>1. /\ entry' = entry /\ fences' = fences /\ live' = live /\ up' = up /\ sweep' = sweep
        /\ marker' = marker /\ applied' = applied /\ (expired <=> expired')
    BY <1>0, <1>1 DEF ClaimScript, Claimed, Held, TypeOK
  <2>2. entry # NoEntry
    BY <1>0, <1>1 DEF Held, NoEntry
  <2>3. entry.owner \in live \/ ~entry.aged
    BY <1>0, <1>1, Zenon DEF Held
  <2>4. expired \/ indexed'
    BY <2>2, Zenon DEF ClaimScript, InCharge, EntryInv
  <2>5. EntryInv'
    BY <2>1, <2>4, Zenon DEF InCharge, EntryInv
  <2>6. ASSUME NEW d \in Consumers PROVE TaskInv(d)'
    <3>1. CASE task'[d] = task[d]
      BY <2>1, <3>1, SMTT(20) DEF InCharge, TaskInv
    <3>2. CASE task'[d] # task[d]
      <4>1. d = c /\ ~Held(c) /\ task'[d].pc = "perform"
        BY <3>2 DEF TypeOK
      <4>2. task'[d].fence = entry.fence
        <5>1. Claimed(c) = entry
          BY <1>1, Zenon DEF Claimed
        <5>2. task'[c] = [pc |-> "perform", fence |-> Claimed(c).fence]
          BY <1>0, <3>2, <4>1, Zenon DEF TypeOK
        <5>3. task'[c].fence = Claimed(c).fence
          BY <5>2, SMTT(30)
        <5> QED
          BY <4>1, <5>1, <5>3, Zenon
      <4> QED
        BY <4>1, <4>2, <1>0, <1>1, <2>1, Zenon DEF TaskInv
    <3> QED
      BY <3>1, <3>2, Zenon
  <2>7. ASSUME NEW s \in Sweepers PROVE SweepInv(s)'
    BY <2>1, <2>2, <2>3, Zenon DEF InCharge, SweepInv, Backed
  <2>8. MarkerInv'
    BY <2>1, <2>2, <2>3, Zenon DEF InCharge, MarkerInv, Backed
  <2>9. OwnedInv'
    BY <2>1, <2>2, <2>4, Zenon DEF OwnedInv, Owned
  <2> QED
    BY <2>1, <2>5, <2>6, <2>7, <2>8, <2>9, Zenon DEF InCharge
<1>2. CASE ~(Held(c) \/ entry.owner = c)
  <2>1. /\ entry' = [owner |-> c, fence |-> fences + 1, aged |-> FALSE]
        /\ fences' = fences + 1 /\ live' = live /\ up' = up /\ sweep' = sweep
        /\ marker' = marker /\ applied' = applied /\ (expired <=> expired') /\ indexed' = TRUE
    BY <1>0, <1>2, Zenon DEF ClaimScript, Claimed
  <2>2. entry' # NoEntry /\ entry'.fence = fences + 1 /\ entry'.owner = c
    BY <1>0, <2>1, Zenon DEF NoEntry
  <2>3. EntryInv'
    BY <1>0, <2>1, <2>2 DEF EntryInv
  <2>4. ASSUME NEW d \in Consumers PROVE TaskInv(d)'
    <3>1. CASE d = c
      <4>1. task'[d] = NoTask \/ (task'[d].pc = "perform" /\ task'[d].fence = Claimed(c).fence)
        BY <1>0, <3>1 DEF TypeOK
      <4>2. c \in up' /\ entry'.owner = c /\ entry'.fence = Claimed(c).fence
        BY <2>1, <2>2, Zenon DEF ClaimScript
      <4>3. CASE task'[d] = NoTask
        BY <4>3 DEF TaskInv, NoTask
      <4>4. CASE task'[d].pc = "perform" /\ task'[d].fence = Claimed(c).fence
        BY <3>1, <4>2, <4>4, Zenon DEF TaskInv
      <4> QED
        BY <4>1, <4>3, <4>4, Zenon
    <3>2. CASE d # c
      <4>1. task'[d] = task[d]
        BY <3>2, Zenon DEF TypeOK
      <4>2. task[d].pc \notin {"perform", "apply"}
        BY <1>2, <3>2, SuperFetchAssumption, Zenon DEF InCharge, TaskInv, Held
      <4>3. TaskInv(d) /\ (applied => applied')
        BY <2>1 DEF InCharge
      <4> QED
        BY <4>1, <4>2, <4>3, Zenon DEF TaskInv
    <3> QED
      BY <3>1, <3>2, Zenon
  <2>5. ASSUME NEW s \in Sweepers PROVE SweepInv(s)'
    <3>1. SweepInv(s)
      BY Zenon DEF InCharge
    <3> SUFFICES ASSUME sweep[s].pc \notin {"idle", "prune"} PROVE SweepInv(s)'
      BY <2>1, <3>1, Zenon DEF SweepInv
    <3>2. sweep[s].e.fence \in 1..fences
      BY <3>1, Zenon DEF SweepInv
    <3>3. sweep[s].e.fence \in 1..fences' /\ entry'.fence # sweep[s].e.fence
      <4>1. fences' = fences + 1 /\ entry'.fence = fences + 1
        BY <2>1, <2>2, Zenon
      <4> QED
        BY <1>0, <3>2, <4>1, SMTT(30)
    <3>4. Backed(sweep[s].e.fence)'
      BY <3>3, <2>1, <2>2, Zenon DEF Backed
    <3> QED
      BY <3>1, <3>3, <3>4, <2>1, Zenon DEF SweepInv
  <2>6. MarkerInv'
    BY <1>0, <2>1, <2>2 DEF InCharge, MarkerInv, Backed
  <2>7. OwnedInv'
    BY <2>1, <2>2, Zenon DEF OwnedInv, Owned
  <2> QED
    BY <2>1, <2>3, <2>4, <2>5, <2>6, <2>7, Zenon DEF InCharge
<1> QED
  BY <1>1, <1>2, Zenon

\* Every step of a consumer keeps the working set in charge, as long as no running
\* consumer's heartbeat lapses.
LEMMA ConsumerOwns ==
    ASSUME NEW c \in Consumers, TypeOK, InCharge,
           \/ Work(c) \/ Lapse(c) \/ Crash(c) \/ Redeliver(c) \/ CompleteError(c)
           \/ \E r \in Records, landed \in BOOLEAN : DispatchError(c, r, landed)
    PROVE  InCharge'
<1>1. ASSUME NEW r \in Records, Dispatch(c, r) PROVE InCharge'
  BY <1>1, ClaimOwns, Zenon DEF Dispatch
<1>2. ASSUME NEW r \in Records, NEW landed \in BOOLEAN, DispatchError(c, r, landed)
      PROVE InCharge'
  <2>1. CASE landed
    BY <1>2, <2>1, ClaimOwns, Zenon DEF DispatchError
  <2>2. CASE ~landed
    <3>1. UNCHANGED <<up, live, pending, entry, indexed, fences, task, sweep, applied, expired, marker>>
      BY <1>2, <2>2, Zenon DEF DispatchError
    <3> QED
      BY <3>1, ChargeFrame, Zenon
  <2> QED
    BY <2>1, <2>2, Zenon
<1>3. ASSUME NEW r \in Records, DispatchDuplicate(c, r) PROVE InCharge'
  <2>0. c \in live /\ c # NoOwner
    BY <1>3, SuperFetchAssumption, Zenon DEF DispatchDuplicate, InCharge
  <2>1. applied \/ entry.owner = c
    BY <1>3, Zenon DEF DispatchDuplicate, InCharge, TaskInv, TypeOK, Tasks
  <2>2. UNCHANGED <<up, live, entry, indexed, fences, task, sweep, applied, expired, marker>>
    BY <1>3, Zenon DEF DispatchDuplicate
  <2>3. entry.owner = c => entry # NoEntry
    BY <2>0 DEF NoEntry
  <2>4. ASSUME NEW s \in Sweepers PROVE SweepInv(s)'
    BY <2>0, <2>1, <2>2, <2>3, Zenon DEF InCharge, SweepInv, Backed
  <2>5. MarkerInv'
    BY <2>0, <2>1, <2>2, <2>3, Zenon DEF InCharge, MarkerInv, Backed
  <2>6. OwnedInv'
    BY <2>1, <2>2, <2>3, Zenon DEF InCharge, EntryInv, OwnedInv, Owned
  <2> QED
    BY <2>2, <2>4, <2>5, <2>6, Zenon DEF InCharge, EntryInv, TaskInv
<1>4. CASE Commit(c)
  BY <1>4, Zenon DEF Commit, InCharge, EntryInv, TaskInv, SweepInv, MarkerInv, OwnedInv, Owned, Backed
<1>5. CASE Redeliver(c)
  <2>1. pending' # {}
    BY <1>5, Zenon DEF Redeliver
  <2> QED
    BY <1>5, <2>1, Zenon DEF Redeliver, InCharge, EntryInv, TaskInv, SweepInv, MarkerInv, OwnedInv, Owned,
                      Backed
<1>6. CASE Perform(c) \/ Apply(c) \/ CompleteError(c)
  <2>1. ASSUME NEW d \in Consumers PROVE TaskInv(d)'
    BY <1>6 DEF Perform, Apply, CompleteError, InCharge, TaskInv, TypeOK, Tasks, NoTask
  <2>2. /\ UNCHANGED <<up, live, pending, entry, indexed, fences, sweep, marker, expired>>
        /\ applied => applied'
    BY <1>6 DEF Perform, Apply, CompleteError
  <2> QED
    BY <2>1, <2>2, Zenon DEF InCharge, EntryInv, SweepInv, MarkerInv, OwnedInv, Owned, Backed
<1>7. CASE Complete(c)
  <2>1. UNCHANGED <<up, live, pending, fences, sweep, marker, applied, expired>> /\ applied
    BY <1>7, Zenon DEF Complete, InCharge, TaskInv
  <2>2. \/ entry' = entry /\ entry # NoEntry /\ indexed' = indexed
        \/ entry' = NoEntry /\ ~indexed'
    BY <1>7, Zenon DEF Complete, InCharge, TypeOK
  <2>3. NoEntry.owner = NoOwner /\ NoEntry.fence = 0 /\ fences \in Nat
    BY SuperFetchAssumption DEF NoEntry, TypeOK
  <2>4. EntryInv'
    BY <2>1, <2>2, <2>3 DEF InCharge, EntryInv
  <2>5. ASSUME NEW d \in Consumers PROVE TaskInv(d)'
    <3>1. CASE d = c
      <4>1. task'[d] = NoTask
        BY <1>7, <3>1, Zenon DEF Complete, TypeOK
      <4> QED
        BY <4>1, <2>1, SMTT(20) DEF TaskInv, NoTask
    <3>2. CASE d # c
      <4>1. task'[d] = task[d] /\ TaskInv(d)
        BY <1>7, <3>2, Zenon DEF Complete, InCharge, TypeOK
      <4>2. task[d].pc \in {"perform", "apply"} => entry'.owner = d /\ entry'.fence = task[d].fence
        BY <1>7, <3>2, <4>1, Zenon DEF Complete, TaskInv
      <4> QED
        BY <2>1, <4>1, <4>2, Zenon DEF TaskInv
    <3> QED
      BY <3>1, <3>2, Zenon
  <2>6. ASSUME NEW s \in Sweepers PROVE SweepInv(s)'
    <3>1. SweepInv(s)
      BY Zenon DEF InCharge
    <3>2. applied' /\ UNCHANGED <<live, fences, sweep, expired>>
      BY <2>1, Zenon
    <3>3. CASE entry' = entry
      BY <3>1, <3>2, <3>3, Zenon DEF SweepInv, Backed
    <3>4. CASE entry' = NoEntry
      <4>1. sweep[s].pc \notin {"idle", "prune"} => sweep[s].e.fence # 0
        BY <2>3, <3>1, SweepFence, Zenon
      <4> QED
        BY <2>3, <3>1, <3>2, <3>4, <4>1, Zenon DEF SweepInv, Backed
    <3> QED
      BY <2>2, <3>3, <3>4, Zenon
  <2>7. MarkerInv'
    BY <2>1, <2>2, <2>3, Zenon DEF InCharge, MarkerInv, Backed
  <2> QED
    BY <2>1, <2>2, <2>4, <2>5, <2>6, <2>7, Zenon DEF InCharge, OwnedInv, Owned
<1>8. CASE TouchConsumer(c)
  BY <1>8, Zenon DEF TouchConsumer, InCharge
<1>9. CASE Lapse(c)
  BY <1>9, Zenon DEF Lapse, InCharge, EntryInv, TaskInv, SweepInv, MarkerInv, OwnedInv, Owned, Backed
<1>10. CASE Crash(c)
  <2>1. ASSUME NEW d \in Consumers PROVE TaskInv(d)'
    BY <1>10, Zenon DEF Crash, InCharge, TaskInv, TypeOK, NoTask
  <2>2. UNCHANGED <<live, entry, indexed, fences, sweep, marker, applied, expired>>
        /\ up' \subseteq up /\ (pending # {} => pending' # {})
    BY <1>10, Zenon DEF Crash
  <2> QED
    BY <2>1, <2>2, Zenon DEF InCharge, EntryInv, SweepInv, MarkerInv, OwnedInv, Owned, Backed
<1> QED
  BY <1>1, <1>2, <1>3, <1>4, <1>5, <1>6, <1>7, <1>8, <1>9, <1>10, Zenon DEF Work

\* Every step of a sweeper keeps the working set in charge: it deletes an entry
\* only after it has produced its job again, and its fence keeps it off another
\* generation's.
LEMMA SweeperOwns ==
    ASSUME NEW s \in Sweepers, TypeOK, InCharge,
           \/ Sweep(s) \/ SwMarkError(s) \/ SwFinishError(s) \/ SwCrash(s)
           \/ \E durable \in BOOLEAN : SwProduceError(s, durable)
    PROVE  InCharge'
<1>0. SweepInv(s) /\ sweep[s] \in Sweeps /\ entry.fence \in Nat /\ fences \in Nat /\ marker \in Nat
  BY DEF InCharge, TypeOK, Entries
<1>1. CASE SwGet(s)
  <2>1. sweep'[s] = [pc |-> "exists", e |-> entry]
    BY <1>1, Zenon DEF SwGet, TypeOK
  <2>2. entry # NoEntry
    BY <1>1 DEF SwGet, NoEntry
  <2>3. SweepInv(s)'
    <3>1. entry.fence \in 1..fences /\ entry.aged
      BY <1>0, <1>1, <2>2 DEF SwGet, InCharge, EntryInv
    <3>2. entry' = entry /\ fences' = fences
      BY <1>1, Zenon DEF SwGet, sweepOnly
    <3>3. sweep'[s].pc = "exists"
      BY <2>1, PlaceFields, SMTT(20)
    <3>6. sweep'[s].e = entry
      BY <2>1, PlaceFields, SMTT(30)
    <3>4. sweep'[s].e.fence \in 1..fences' /\ entry'.owner = sweep'[s].e.owner
      BY <3>1, <3>2, <3>6, Zenon
    <3>5. entry'.aged
      BY <1>1, Zenon DEF SwGet, sweepOnly
    <3> QED
      BY <3>3, <3>4, <3>5, Zenon DEF SweepInv
  <2> QED
    BY <1>1, <2>3, SweepFrame, Zenon DEF SwGet, sweepOnly, TypeOK
<1>2. CASE SwExists(s) \/ SwBegin(s) \/ SwMarkError(s) \/ SwFinishError(s) \/ SwCrash(s)
  <2>1. \/ Go(s, "idle")
        \/ sweep[s].pc = "exists" /\ Go(s, "begin") /\ sweep[s].e.owner \notin live
        \/ sweep[s].pc = "begin" /\ Go(s, "check")
        \/ sweep[s].pc = "mark" /\ Go(s, "finish")
    BY <1>2, Zenon DEF SwExists, SwBegin, SwMarkError, SwFinishError, SwCrash
  <2>5. \/ sweep'[s].pc = "idle"
        \/ /\ sweep'[s].e = sweep[s].e
           /\ \/ sweep[s].pc = "exists" /\ sweep'[s].pc = "begin" /\ sweep[s].e.owner \notin live
              \/ sweep[s].pc = "begin" /\ sweep'[s].pc = "check"
              \/ sweep[s].pc = "mark" /\ sweep'[s].pc = "finish"
    BY <2>1, GoPlace, Zenon
  <2>2. UNCHANGED <<up, live, pending, entry, indexed, fences, task, applied, expired, marker>>
    BY <1>2, Zenon DEF SwExists, SwBegin, SwMarkError, SwFinishError, SwCrash, sweepOnly
  <2>3. \A t \in Sweepers \ {s} : sweep'[t] = sweep[t]
    BY <2>1, GoPlace, Zenon
  <2>4. SweepInv(s)'
    <3>1. CASE sweep'[s].pc = "idle"
      BY <3>1, Zenon DEF SweepInv
    <3>2. CASE sweep'[s].pc # "idle"
      <4>1. /\ sweep[s].pc \notin {"idle", "prune"} /\ sweep'[s].e = sweep[s].e
            /\ sweep'[s].pc \notin {"idle", "prune"} /\ sweep[s].e.owner \notin live
            /\ sweep'[s].pc \in {"mark", "finish"} => Backed(sweep[s].e.fence)
        BY <1>0, <2>5, <3>2, Zenon DEF SweepInv
      <4> QED
        BY <1>0, <2>2, <4>1, Zenon DEF SweepInv, Backed
    <3> QED
      BY <3>1, <3>2, Zenon
  <2> QED
    BY <2>2, <2>3, <2>4, SweepFrame, Zenon
<1>9. CASE SwMissing(s)
  <2>1. /\ sweep'[s].pc = "prune" /\ \A t \in Sweepers \ {s} : sweep'[t] = sweep[t]
        /\ UNCHANGED sweepOnly
    BY <1>9, GoPlace, Zenon DEF SwMissing
  <2>2. SweepInv(s)'
    <3>1. expired /\ expired' = expired
      BY <1>9, Zenon DEF SwMissing, InCharge, OwnedInv, sweepOnly
    <3> QED
      BY <2>1, <3>1, Zenon DEF SweepInv
  <2> QED
    BY <2>1, <2>2, SweepFrame, Zenon DEF sweepOnly
<1>10. CASE SwPrune(s)
  <2>1. /\ sweep'[s].pc = "idle" /\ \A t \in Sweepers \ {s} : sweep'[t] = sweep[t]
        /\ UNCHANGED <<up, live, pending, entry, fences, task, applied, expired, marker>> /\ ~indexed'
    BY <1>10, GoPlace, Zenon DEF SwPrune
  <2>2. expired
    BY <1>0, <1>10, Zenon DEF SwPrune, SweepInv
  <2>3. ASSUME NEW t \in Sweepers PROVE SweepInv(t)'
    BY <2>1, Zenon DEF InCharge, SweepInv, Backed
  <2>4. ASSUME NEW c \in Consumers PROVE TaskInv(c)'
    BY <2>1, Zenon DEF InCharge, TaskInv
  <2> QED
    BY <2>1, <2>2, <2>3, <2>4, Zenon DEF InCharge, EntryInv, MarkerInv, OwnedInv, Backed
<1>3. CASE SwCheck(s)
  <2>0. sweep[s].pc = "check" /\ \E pc \in {"produce", "finish"} : Go(s, pc)
    BY <1>3, Zenon DEF SwCheck
  <2>1. /\ sweep[s].pc = "check" /\ sweep'[s].e = sweep[s].e
        /\ \A t \in Sweepers \ {s} : sweep'[t] = sweep[t]
    BY <2>0, GoPlace, Zenon
  <2>2. UNCHANGED <<up, live, pending, entry, indexed, fences, task, applied, expired>>
    BY <1>3, Zenon DEF SwCheck
  <2>3. marker' = marker \/ marker' = 0
    BY <1>3, Zenon DEF SwCheck
  <2>4. \/ sweep'[s].pc = "finish" /\ marker = sweep[s].e.fence
        \/ sweep'[s].pc = "produce"
    BY <1>3, GoPlace, Zenon DEF SwCheck
  <2>5. sweep[s].e.fence # 0
    BY <1>0, <2>1, SweepFence, Zenon
  <2>6. SweepInv(s)'
    BY <1>0, <2>1, <2>2, <2>4, <2>5, Zenon DEF InCharge, SweepInv, MarkerInv, Backed
  <2>7. ASSUME NEW t \in Sweepers PROVE SweepInv(t)'
    <3>1. CASE t # s
      BY <2>1, <2>2, <3>1, Zenon DEF InCharge, SweepInv, Backed
    <3> QED
      BY <2>6, <3>1, Zenon
  <2>8. MarkerInv'
    BY <2>2, <2>3, Zenon DEF InCharge, MarkerInv, Backed
  <2> QED
    BY <2>2, <2>7, <2>8, Zenon DEF InCharge, EntryInv, TaskInv, OwnedInv, Owned
<1>4. ASSUME pending' # {}, UNCHANGED <<up, live, entry, indexed, fences, task, applied, expired, marker>>,
             \A t \in Sweepers \ {s} : sweep'[t] = sweep[t],
             \/ sweep'[s].pc = "idle"
             \/ sweep'[s].pc = "mark" /\ sweep[s].pc = "produce" /\ sweep'[s].e = sweep[s].e
      PROVE  InCharge'
  <2>1. ASSUME NEW t \in Sweepers PROVE SweepInv(t)'
    <3>1. CASE t # s
      BY <1>4, <3>1, Zenon DEF InCharge, SweepInv, Backed
    <3>2. CASE t = s
      BY <1>4, <1>0, <3>2, Zenon DEF SweepInv, Backed
    <3> QED
      BY <3>1, <3>2, Zenon
  <2>2. MarkerInv'
    BY <1>4, Zenon DEF InCharge, MarkerInv, Backed
  <2> QED
    BY <1>4, <2>1, <2>2, Zenon DEF InCharge, EntryInv, TaskInv, OwnedInv, Owned
<1>5. CASE SwProduce(s)
  <2>1. /\ sweep'[s].pc = "mark" /\ sweep'[s].e = sweep[s].e
        /\ \A t \in Sweepers \ {s} : sweep'[t] = sweep[t]
    BY <1>5, GoPlace, Zenon DEF SwProduce
  <2> QED
    BY <1>4, <1>5, <2>1, Zenon DEF SwProduce, NewRecord
<1>6. ASSUME NEW durable \in BOOLEAN, SwProduceError(s, durable) PROVE InCharge'
  <2>1. sweep'[s].pc = "idle" /\ \A t \in Sweepers \ {s} : sweep'[t] = sweep[t]
    BY <1>6, GoPlace, Zenon DEF SwProduceError
  <2>2. CASE durable
    <3>1. pending' # {}
      BY <1>6, <2>2, Zenon DEF SwProduceError, NewRecord
    <3> QED
      BY <1>4, <1>6, <2>1, <3>1, Zenon DEF SwProduceError
  <2>3. CASE ~durable
    <3>1. SweepInv(s)'
      BY <2>1, Zenon DEF SweepInv
    <3> QED
      BY <1>6, <2>1, <2>3, <3>1, SweepFrame, Zenon DEF SwProduceError
  <2> QED
    BY <2>2, <2>3, Zenon
<1>7. CASE SwMark(s)
  <2>1. /\ sweep[s].pc = "mark" /\ sweep'[s].e = sweep[s].e /\ sweep'[s].pc = "finish"
        /\ \A t \in Sweepers \ {s} : sweep'[t] = sweep[t]
    BY <1>7, GoPlace, Zenon DEF SwMark
  <2>2. UNCHANGED <<up, live, pending, entry, indexed, fences, task, applied, expired>>
        /\ marker' = sweep[s].e.fence
    BY <1>7, Zenon DEF SwMark
  <2>3. ASSUME NEW t \in Sweepers PROVE SweepInv(t)'
    <3>1. CASE t # s
      BY <2>1, <2>2, <3>1, Zenon DEF InCharge, SweepInv, Backed
    <3>2. CASE t = s
      BY <1>0, <2>1, <2>2, <3>2, Zenon DEF SweepInv, Backed
    <3> QED
      BY <3>1, <3>2, Zenon
  <2>4. MarkerInv'
    <3>1. /\ sweep[s].e.fence \in 1..fences /\ sweep[s].e.owner \notin live /\ Backed(sweep[s].e.fence)
          /\ entry.fence = sweep[s].e.fence => entry.owner = sweep[s].e.owner /\ entry.aged
      BY <1>0, <2>1, Zenon DEF SweepInv
    <3>3. sweep[s].e.fence <= fences
      BY <1>0, <2>1, SweepFence, Zenon
    <3>4. entry' = entry /\ live' = live /\ fences' = fences /\ marker' = sweep[s].e.fence
      BY <2>2, Zenon
    <3>5. Backed(marker)'
      BY <2>2, <3>1, <3>4, Zenon DEF Backed
    <3>6. marker' <= fences'
      BY <3>3, <3>4, Zenon
    <3>8. entry.aged => entry'.aged
      BY <2>2, Zenon
    <3>7. entry'.fence = marker' => entry'.owner \notin live' /\ entry'.aged
      BY <3>1, <3>4, <3>8, Zenon
    <3> QED
      BY <3>5, <3>6, <3>7, Zenon DEF MarkerInv
  <2> QED
    BY <2>2, <2>3, <2>4, Zenon DEF InCharge, EntryInv, TaskInv, OwnedInv, Owned
<1>8. CASE SwFinish(s)
  <2> DEFINE f == sweep[s].e.fence
  <2>1. /\ sweep[s].pc = "finish" /\ sweep'[s].pc = "idle"
        /\ \A t \in Sweepers \ {s} : sweep'[t] = sweep[t]
        /\ UNCHANGED <<up, live, pending, fences, task, applied, expired>>
    BY <1>8, GoPlace, Zenon DEF SwFinish
  <2>2. CASE entry # NoEntry /\ entry.fence # f
    <3>1. entry' = entry /\ marker' = marker /\ indexed' = indexed
      BY <1>8, <2>2, Zenon DEF SwFinish, TypeOK
    <3>2. SweepInv(s)'
      BY <2>1, Zenon DEF SweepInv
    <3> QED
      BY <2>1, <3>1, <3>2, SweepFrame, Zenon
  <2>3. CASE ~(entry # NoEntry /\ entry.fence # f)
    <3>1. entry' = NoEntry /\ marker' = 0 /\ ~indexed'
      BY <1>8, <2>3, Zenon DEF SwFinish
    <3>2. expired \/ applied \/ pending # {}
      BY <1>0, <2>1, <2>3, Zenon DEF SweepInv, Backed
    <3>3. NoEntry.owner = NoOwner /\ NoEntry.fence = 0
      BY Zenon DEF NoEntry
    <3>4. EntryInv'
      <4>1. entry'.fence = 0 /\ fences' \in Nat
        BY <1>0, <2>1, <3>1, <3>3, Zenon
      <4> QED
        BY <3>1, <4>1 DEF EntryInv
    <3>5. f # 0 /\ sweep[s].e.owner \notin live /\ (entry.fence = f => entry.owner = sweep[s].e.owner)
      <4>1. f # 0
        BY <1>0, <2>1, SweepFence, Zenon
      <4> QED
        BY <1>0, <2>1, <4>1, Zenon DEF SweepInv
    <3>6. entry.owner \notin up
      <4>1. CASE entry = NoEntry
        BY <3>3, <4>1, SuperFetchAssumption, Zenon DEF TypeOK
      <4>2. CASE entry.fence = f
        BY <3>5, <4>2, Zenon DEF InCharge
      <4> QED
        BY <2>3, <4>1, <4>2, Zenon
    <3>7. ASSUME NEW c \in Consumers PROVE TaskInv(c)'
      <4>1. TaskInv(c)
        BY Zenon DEF InCharge
      <4> QED
        BY <2>1, <3>6, <4>1, Zenon DEF TaskInv
    <3>8. ASSUME NEW t \in Sweepers PROVE SweepInv(t)'
      <4>1. CASE t # s
        <5>1. SweepInv(t) /\ sweep'[t] = sweep[t]
          BY <2>1, <4>1, Zenon DEF InCharge
        <5>2. entry'.fence = 0 /\ (expired' \/ applied' \/ pending' # {})
          BY <2>1, <3>1, <3>2, <3>3, Zenon
        <5>3. fences' = fences /\ live' = live /\ expired' = expired
          BY <2>1, Zenon
        <5>4. sweep[t].pc \notin {"idle", "prune"} => sweep[t].e.fence # 0
          BY <1>0, <5>1, SweepFence, Zenon
        <5> QED
          BY <5>1, <5>2, <5>3, <5>4, Zenon DEF SweepInv, Backed
      <4>2. CASE t = s
        BY <2>1, <4>2, Zenon DEF SweepInv
      <4> QED
        BY <4>1, <4>2, Zenon
    <3> QED
      BY <2>1, <3>1, <3>2, <3>4, <3>7, <3>8, Zenon DEF InCharge, MarkerInv, OwnedInv, Owned
  <2> QED
    BY <2>2, <2>3, Zenon
<1> QED
  BY <1>1, <1>2, <1>3, <1>5, <1>6, <1>7, <1>8, <1>9, <1>10, Zenon DEF Sweep

\* Time keeps the working set in charge: an entry comes of age, a reclaim lock
\* expires, and the lease that runs out is of an entry nobody performs.
LEMMA TimeOwns ==
    ASSUME TypeOK, InCharge, Age \/ LockExpires \/ LeaseEnds \/ UNCHANGED vars
    PROVE  InCharge'
<1>1. CASE Age
  <2>1. /\ entry'.owner = entry.owner /\ entry'.fence = entry.fence /\ entry'.aged
        /\ entry # NoEntry /\ entry' # NoEntry
    BY <1>1, Zenon DEF Age, TypeOK, Entries, NoEntry
  <2> QED
    BY <1>1, <2>1, Zenon DEF Age, InCharge, EntryInv, TaskInv, SweepInv, MarkerInv, OwnedInv, Owned, Backed
<1>2. CASE LockExpires \/ UNCHANGED vars
  <2>1. UNCHANGED <<up, live, pending, entry, indexed, fences, task, sweep, applied, expired, marker>>
    BY <1>2, Zenon DEF LockExpires, vars
  <2> QED
    BY <2>1, ChargeFrame, Zenon
<1>3. CASE LeaseEnds
  <2>1. /\ UNCHANGED <<up, live, fences, task, sweep, marker, applied>>
        /\ entry' = NoEntry /\ expired'
    BY <1>3, Zenon DEF LeaseEnds
  <2>2. NoEntry.owner = NoOwner /\ NoEntry.fence = 0 /\ fences \in Nat
    BY SuperFetchAssumption DEF NoEntry, TypeOK
  <2>3. EntryInv'
    <3>1. entry'.fence = 0 /\ fences' \in Nat
      BY <2>1, <2>2, Zenon
    <3> QED
      BY <2>1, <3>1 DEF EntryInv
  <2>4. ASSUME NEW c \in Consumers PROVE TaskInv(c)'
    <3>1. TaskInv(c)
      BY Zenon DEF InCharge
    <3>2. task[c].pc \notin {"perform", "apply"}
      BY <1>3, <3>1, Zenon DEF LeaseEnds, Unrenewed, TaskInv
    <3> QED
      BY <2>1, <3>1, <3>2, Zenon DEF TaskInv
  <2>5. ASSUME NEW s \in Sweepers PROVE SweepInv(s)'
    <3>1. SweepInv(s)
      BY Zenon DEF InCharge
    <3>2. sweep[s].pc \notin {"idle", "prune"} => sweep[s].e.fence # 0
      BY <2>2, <3>1, SweepFence, Zenon
    <3> QED
      BY <2>1, <2>2, <3>1, <3>2, Zenon DEF SweepInv, Backed
  <2>6. MarkerInv'
    BY <2>1, <2>2, Zenon DEF InCharge, MarkerInv, Backed
  <2> QED
    BY <2>1, <2>3, <2>4, <2>5, <2>6, Zenon DEF InCharge, OwnedInv
<1> QED
  BY <1>1, <1>2, <1>3, Zenon

\* No step forgets that a heartbeat or a lease lapsed too early.
LEMMA LateStays ==
    ASSUME late, [Next]_vars
    PROVE  late'
<1>1. ASSUME NEW c \in Consumers,
             \/ Work(c) \/ Lapse(c) \/ Crash(c) \/ Stall(c) \/ Redeliver(c) \/ CompleteError(c)
             \/ \E r \in Records, landed \in BOOLEAN : DispatchError(c, r, landed)
      PROVE  late'
  BY <1>1, Zenon DEF Work, Dispatch, DispatchDuplicate, Commit, Perform, Apply, Complete, TouchConsumer,
     Lapse, Crash, Stall, Redeliver, CompleteError, DispatchError
<1>2. ASSUME NEW s \in Sweepers,
             \/ Sweep(s) \/ SwMarkError(s) \/ SwFinishError(s) \/ SwCrash(s)
             \/ \E durable \in BOOLEAN : SwProduceError(s, durable)
      PROVE  late'
  BY <1>2, Zenon DEF Sweep, SwGet, SwMissing, SwPrune, SwExists, SwBegin, SwCheck, SwProduce, SwMark,
     SwFinish, SwMarkError, SwFinishError, SwCrash, SwProduceError, sweepOnly
<1>3. ASSUME Age \/ LockExpires \/ LeaseEnds \/ LeaseLost \/ UNCHANGED vars PROVE late'
  BY <1>3, Zenon DEF Age, LockExpires, LeaseEnds, LeaseLost, vars
<1> QED
  BY <1>1, <1>2, <1>3, Zenon DEF Next

\* The working set stays in charge of the job, until a heartbeat or a lease lapses
\* that its consumer kept.
LEMMA OwnershipHolds == Spec => []OwnershipInv
<1>1. Init => OwnershipInv
  <2> SUFFICES ASSUME Init PROVE InCharge
    BY Zenon DEF OwnershipInv
  <2>1. EntryInv /\ MarkerInv /\ OwnedInv
    BY SuperFetchAssumption DEF Init, EntryInv, MarkerInv, OwnedInv, Owned, NoEntry
  <2>2. \A c \in Consumers : TaskInv(c)
    BY Zenon DEF Init, TaskInv, NoTask
  <2>3. \A s \in Sweepers : SweepInv(s)
    BY Zenon DEF Init, SweepInv, Resting
  <2> QED
    BY <2>1, <2>2, <2>3, Zenon DEF Init, InCharge
<1>2. TypeOK /\ OwnershipInv /\ [Next]_vars => OwnershipInv'
  <2> SUFFICES ASSUME TypeOK, OwnershipInv, [Next]_vars PROVE OwnershipInv'
    BY Zenon
  <2>1. CASE late
    BY <2>1, LateStays, Zenon DEF OwnershipInv
  <2>2. CASE InCharge
    <3>1. ASSUME LeaseLost \/ \E c \in Consumers : Stall(c) PROVE late'
      BY <3>1, Zenon DEF LeaseLost, Stall
    <3> QED
      BY <2>2, <3>1, TimeOwns, ConsumerOwns, SweeperOwns, Zenon DEF Next, OwnershipInv
  <2> QED
    BY <2>1, <2>2, Zenon DEF OwnershipInv
<1> QED
  BY <1>1, <1>2, SuperFetchTypeCorrect, PTL DEF Spec

\* Redis owns the job before Kafka forgets it: whatever consumers and sweepers
\* crash, whatever claims, produces, markers, finishes and completes fail and
\* whatever is redelivered, a job without outcome has a record to deliver or an
\* entry a sweep finds, until its lease runs out or a running consumer's heartbeat
\* lapses.
THEOREM RedisAlwaysOwns == Spec => []RedisOwns
<1>1. OwnershipInv => RedisOwns
  BY Zenon DEF OwnershipInv, InCharge, OwnedInv, RedisOwns
<1> QED
  BY <1>1, OwnershipHolds, PTL

\* No two running consumers perform the job at once, as long as consumers keep
\* their heartbeats and leases; unrenewed leases may run out meanwhile.
THEOREM OneAtATime == Spec => []OnePerformer
<1>1. TypeOK /\ OwnershipInv => OnePerformer
  <2> SUFFICES ASSUME TypeOK, InCharge, NEW c \in up, NEW d \in up,
                      task[c].pc \in {"perform", "apply"}, task[d].pc \in {"perform", "apply"}
               PROVE  c = d
    BY Zenon DEF OwnershipInv, OnePerformer
  <2>1. entry.owner = c /\ entry.owner = d
    BY Zenon DEF InCharge, TaskInv, TypeOK
  <2> QED
    BY <2>1, Zenon
<1> QED
  BY <1>1, OwnershipHolds, SuperFetchTypeCorrect, PTL

-----------------------------------------------------------------------------
(* A running owner is at work *)

\* The strengthening that makes OwnerWorks inductive: a task that completes has
\* been applied, and the entry's running owner has a task, if it knows of its claim.
WorksInv ==
    /\ \A c \in Consumers : task[c].pc = "complete" => applied
    /\ entry.owner \in up /\ ~applied /\ entry.fence \notin unanswered
         => task[entry.owner].pc # "none"

\* Every step keeps WorksInv.
LEMMA StepWorks ==
    ASSUME TypeOK, WorksInv, [Next]_vars
    PROVE  WorksInv'
<1>0. /\ NoOwner \notin up /\ up \subseteq Consumers
      /\ NoEntry.owner = NoOwner /\ NoTask.pc = "none"
      /\ task \in [Consumers -> Tasks]
  BY SuperFetchAssumption, Zenon DEF TypeOK, NoEntry, NoTask, Tasks
<1>1. ASSUME NEW c \in Consumers, NEW r \in Records, Dispatch(c, r) PROVE WorksInv'
  <2>1. CASE Held(c)
    BY <1>0, <1>1, <2>1, Zenon DEF Dispatch, ClaimScript, Claimed, WorksInv
  <2>2. CASE ~Held(c)
    <3>1. entry'.owner = c /\ task' = [task EXCEPT ![c] = [pc |-> "perform", fence |-> Claimed(c).fence]]
      BY <1>1, <2>2, Zenon DEF Dispatch, ClaimScript, Claimed
    <3>2. task'[c].pc = "perform" /\ \A d \in Consumers : d # c => task'[d] = task[d]
      BY <1>0, <3>1, Zenon
    <3>3. applied' = applied
      BY <1>1, Zenon DEF Dispatch
    <3> QED
      BY <3>1, <3>2, <3>3, Zenon DEF WorksInv
  <2> QED
    BY <2>1, <2>2, Zenon
<1>2. ASSUME NEW c \in Consumers, Perform(c) \/ Apply(c) PROVE WorksInv'
  <2>1. /\ entry' = entry /\ up' = up /\ unanswered' = unanswered /\ (applied => applied')
        /\ \A d \in Consumers : d # c => task'[d] = task[d]
        /\ task'[c].pc = "apply" \/ (task'[c].pc = "complete" /\ applied')
    <3>1. task[c] \in Tasks
      BY <1>0, Zenon
    <3>2. [task[c] EXCEPT !.pc = "apply"].pc = "apply" /\ [task[c] EXCEPT !.pc = "complete"].pc = "complete"
      BY <3>1, Zenon DEF Tasks
    <3>3. CASE Perform(c)
      BY <1>0, <3>2, <3>3, Zenon DEF Perform
    <3>4. CASE Apply(c)
      BY <1>0, <3>2, <3>4, Zenon DEF Apply
    <3> QED
      BY <1>2, <3>3, <3>4, Zenon
  <2> QED
    BY <1>0, <2>1, Zenon DEF WorksInv
<1>3. ASSUME NEW c \in Consumers, Complete(c) \/ CompleteError(c) PROVE WorksInv'
  <2>1. applied /\ applied' = applied
    BY <1>3, Zenon DEF Complete, CompleteError, WorksInv
  <2> QED
    BY <2>1, Zenon DEF WorksInv
<1>4. ASSUME NEW c \in Consumers, Crash(c) PROVE WorksInv'
  <2>1. /\ entry' = entry /\ up' = up \ {c} /\ UNCHANGED <<applied, unanswered>>
        /\ \A d \in Consumers : d # c => task'[d] = task[d]
        /\ task'[c].pc = "none"
    BY <1>0, <1>4, Zenon DEF Crash
  <2> QED
    BY <1>0, <2>1, Zenon DEF WorksInv
<1>5. ASSUME NEW s \in Sweepers, SwFinish(s) PROVE WorksInv'
  <2>1. entry' \in {entry, NoEntry} /\ UNCHANGED <<up, task, applied, unanswered>>
    BY <1>5, Zenon DEF SwFinish
  <2> QED
    BY <1>0, <2>1, Zenon DEF WorksInv
<1>6. CASE Age
  <2>1. entry'.owner = entry.owner /\ entry'.fence = entry.fence /\ UNCHANGED <<up, task, applied, unanswered>>
    BY <1>6, Zenon DEF Age, TypeOK, Entries
  <2> QED
    BY <2>1, Zenon DEF WorksInv
<1>7. CASE UNCHANGED <<up, entry, task, applied, unanswered>>
  BY <1>7, Zenon DEF WorksInv
<1>8. ASSUME NEW c \in Consumers, Work(c) PROVE WorksInv'
  <2>1. \/ \E r \in Records : Dispatch(c, r)
        \/ Perform(c) \/ Apply(c) \/ Complete(c) \/ UNCHANGED <<up, entry, task, applied, unanswered>>
    BY <1>8, Zenon DEF Work, DispatchDuplicate, Commit, TouchConsumer
  <2> QED
    BY <2>1, <1>1, <1>2, <1>3, <1>7, Zenon
<1>9. ASSUME NEW s \in Sweepers,
             \/ Sweep(s) \/ SwMarkError(s) \/ SwFinishError(s) \/ SwCrash(s)
             \/ \E durable \in BOOLEAN : SwProduceError(s, durable)
      PROVE  WorksInv'
  <2>1. SwFinish(s) \/ UNCHANGED <<up, entry, task, applied, unanswered>>
    BY <1>9, Zenon DEF Sweep, SwGet, SwMissing, SwPrune, SwExists, SwBegin, SwCheck, SwProduce, SwMark, SwMarkError,
                SwFinishError, SwCrash, SwProduceError, sweepOnly
  <2> QED
    BY <2>1, <1>5, <1>7, Zenon
<1>10. ASSUME NEW c \in Consumers, NEW r \in Records, NEW landed \in BOOLEAN, DispatchError(c, r, landed)
       PROVE  WorksInv'
  <2>1. CASE landed /\ ~Held(c)
    <3>1. entry' = Claimed(c) /\ unanswered' = unanswered \cup {Claimed(c).fence}
      BY <1>10, <2>1, Zenon DEF DispatchError, ClaimScript
    <3>2. entry'.fence \in unanswered' /\ UNCHANGED <<up, task, applied>>
      BY <1>10, <3>1, Zenon DEF DispatchError
    <3> QED
      BY <3>2, Zenon DEF WorksInv
  <2>2. CASE ~(landed /\ ~Held(c))
    BY <1>7, <1>10, <2>2, Zenon DEF DispatchError, ClaimScript, Claimed
  <2> QED
    BY <2>1, <2>2, Zenon
<1>11. ASSUME NEW c \in Consumers, Lapse(c) \/ Stall(c) \/ Redeliver(c) PROVE WorksInv'
  BY <1>11, <1>7, Zenon DEF Lapse, Stall, Redeliver
<1>12. CASE LockExpires \/ UNCHANGED vars
  BY <1>12, <1>7, Zenon DEF LockExpires, vars
<1>13. CASE LeaseEnds \/ LeaseLost
  <2>1. entry' = NoEntry /\ UNCHANGED <<up, task, applied>>
    BY <1>13, Zenon DEF LeaseEnds, LeaseLost
  <2> QED
    BY <1>0, <2>1, Zenon DEF WorksInv
<1> QED
  BY <1>3, <1>4, <1>6, <1>8, <1>9, <1>10, <1>11, <1>12, <1>13, Zenon DEF Next

\* An entry of a running consumer is one that consumer is at work on, stalls,
\* steals, reclaims, expiries and crashes included, unless its claim landed and the
\* answer was lost.
THEOREM OwnerAlwaysWorks == Spec => []OwnerWorks
<1>1. Init => WorksInv
  BY SuperFetchAssumption DEF Init, WorksInv, NoEntry, NoTask
<1>2. TypeOK /\ WorksInv /\ [Next]_vars => WorksInv'
  BY StepWorks, Zenon
<1>3. WorksInv => OwnerWorks
  BY SMTT(30) DEF WorksInv, OwnerWorks, NoTask
<1> QED
  BY <1>1, <1>2, <1>3, SuperFetchTypeCorrect, PTL DEF Spec

-----------------------------------------------------------------------------
(* When a lease does run out, for every setting of the timers: the floors  *)
(* of NewSuperFetchExecutor and floorLeaseTTL leave out the renewal        *)
(* interval.                                                               *)

\* The lease and the renewal interval are positive numbers, a claim's lease is at
\* least the executor's, and the renewal interval is shorter than the lease
\* (NewSuperFetchExecutor, floorLeaseTTL, startRenewLoop).
LEMMA LeaseNumbers ==
    ASSUME LeaseSettings
    PROVE  /\ LeaseTTL \in Nat /\ ClaimTTL \in Nat /\ LeaseTTL <= ClaimTTL
           /\ RenewEvery \in Nat \ {0} /\ RenewEvery < LeaseTTL
<1>1. LeaseTTL \in Nat \ {0} /\ MinRenew < LeaseTTL
  BY DEF LeaseSettings, LeaseTTL, AtLeast
<1>2. ClaimTTL \in Nat /\ LeaseTTL <= ClaimTTL
  BY <1>1 DEF LeaseSettings, ClaimTTL, AtLeast
<1>3. LeaseTTL \div 3 \in Nat /\ LeaseTTL \div 3 < LeaseTTL
  BY <1>1
<1>4. RenewEvery \in Nat \ {0} /\ RenewEvery < LeaseTTL
  BY <1>1, <1>3 DEF LeaseSettings, RenewEvery, AtLeast
<1> QED
  BY <1>1, <1>2, <1>4, Zenon

\* Every variable keeps its type: no timer step drives a deadline below zero.
THEOREM LeaseTypeCorrect ==
    ASSUME LeaseSettings
    PROVE  LeaseSpec => []LeaseTypeOK
<1> USE LeaseNumbers DEF LeaseSettings
<1>1. LeaseInit => LeaseTypeOK
  BY DEF LeaseInit, LeaseTypeOK
<1>2. LeaseTypeOK /\ [LeaseNext]_leaseVars => LeaseTypeOK'
  <2> SUFFICES ASSUME LeaseTypeOK, [LeaseNext]_leaseVars PROVE LeaseTypeOK'
    BY Zenon
  <2>1. CASE Renew
    BY <2>1 DEF Renew, LeaseTypeOK
  <2>2. CASE LeaseTouchConsumer
    BY <2>2 DEF LeaseTouchConsumer, LeaseTypeOK
  <2>3. CASE LeaseComplete
    BY <2>3, Zenon DEF LeaseComplete, LeaseTypeOK
  <2>4. CASE LeaseCrash
    <3>1. left' \in Int
      BY <2>4 DEF LeaseCrash, LeaseTypeOK
    <3> QED
      BY <2>4, <3>1, Zenon DEF LeaseCrash, LeaseTypeOK
  <2>5. CASE ReclaimOrphans
    <3>1. status' \in {"held", "completed", "reclaimed", "lost"}
      BY <2>5, Zenon DEF ReclaimOrphans, LeaseTypeOK
    <3> QED
      BY <2>5, <3>1 DEF ReclaimOrphans, LeaseTypeOK
  <2>6. CASE Tick
    BY <2>6 DEF Tick, LeaseTypeOK
  <2>7. CASE UNCHANGED leaseVars
    BY <2>7, Zenon DEF leaseVars, LeaseTypeOK
  <2> QED
    BY <2>1, <2>2, <2>3, <2>4, <2>5, <2>6, <2>7, Zenon DEF LeaseNext
<1> QED
  BY <1>1, <1>2, PTL DEF LeaseSpec

\* Whatever the settings, no sweep of the reclaim scheduler finds a running
\* consumer's index entry without its payload; and a dead consumer's only if less
\* of the lease was left at its death than its heartbeat (or the grace) and one
\* sweep interval take.
THEOREM LeaseLostOnlyLate ==
    ASSUME LeaseSettings
    PROVE  LeaseSpec => []LostOnlyLate
<1> DEFINE D == AtLeast(HeartbeatTTL, Grace)
<1> USE LeaseNumbers DEF LeaseSettings
<1>0. D \in Nat /\ HeartbeatTTL <= D /\ Grace <= D /\ D > 0 /\ Detection = D + ReclaimEvery
  BY DEF AtLeast, Detection
<1>1. LeaseInit => LeaseInv
  <2> SUFFICES ASSUME LeaseInit PROVE LeaseInv
    BY Zenon
  <2>1. Due = D
    BY Zenon DEF LeaseInit, Due
  <2> HIDE DEF D
  <2> QED
    BY <1>0, <2>1 DEF LeaseInit, LeaseInv, LostOnlyLate
<1>2. LeaseTypeOK /\ LeaseInv /\ [LeaseNext]_leaseVars => LeaseInv'
  <2> SUFFICES ASSUME LeaseTypeOK, LeaseInv, [LeaseNext]_leaseVars PROVE LeaseInv'
    BY Zenon
  <2>0. Due \in Nat /\ heartbeat <= Due /\ Grace <= Due
    BY DEF Due, AtLeast, LeaseTypeOK
  <2>8. /\ LostOnlyLate
        /\ status = "held" => nextSweep < Due + ReclaimEvery /\ now <= nextSweep
        /\ status = "held" /\ alive => nextRenew - RenewEvery + LeaseTTL <= expires /\ now <= nextRenew
        /\ status = "held" /\ ~alive => Due <= expires - left + D
        /\ heartbeat <= now + HeartbeatTTL \/ ~alive
    BY Zenon DEF LeaseInv
  <2> HIDE DEF D
  <2>9. ASSUME /\ LostOnlyLate'
               /\ status' = "held" => nextSweep' < Due' + ReclaimEvery /\ now' <= nextSweep'
               /\ status' = "held" /\ alive' => nextRenew' - RenewEvery + LeaseTTL <= expires' /\ now' <= nextRenew'
               /\ status' = "held" /\ ~alive' => Due' <= expires' - left' + D
               /\ heartbeat' <= now' + HeartbeatTTL \/ ~alive'
        PROVE  LeaseInv'
    BY <2>9, Zenon DEF LeaseInv, D
  <2>1. CASE Renew
    <3>1. Due' = Due /\ LostOnlyLate'
      BY <2>1, <2>8, Zenon DEF Renew, Due, LostOnlyLate
    <3>2. status = "held" => expires' = now + LeaseTTL
      BY <2>1, <2>8 DEF Renew, LeaseTypeOK
    <3> QED
      BY <2>0, <2>1, <2>8, <2>9, <3>1, <3>2 DEF Renew, LeaseTypeOK
  <2>2. CASE LeaseTouchConsumer
    <3>1. heartbeat' = now + HeartbeatTTL /\ heartbeat <= heartbeat' /\ LostOnlyLate'
      BY <2>2, <2>8, Zenon DEF LeaseTouchConsumer, LostOnlyLate
    <3>2. Due <= Due'
      BY <2>2, <3>1 DEF Due, AtLeast, LeaseTypeOK
    <3>3. Due' \in Nat
      BY <2>2, <3>1 DEF Due, AtLeast, LeaseTypeOK
    <3>4. status' = "held" => nextSweep' < Due' + ReclaimEvery /\ now' <= nextSweep'
      <4>1. nextSweep' = nextSweep /\ now' = now /\ status' = status
        BY <2>2, Zenon DEF LeaseTouchConsumer
      <4> DEFINE d == Due'
      <4>2. Due <= d /\ d \in Nat
        BY <3>2, <3>3, Zenon
      <4> HIDE DEF d
      <4>3. status = "held" => nextSweep < d + ReclaimEvery
        BY <2>0, <2>8, <4>2 DEF LeaseTypeOK
      <4> QED
        BY <2>8, <4>1, <4>3, Zenon DEF d
    <3>5. UNCHANGED <<now, alive, status, expires, nextRenew>> /\ alive
      BY <2>2, Zenon DEF LeaseTouchConsumer
    <3>6. heartbeat' <= now' + HeartbeatTTL
      BY <3>1, <3>5 DEF LeaseTypeOK
    <3> QED
      BY <2>8, <2>9, <3>1, <3>4, <3>5, <3>6, Zenon
  <2>3. CASE LeaseComplete
    BY <2>3, <2>8, <2>9, Zenon DEF LeaseComplete, LostOnlyLate
  <2>4. CASE LeaseCrash
    <3>1. Due' = Due /\ LostOnlyLate'
      BY <2>4, <2>8, Zenon DEF LeaseCrash, Due, LostOnlyLate
    <3>2. Due <= now + D
      BY <2>4, <2>8, <1>0 DEF LeaseCrash, LeaseTypeOK, Due, AtLeast
    <3>3. expires' - left' = now
      BY <2>4 DEF LeaseCrash, LeaseTypeOK
    <3>4. Due' <= expires' - left' + D
      BY <3>1, <3>2, <3>3, Zenon
    <3> QED
      BY <2>4, <2>8, <2>9, <3>1, <3>4, Zenon DEF LeaseCrash
  <2>5. CASE ReclaimOrphans
    <3>1. Due' = Due
      BY <2>5, Zenon DEF ReclaimOrphans, Due
    <3>2. status = "held" /\ Expired => ~alive
      BY <2>5, <2>8 DEF Expired, LeaseTypeOK
    <3>3. status = "held" /\ Expired => left < Detection
      BY <1>0, <2>0, <2>5, <2>8, <3>2 DEF ReclaimOrphans, Expired, LeaseTypeOK
    <3>4. LostOnlyLate'
      BY <2>5, <2>8, <3>2, <3>3, Zenon DEF ReclaimOrphans, LostOnlyLate
    <3>5. status' = "held" => status = "held" /\ ~Orphaned
      BY <2>5, Zenon DEF ReclaimOrphans, Orphaned
    <3>6. status' = "held" => now < Due
      BY <3>5 DEF Orphaned, Aged, Due, AtLeast, LeaseTypeOK
    <3> QED
      BY <2>0, <2>5, <2>8, <2>9, <3>1, <3>4, <3>5, <3>6 DEF ReclaimOrphans, LeaseTypeOK
  <2>6. CASE Tick
    <3>1. Due' = Due /\ LostOnlyLate'
      BY <2>6, <2>8, Zenon DEF Tick, Due, LostOnlyLate
    <3> QED
      BY <2>0, <2>6, <2>8, <2>9, <3>1 DEF Tick, LeaseTypeOK
  <2>7. CASE UNCHANGED leaseVars
    BY <2>7, <2>8, <2>9, Zenon DEF leaseVars, LostOnlyLate, Due
  <2> QED
    BY <2>1, <2>2, <2>3, <2>4, <2>5, <2>6, <2>7, Zenon DEF LeaseNext
<1>3. LeaseInv => LostOnlyLate
  BY Zenon DEF LeaseInv
<1> QED
  BY <1>1, <1>2, <1>3, LeaseTypeCorrect, PTL DEF LeaseSpec

=============================================================================
