-------------------------- MODULE ClientPushProofs --------------------------
(***************************************************************************)
(* What a push call leaves behind, for any calls, jobs, pollers, chunk     *)
(* size and number of faults: nothing it reports as pushed is lost, a      *)
(* fingerprint is live once, the batch's total covers its jobs and is      *)
(* exact in the end, and no lock is left behind.                           *)
(***************************************************************************)
EXTENDS ClientPush, TLAPS

-----------------------------------------------------------------------------
(* The inductive invariant *)

Places == {"claim", "reserve", "produce", "index", "release", "returned", "failed"}

\* Where a call may still produce what it planned.
Open == {"claim", "reserve", "produce", "index"}

PushCall ==
    [at : Places, todo : SUBSET Jobs, plan : SUBSET Jobs, skipped : BOOLEAN,
     reserved : BOOLEAN, chunk : SUBSET Jobs, rest : SUBSET Jobs, sent : SUBSET Jobs,
     ok : SUBSET Jobs]

PollTypeOK ==
    /\ entry \in [Jobs -> {"none", "pending", "leased", "lapsed"}] /\ due \subseteq Jobs
    /\ topic \in [Jobs -> Nat] /\ dlt \subseteq Jobs /\ dropped \subseteq Jobs
    /\ poll \in [Pollers -> [at : {"idle", "read", "work"}, left : SUBSET Jobs,
                             done : SUBSET Jobs, read : [Jobs -> Reads]]]

ClientTypeOK ==
    /\ settings \in Instances /\ lock \in [Prints -> Jobs \cup {None}]
    /\ push \in [Calls -> PushCall] /\ finished \subseteq Jobs
    /\ doubt \subseteq Jobs /\ lost \in BOOLEAN

\* A poller holds entries of the index, and acks what is settled.
PollInv ==
    \A p \in Pollers : \A j \in Jobs :
        (j \in poll[p].left => Fired(j)) /\ (j \in poll[p].done => Settled(j))

\* What the fields of a call r, made as k, say of each other at each place.
Shape(k, r) ==
    /\ r.plan \subseteq k.jobs /\ r.ok \subseteq r.plan
    /\ r.at = "claim" => r.todo \subseteq k.jobs \ r.plan
    /\ r.at \in {"claim", "reserve"} => r.ok = {} /\ ~r.reserved
    /\ r.at = "reserve" => k.batch
    /\ r.at \in {"produce", "index"} => r.rest = r.plan \ r.ok /\ r.chunk \subseteq r.rest
    /\ r.at \in {"produce", "index"} /\ k.batch => r.reserved
    /\ r.at = "index" => r.sent \subseteq r.chunk
    /\ r.at = "release" => r.todo \subseteq r.plan \ r.ok
    /\ r.at = "returned" => r.ok = r.plan
    /\ r.ok # {} /\ k.batch => r.reserved
    /\ r.reserved => k.batch

\* What was planned and is not flagged is nowhere, if the outcome is not in doubt,
\* save while it is being indexed and after a crash.
Unfired(r) ==
    \A j \in r.plan \ r.ok :
        j \in doubt \/ ~Fired(j) \/ r.at = "failed" \/ (r.at = "index" /\ j \in r.sent)

CallInv ==
    \A c \in Calls :
        /\ Shape(settings.calls[c], push[c])
        /\ Unfired(push[c])
        /\ \A j \in push[c].ok : Fired(j)

\* What is in the index or came out of it was planned, and reserved.
PlannedBy(c, j) == j \in push[c].plan /\ (settings.calls[c].batch => push[c].reserved)
FiredInv ==
    /\ \A j \in Jobs : Fired(j) => \E c \in Calls : PlannedBy(c, j)
    /\ \A j \in finished : topic[j] > 0

\* A job that fired or may yet be produced holds its lock.
Promised(j) == Fired(j) \/ \E c \in Calls : push[c].at \in Open /\ j \in push[c].plan
LockInv == \A j \in Jobs \ (doubt \cup finished) : Promised(j) => lock[Fp(j)] = j

\* A lock is held for a job that may yet be produced or rolled back, or was pushed.
Owed(r, j) ==
    /\ j \in r.plan
    /\ \/ r.at \in Open
       \/ r.at = "release" /\ j \in r.todo
       \/ r.at = "failed" /\ settings.raise
       \/ j \in r.ok
       \/ lost
HeldInv ==
    \A f \in Prints :
        lock[f] # None => /\ Fp(lock[f]) = f /\ lock[f] \notin finished
                          /\ \E c \in Calls : Owed(push[c], lock[f])

\* The jobs the batch's total stands for.
Counted(r, j) ==
    /\ r.reserved /\ j \in r.plan
    /\ r.at # "failed" \/ j \in r.ok \/ Fired(j)
CountedJobs == {j \in Jobs : \E c \in Calls : Counted(push[c], j)}

ClientInv ==
    /\ PollTypeOK /\ ClientTypeOK /\ PollInv /\ CallInv /\ FiredInv /\ LockInv /\ HeldInv

\* What a step does to the total and to the jobs it stands for: both stand, save
\* after a loss; or jobs are added to both; or taken from both.
CountsStand == CountedJobs' \subseteq CountedJobs /\ (lost' \/ CountedJobs' = CountedJobs)
TotalStands == total' = total \/ (lost' /\ \E S \in SUBSET Jobs : total' = total + Cardinality(S))
Adds(S) == /\ total' = total + Cardinality(S)
           /\ CountedJobs' = CountedJobs \cup S /\ CountedJobs \cap S = {}
Removes(S) == /\ total' = total - Cardinality(S)
              /\ doubt = {} => CountedJobs = CountedJobs' \cup S /\ CountedJobs' \cap S = {}
CountStep ==
    /\ doubt \subseteq doubt' /\ (lost => lost')
    /\ (CountsStand /\ TotalStands) \/ \E S \in SUBSET Jobs : Adds(S) \/ Removes(S)

-----------------------------------------------------------------------------
(* The settings and the operators of the model *)

\* What a setting says of a call, and that no job is of two calls.
LEMMA SettingsFacts ==
    ASSUME ClientTypeOK
    PROVE  /\ \A c \in Calls : settings.calls[c] \in CallType
           /\ \A j \in Jobs : Fp(j) \in Prints
           /\ \A c, d \in Calls : \A j :
                j \in settings.calls[c].jobs /\ j \in settings.calls[d].jobs => c = d
           /\ None \notin Jobs
<1>1. settings \in Settings /\ settings \in Instances
  BY ClientPushAssumption, Zenon DEF ClientTypeOK
<1>2. settings.calls \in [Calls -> CallType] /\ settings.fp \in [Jobs -> Prints]
  BY <1>1, Zenon DEF Settings
<1>3. \A c, d \in Calls : c # d => settings.calls[c].jobs \cap settings.calls[d].jobs = {}
  BY <1>1, DistinctJobs, Zenon
<1>4. None \notin Jobs
  BY ClientPushAssumption, Zenon DEF None
<1> QED
  BY <1>2, <1>3, <1>4, Zenon DEF Fp

\* A chunk is taken from what is left to produce.
LEMMA ChunkIs == \A S : ChunkOf(S) \subseteq S
  BY Zenon DEF ChunkOf

\* A call's record is replaced.
LEMMA PushIs ==
    ASSUME NEW c \in Calls, NEW r, push \in [Calls -> PushCall], push' = [push EXCEPT ![c] = r]
    PROVE  push'[c] = r /\ \A d \in Calls : d # c => push'[d] = push[d]
  BY Zenon

\* The call takes up its first chunk.
LEMMA StartedIs ==
    ASSUME NEW x \in PushCall
    PROVE  /\ Started(x) \in PushCall
           /\ Started(x).at = "produce" /\ Started(x).plan = x.plan /\ Started(x).ok = x.ok
           /\ Started(x).reserved = x.reserved /\ Started(x).rest = x.plan
           /\ Started(x).chunk \subseteq x.plan
<1>1. PICK h : h = ChunkOf(x.plan)
  BY Zenon
<1>2. h \subseteq x.plan /\ x.plan \subseteq Jobs
  BY <1>1, ChunkIs, Zenon DEF PushCall
<1>3. Started(x) = [x EXCEPT !.at = "produce", !.chunk = h, !.rest = x.plan]
  BY <1>1, Zenon DEF Started
<1> QED
  BY <1>2, <1>3, ZenonT(30) DEF PushCall, Places

\* The call starts to roll back.
LEMMA RollingBackIs ==
    ASSUME NEW x \in PushCall
    PROVE  LET r == RollingBack(x)
           IN  /\ r \in PushCall /\ r.at = "release" /\ r.todo = x.plan \ x.ok
               /\ r.plan = x.plan /\ r.ok = x.ok /\ r.reserved = x.reserved
  BY Zenon DEF RollingBack, PushCall, Places

\* The flags of a chunk are set: the call goes on, returns, or rolls back.
LEMMA FlaggedIs ==
    ASSUME NEW k \in CallType, NEW x \in PushCall, Shape(k, x), x.at \in {"produce", "index"},
           NEW S, S \subseteq x.chunk, NEW r, r = Flagged(x, S)
    PROVE  /\ r \in PushCall /\ Shape(k, r)
           /\ r.plan = x.plan /\ r.ok = x.ok \cup S /\ r.reserved = x.reserved
           /\ r.at \in {"produce", "returned", "release"}
           /\ r.at = "release" => r.todo = r.plan \ r.ok
<1>1. PICK rest, h, ok : rest = x.rest \ x.chunk /\ h = ChunkOf(rest) /\ ok = x.ok \cup S
  BY Zenon
<1>2. PICK y : y = [x EXCEPT !.ok = ok, !.rest = rest, !.chunk = h, !.sent = {}]
  BY Zenon
<1>3. /\ rest \subseteq Jobs /\ h \subseteq rest /\ ok \subseteq x.plan
      /\ S = x.chunk => rest = x.plan \ ok
      /\ k.batch => x.reserved
  BY <1>1, ChunkIs, Zenon DEF Shape, PushCall
<1>4. /\ y \in PushCall /\ y.plan = x.plan /\ y.ok = ok /\ y.rest = rest /\ y.chunk = h
      /\ y.reserved = x.reserved
  BY <1>2, <1>3, Zenon DEF PushCall
<1>5. Flagged(x, S) = IF S # x.chunk THEN RollingBack(y)
                      ELSE [y EXCEPT !.at = IF rest = {} THEN "returned" ELSE "produce"]
  BY <1>1, <1>2, Zenon DEF Flagged
<1>6. CASE S # x.chunk
  <2>1. r = RollingBack(y)
    BY <1>5, <1>6, Zenon
  <2>2. /\ r \in PushCall /\ r.at = "release" /\ r.todo = x.plan \ ok
        /\ r.plan = x.plan /\ r.ok = ok /\ r.reserved = x.reserved
    BY <1>4, <2>1, RollingBackIs, Zenon
  <2>3. Shape(k, r)
    BY <1>3, <2>2, Zenon DEF Shape
  <2> QED
    BY <1>1, <2>1, <2>2, <2>3, Zenon
<1>7. CASE S = x.chunk
  <2>1. r = [y EXCEPT !.at = IF rest = {} THEN "returned" ELSE "produce"]
    BY <1>5, <1>7, Zenon
  <2>2. /\ r \in PushCall /\ r.at = IF rest = {} THEN "returned" ELSE "produce"
        /\ r.plan = x.plan /\ r.ok = ok /\ r.reserved = x.reserved /\ r.rest = rest /\ r.chunk = h
    BY <1>4, <2>1, Zenon DEF PushCall, Places
  <2>3. Shape(k, r)
    BY <1>3, <1>7, <2>2 DEF Shape
  <2> QED
    BY <1>1, <2>1, <2>2, <2>3, Zenon
<1> QED
  BY <1>6, <1>7, Zenon

-----------------------------------------------------------------------------
(* The pollers: no step of theirs changes what has fired *)

PollerRecs ==
    [at : {"idle", "read", "work"}, left : SUBSET Jobs, done : SUBSET Jobs, read : [Jobs -> Reads]]

\* What a step beside the client's keeps.
IndexKept ==
    /\ PollTypeOK' /\ PollInv'
    /\ \A j \in Jobs : (Fired(j)' <=> Fired(j)) /\ topic[j] <= topic'[j]

\* A poller's tick moves on to q.
LEMMA PollerMoves ==
    ASSUME PollTypeOK, PollInv, NEW p \in Pollers, NEW q \in PollerRecs,
           poll' = [poll EXCEPT ![p] = q], due' = due,
           entry' \in [Jobs -> {"none", "pending", "leased", "lapsed"}],
           topic' \in [Jobs -> Nat], dlt' \subseteq Jobs, dropped' \subseteq Jobs,
           \A j \in Jobs : topic[j] <= topic'[j],
           \A j \in Jobs : (Fired(j)' <=> Fired(j)) /\ (Settled(j) => Settled(j)'),
           \A j \in q.left : Fired(j), \A j \in q.done : Settled(j)'
    PROVE  IndexKept
<1>1. poll \in [Pollers -> PollerRecs]
  BY Zenon DEF PollTypeOK, PollerRecs
<1>2. /\ poll' \in [Pollers -> PollerRecs] /\ poll'[p] = q
      /\ \A o \in Pollers : o # p => poll'[o] = poll[o]
  BY <1>1, Zenon
<1>3. PollTypeOK'
  BY <1>2, Zenon DEF PollTypeOK, PollerRecs
<1>4. PollInv'
  <2> SUFFICES ASSUME NEW o \in Pollers, NEW j \in Jobs
               PROVE  (j \in poll'[o].left => Fired(j)') /\ (j \in poll'[o].done => Settled(j)')
    BY Zenon DEF PollInv
  <2>1. CASE o = p
    BY <1>2, <2>1, Zenon
  <2>2. CASE o # p
    BY <1>2, <2>2, Zenon DEF PollInv
  <2> QED
    BY <2>1, <2>2, Zenon
<1> QED
  BY <1>3, <1>4, Zenon DEF IndexKept

\* A poller deals with one entry: it settles it, or leaves it leased.
LEMMA ItemStep ==
    ASSUME PollTypeOK, PollInv, NEW p \in Pollers, NEW j \in Jobs, j \in poll[p].left,
           UNCHANGED <<entry, due>>,
           topic' = topic \/ topic' = [topic EXCEPT ![j] = @ + 1],
           dlt' = dlt \/ dlt' = dlt \cup {j},
           dropped' = dropped \/ dropped' = dropped \cup {j},
           Leave(p, j) \/ (Settle(p, j) /\ Settled(j)')
    PROVE  IndexKept
<1>1. /\ topic' \in [Jobs -> Nat] /\ dlt' \subseteq Jobs /\ dropped' \subseteq Jobs
      /\ \A i \in Jobs : topic[i] <= topic'[i] /\ (i # j => topic'[i] = topic[i])
  BY DEF PollTypeOK
<1>2. Fired(j)
  BY Zenon DEF PollInv
<1>3. \A i \in Jobs : Settled(i) => Settled(i)'
  BY <1>1 DEF Settled, PollTypeOK
<1>4. \A i \in Jobs : i # j => (Settled(i)' <=> Settled(i))
  BY <1>1 DEF Settled, PollTypeOK
<1>5. \A i \in Jobs : Fired(i)' <=> Fired(i)
  BY <1>2, <1>3, <1>4, Zenon DEF Fired
<1>6. PICK x : x = poll[p] /\ x \in PollerRecs
  BY Zenon DEF PollTypeOK, PollerRecs
<1>7. (\A i \in x.left : Fired(i)) /\ (\A i \in x.done : Settled(i)')
  BY <1>3, <1>6, Zenon DEF PollInv, PollerRecs
<1>8. PICK q \in PollerRecs : /\ poll' = [poll EXCEPT ![p] = q]
                              /\ q.left = x.left \ {j}
                              /\ q.done = x.done \/ (q.done = x.done \cup {j} /\ Settled(j)')
  <2>1. CASE Leave(p, j)
    <3>1. PICK q : q = [x EXCEPT !.left = x.left \ {j}]
      BY Zenon
    <3>2. q \in PollerRecs /\ q.left = x.left \ {j} /\ q.done = x.done
      BY <1>6, <3>1, Zenon DEF PollerRecs
    <3>4. poll' = [poll EXCEPT ![p] = [poll[p] EXCEPT !.left = poll[p].left \ {j}]]
      BY <2>1, Zenon DEF Leave
    <3>3. poll' = [poll EXCEPT ![p] = q]
      BY <1>6, <3>1, <3>4, Zenon
    <3> QED
      BY <3>2, <3>3, Zenon
  <2>2. CASE Settle(p, j) /\ Settled(j)'
    <3>1. PICK q : q = [x EXCEPT !.left = x.left \ {j}, !.done = x.done \cup {j}]
      BY Zenon
    <3>2. q \in PollerRecs /\ q.left = x.left \ {j} /\ q.done = x.done \cup {j}
      BY <1>6, <3>1, Zenon DEF PollerRecs
    <3>4. poll' = [poll EXCEPT ![p] = [poll[p] EXCEPT !.left = poll[p].left \ {j},
                                                      !.done = poll[p].done \cup {j}]]
      BY <2>2, Zenon DEF Settle
    <3>3. poll' = [poll EXCEPT ![p] = q]
      BY <1>6, <3>1, <3>4, Zenon
    <3> QED
      BY <2>2, <3>2, <3>3, Zenon
  <2> QED
    BY <2>1, <2>2, Zenon
<1>9. /\ entry' \in [Jobs -> {"none", "pending", "leased", "lapsed"}]
      /\ \A i \in q.left : Fired(i)
      /\ \A i \in q.done : Settled(i)'
  BY <1>7, <1>8, Zenon DEF PollTypeOK
<1> QED
  BY <1>1, <1>3, <1>5, <1>8, <1>9, PollerMoves, Zenon

\* The fates of the jobs stand: what has fired is told by the entries.
LEMMA FatesStand ==
    ASSUME UNCHANGED fates
    PROVE  /\ UNCHANGED <<topic, dlt, dropped>> /\ \A j \in Jobs : Settled(j)' <=> Settled(j)
           /\ \A j \in Jobs : Fired(j)' <=> entry'[j] # "none" \/ Settled(j)
  BY Zenon DEF fates, Settled, Fired

\* A tick ends with nothing in hand.
LEMMA IdleIs == Idle \in PollerRecs /\ Idle.left = {} /\ Idle.done = {}
  BY Zenon DEF Idle, PollerRecs, Reads

\* The steps of a tick beside those that deal with one entry.
LEMMA TickSteps ==
    ASSUME PollTypeOK, PollInv, NEW p \in Pollers
    PROVE  /\ ClaimDue(p) => IndexKept
           /\ \A read \in [Jobs -> Reads] : Read(p, read) => IndexKept
           /\ ReadError(p) \/ PollerCrash(p) => IndexKept
           /\ \A ok \in BOOLEAN : Ack(p, ok) => IndexKept
<1>0. /\ entry \in [Jobs -> {"none", "pending", "leased", "lapsed"}] /\ topic \in [Jobs -> Nat]
      /\ dlt \subseteq Jobs /\ dropped \subseteq Jobs /\ \A j \in Jobs : topic[j] <= topic[j]
      /\ poll[p] \in PollerRecs
  BY DEF PollTypeOK, PollerRecs
<1>1. ASSUME ClaimDue(p) PROVE IndexKept
  <2>1. PICK S \in SUBSET Claimable :
          /\ entry' = [j \in Jobs |-> IF j \in S THEN "leased" ELSE entry[j]]
          /\ poll' = [poll EXCEPT ![p] = [Idle EXCEPT !.at = "read", !.left = S]]
    BY <1>1, Zenon DEF ClaimDue
  <2>2. /\ due' = due /\ UNCHANGED <<topic, dlt, dropped>>
        /\ \A j \in Jobs : Settled(j)' <=> Settled(j)
        /\ \A j \in Jobs : Fired(j)' <=> entry'[j] # "none" \/ Settled(j)
    BY <1>1, FatesStand, Zenon DEF ClaimDue
  <2>3. S \subseteq Jobs /\ \A j \in S : entry[j] # "none"
    BY <2>1, Zenon DEF Claimable, RedisDue, MysqlDue, PollTypeOK
  <2>4. PICK q : q = [Idle EXCEPT !.at = "read", !.left = S]
    BY Zenon
  <2>5. q \in PollerRecs /\ q.left = S /\ q.done = {}
    BY <2>3, <2>4, IdleIs, Zenon DEF PollerRecs
  <2>6. \A j \in S : Fired(j)
    BY <2>3, Zenon DEF Fired
  <2>7. \A j \in Jobs : Fired(j)' <=> Fired(j)
    BY <2>1, <2>2, <2>3, Zenon DEF Fired
  <2>8. entry' \in [Jobs -> {"none", "pending", "leased", "lapsed"}]
    BY <1>0, <2>1, Zenon
  <2>9. poll' = [poll EXCEPT ![p] = q]
    BY <2>1, <2>4, Zenon
  <2> QED
    BY <1>0, <2>2, <2>5, <2>6, <2>7, <2>8, <2>9, PollerMoves, Zenon
<1>2. ASSUME NEW read \in [Jobs -> Reads], Read(p, read) PROVE IndexKept
  <2>1. /\ UNCHANGED <<entry, due, topic, dlt, dropped>>
        /\ poll' = [poll EXCEPT ![p] = [poll[p] EXCEPT !.at = "work", !.read = read]]
    BY <1>2, Zenon DEF Read, index, fates
  <2>2. PICK q : q = [poll[p] EXCEPT !.at = "work", !.read = read]
    BY Zenon
  <2>3. q \in PollerRecs /\ q.left = poll[p].left /\ q.done = poll[p].done
    BY <1>0, <2>2, Zenon DEF PollerRecs
  <2>4. \A j \in Jobs : (Settled(j)' <=> Settled(j)) /\ (Fired(j)' <=> Fired(j))
    BY <2>1, Zenon DEF Settled, Fired
  <2>5. (\A j \in q.left : Fired(j)) /\ (\A j \in q.done : Settled(j)')
    BY <1>0, <2>3, <2>4, Zenon DEF PollInv, PollerRecs
  <2>6. poll' = [poll EXCEPT ![p] = q]
    BY <2>1, <2>2, Zenon
  <2> QED
    BY <1>0, <2>1, <2>3, <2>4, <2>5, <2>6, PollerMoves, Zenon
<1>3. ASSUME ReadError(p) \/ PollerCrash(p) PROVE IndexKept
  <2>1. UNCHANGED <<entry, due, topic, dlt, dropped>> /\ poll' = [poll EXCEPT ![p] = Idle]
    BY <1>3, Zenon DEF ReadError, PollerCrash, index, fates
  <2>2. \A j \in Jobs : (Settled(j)' <=> Settled(j)) /\ (Fired(j)' <=> Fired(j))
    BY <2>1, Zenon DEF Settled, Fired
  <2> QED
    BY <1>0, <2>1, <2>2, IdleIs, PollerMoves, Zenon
<1>4. ASSUME NEW ok \in BOOLEAN, Ack(p, ok) PROVE IndexKept
  <2>1. /\ due' = due /\ UNCHANGED <<topic, dlt, dropped>> /\ poll' = [poll EXCEPT ![p] = Idle]
        /\ \A j \in Jobs : Settled(j)' <=> Settled(j)
        /\ \A j \in Jobs : Fired(j)' <=> entry'[j] # "none" \/ Settled(j)
    BY <1>4, FatesStand, Zenon DEF Ack
  <2>2. entry' \in [Jobs -> {"none", "pending", "leased", "lapsed"}]
    BY <1>0, <1>4, Zenon DEF Ack, Acked, RedisAcked, MysqlAcked
  <2>3. \A j \in Jobs : entry'[j] = entry[j] \/ (entry'[j] = "none" /\ j \in poll[p].done)
    BY <1>0, <1>4, Zenon DEF Ack, Acked, RedisAcked, MysqlAcked
  <2>4. \A j \in Jobs : entry[j] = "none" => entry'[j] = "none"
    BY <2>3, Zenon
  <2>5. \A j \in Jobs : Fired(j)' <=> Fired(j)
    BY <2>1, <2>3, <2>4, Zenon DEF Fired, PollInv
  <2> QED
    BY <1>0, <2>1, <2>2, <2>5, IdleIs, PollerMoves, Zenon
<1> QED
  BY <1>1, <1>2, <1>3, <1>4, Zenon

\* The steps of a tick that deal with one entry.
LEMMA ItemSteps ==
    ASSUME PollTypeOK, PollInv, NEW p \in Pollers, NEW j \in Jobs
    PROVE  /\ DropLost(p, j) \/ DropCancelled(p, j) => IndexKept
           /\ \A parked \in BOOLEAN : ReadMiss(p, j, parked) \/ RouteError(p, j, parked) => IndexKept
           /\ Produce(p, j) => IndexKept
           /\ \A landed \in BOOLEAN : ProduceError(p, j, landed) => IndexKept
<1>0. topic \in [Jobs -> Nat]
  BY Zenon DEF PollTypeOK
<1>1. ASSUME DropLost(p, j) \/ DropCancelled(p, j) PROVE IndexKept
  <2>1. /\ j \in poll[p].left /\ UNCHANGED <<entry, due, topic, dlt>>
        /\ dropped' = dropped \cup {j} /\ Settle(p, j)
    BY <1>1, Zenon DEF DropLost, DropCancelled, Item, index
  <2>2. Settled(j)'
    BY <2>1, Zenon DEF Settled
  <2> QED
    BY <2>1, <2>2, ItemStep, Zenon
<1>2. ASSUME NEW parked \in BOOLEAN, ReadMiss(p, j, parked) \/ RouteError(p, j, parked)
      PROVE  IndexKept
  <2>1. /\ j \in poll[p].left /\ UNCHANGED <<entry, due, topic, dropped>>
        /\ dlt' = IF parked THEN dlt \cup {j} ELSE dlt
        /\ IF parked THEN Settle(p, j) ELSE Leave(p, j)
    BY <1>2, Zenon DEF ReadMiss, RouteError, Item, Park
  <2>2. parked => Settled(j)'
    BY <2>1, Zenon DEF Settled
  <2> QED
    BY <2>1, <2>2, ItemStep, Zenon
<1>3. ASSUME Produce(p, j) PROVE IndexKept
  <2>1. /\ j \in poll[p].left /\ UNCHANGED <<entry, due, dlt, dropped>>
        /\ topic' = [topic EXCEPT ![j] = @ + 1] /\ Settle(p, j)
    BY <1>3, Zenon DEF Produce, Item
  <2>2. Settled(j)'
    BY <1>0, <2>1 DEF Settled
  <2> QED
    BY <2>1, <2>2, ItemStep, Zenon
<1>4. ASSUME NEW landed \in BOOLEAN, ProduceError(p, j, landed) PROVE IndexKept
  <2>1. /\ j \in poll[p].left /\ UNCHANGED <<entry, due, dlt, dropped>>
        /\ topic' = topic \/ topic' = [topic EXCEPT ![j] = @ + 1]
        /\ Leave(p, j)
    BY <1>4, Zenon DEF ProduceError, Item
  <2> QED
    BY <2>1, ItemStep, Zenon
<1> QED
  BY <1>1, <1>2, <1>3, <1>4, Zenon

\* The steps around the ticks.
LEMMA AroundSteps ==
    ASSUME PollTypeOK, PollInv
    PROVE  /\ \A p \in Pollers : Reclaim(p) => IndexKept
           /\ \A j \in Jobs : ComesDue(j) \/ LeaseEnds(j) => IndexKept
           /\ Cancel => IndexKept
<1>0. /\ entry \in [Jobs -> {"none", "pending", "leased", "lapsed"}] /\ topic \in [Jobs -> Nat]
      /\ \A j \in Jobs : topic[j] <= topic[j]
  BY DEF PollTypeOK
<1>1. ASSUME UNCHANGED <<poll, topic, dlt, dropped>>, due' \subseteq Jobs,
             entry' \in [Jobs -> {"none", "pending", "leased", "lapsed"}],
             \A j \in Jobs : entry'[j] = "none" <=> entry[j] = "none"
      PROVE  IndexKept
  <2>1. \A j \in Jobs : (Settled(j)' <=> Settled(j)) /\ (Fired(j)' <=> Fired(j))
    BY <1>1, Zenon DEF Settled, Fired
  <2>2. PollTypeOK'
    BY <1>1, Zenon DEF PollTypeOK
  <2>3. PollInv'
    BY <1>1, <2>1, Zenon DEF PollInv
  <2> QED
    BY <1>0, <1>1, <2>1, <2>2, <2>3, Zenon DEF IndexKept
<1>2. ASSUME NEW p \in Pollers, Reclaim(p) PROVE IndexKept
  <2>1. UNCHANGED <<poll, topic, dlt, dropped, due>>
    BY <1>2, Zenon DEF Reclaim, fates
  <2>2. entry' = [j \in Jobs |-> IF entry[j] = "lapsed" THEN "pending" ELSE entry[j]]
    BY <1>2, Zenon DEF Reclaim
  <2>3. /\ entry' \in [Jobs -> {"none", "pending", "leased", "lapsed"}]
        /\ \A j \in Jobs : entry'[j] = "none" <=> entry[j] = "none"
    BY <1>0, <2>2, Zenon
  <2> QED
    BY <1>1, <2>1, <2>3, Zenon DEF PollTypeOK
<1>3. ASSUME NEW j \in Jobs, ComesDue(j) PROVE IndexKept
  <2>1. UNCHANGED <<poll, topic, dlt, dropped, entry>> /\ due' = due \cup {j}
    BY <1>3, Zenon DEF ComesDue, fates, index
  <2> QED
    BY <1>0, <1>1, <2>1, Zenon DEF PollTypeOK
<1>4. ASSUME NEW j \in Jobs, LeaseEnds(j) PROVE IndexKept
  <2>1. /\ UNCHANGED <<poll, topic, dlt, dropped, due>>
        /\ entry[j] = "leased" /\ entry' = [entry EXCEPT ![j] = "lapsed"]
    BY <1>4, Zenon DEF LeaseEnds, fates
  <2>2. /\ entry' \in [Jobs -> {"none", "pending", "leased", "lapsed"}]
        /\ \A i \in Jobs : entry'[i] = "none" <=> entry[i] = "none"
    BY <1>0, <2>1, Zenon
  <2> QED
    BY <1>1, <2>1, <2>2, Zenon DEF PollTypeOK
<1>5. ASSUME Cancel PROVE IndexKept
  <2>1. UNCHANGED <<poll, topic, dlt, dropped, entry, due>>
    BY <1>5, Zenon DEF Cancel, fates, index
  <2> QED
    BY <1>0, <1>1, <2>1, Zenon DEF PollTypeOK
<1> QED
  BY <1>2, <1>3, <1>4, <1>5, Zenon

\* All of them.
LEMMA IndexStep ==
    ASSUME PollTypeOK, PollInv,
           \/ \E p \in Pollers : Poll(p) \/ PollFault(p)
           \/ Time \/ (\E j \in Jobs : Held(j) /\ LeaseEnds(j)) \/ Cancel
    PROVE  IndexKept
<1>1. ASSUME NEW p \in Pollers, Poll(p) PROVE IndexKept
  <2>1. AllFound \in [Jobs -> Reads]
    BY Zenon DEF AllFound, Reads
  <2>2. CASE ClaimDue(p) \/ Read(p, AllFound) \/ Ack(p, TRUE)
    BY <2>1, <2>2, TickSteps, Zenon
  <2>3. CASE Reclaim(p)
    BY <2>3, AroundSteps, Zenon
  <2>4. ASSUME NEW j \in Jobs,
               \/ DropLost(p, j) \/ DropCancelled(p, j) \/ Produce(p, j)
               \/ ReadMiss(p, j, misses[p][j] + 1 >= MaxMisses)
        PROVE  IndexKept
    <3>1. (misses[p][j] + 1 >= MaxMisses) \in BOOLEAN
      OBVIOUS
    <3> QED
      BY <2>4, <3>1, ItemSteps, Zenon
  <2> QED
    BY <1>1, <2>2, <2>3, <2>4, Zenon DEF Poll
<1>2. ASSUME NEW p \in Pollers, PollFault(p) PROVE IndexKept
  <2>1. ASSUME NEW read \in [Jobs -> Reads], Read(p, read) PROVE IndexKept
    BY <2>1, TickSteps, Zenon
  <2>2. CASE ReadError(p) \/ Ack(p, FALSE) \/ PollerCrash(p)
    BY <2>2, TickSteps, Zenon
  <2>3. ASSUME NEW j \in Jobs,
               \/ ReadMiss(p, j, FALSE) \/ RouteError(p, j, TRUE) \/ RouteError(p, j, FALSE)
               \/ ProduceError(p, j, TRUE) \/ ProduceError(p, j, FALSE)
        PROVE  IndexKept
    BY <2>3, ItemSteps, Zenon
  <2> QED
    BY <1>2, <2>1, <2>2, <2>3, Zenon DEF PollFault
<1>3. CASE Time \/ (\E j \in Jobs : Held(j) /\ LeaseEnds(j)) \/ Cancel
  BY <1>3, AroundSteps, Zenon DEF Time
<1> QED
  BY <1>1, <1>2, <1>3, Zenon

\* A step beside the client's leaves the client's invariants.
LEMMA QuietKeeps ==
    ASSUME ClientInv, IndexKept, UNCHANGED <<settings, lock, push, total, finished, doubt, lost>>
    PROVE  ClientInv' /\ CountStep
<1>0. /\ \A j \in Jobs : (Fired(j)' <=> Fired(j)) /\ topic[j] <= topic'[j]
      /\ topic \in [Jobs -> Nat] /\ topic' \in [Jobs -> Nat]
  BY Zenon DEF IndexKept, ClientInv, PollTypeOK
<1>1. /\ ClientTypeOK' /\ ClientTypeOK
      /\ \A c \in Calls : push[c].plan \subseteq Jobs /\ push[c].ok \subseteq Jobs
  BY Zenon DEF ClientInv, ClientTypeOK, PushCall
<1>2. CallInv'
  BY <1>0, <1>1, Zenon DEF ClientInv, CallInv, Unfired
<1>3. FiredInv'
  BY <1>0, <1>1 DEF ClientInv, FiredInv, PlannedBy, ClientTypeOK
<1>4. LockInv'
  BY <1>0, Zenon DEF ClientInv, LockInv, Promised, Fp
<1>5. HeldInv'
  BY DEF ClientInv, HeldInv, Owed, Fp
<1>6. CountedJobs' = CountedJobs
  BY <1>0, Zenon DEF CountedJobs, Counted
<1>7. CountStep
  BY <1>6, Zenon DEF CountStep, CountsStand, TotalStands
<1> QED
  BY <1>1, <1>2, <1>3, <1>4, <1>5, <1>7, Zenon DEF ClientInv, IndexKept

-----------------------------------------------------------------------------
(* A step of a call *)

\* Call c moves on to r, and the jobs in N fire.
CallMoves(c, r, N) ==
    /\ push' = [push EXCEPT ![c] = r] /\ r \in PushCall
    /\ UNCHANGED <<settings, finished, poll, due>>
    /\ entry' \in [Jobs -> {"none", "pending", "leased", "lapsed"}]
    /\ topic' \in [Jobs -> Nat] /\ dlt' = dlt /\ dropped' = dropped
    /\ \A j \in Jobs : (Fired(j)' <=> Fired(j) \/ j \in N) /\ topic[j] <= topic'[j]
    /\ N \subseteq push[c].plan /\ (N = {} \/ push[c].at \in {"produce", "index"})
    /\ doubt \subseteq doubt'

\* Other calls' jobs are not this call's.
LEMMA OwnJobs ==
    ASSUME ClientTypeOK, CallInv
    PROVE  \A c, d \in Calls : \A j : j \in push[c].plan /\ j \in push[d].plan => c = d
  BY SettingsFacts, ZenonT(30) DEF CallInv, Shape

\* What the pollers have is kept when a call moves.
LEMMA MovesPoll ==
    ASSUME PollTypeOK, PollInv, NEW c \in Calls, NEW r, NEW N, CallMoves(c, r, N)
    PROVE  PollTypeOK' /\ PollInv'
<1>1. \A j \in Jobs : (Fired(j) => Fired(j)') /\ (Settled(j) => Settled(j)')
  BY DEF CallMoves, Settled, PollTypeOK
<1>2. PollTypeOK'
  BY Zenon DEF CallMoves, PollTypeOK
<1>3. PollInv'
  BY <1>1, Zenon DEF CallMoves, PollInv
<1> QED
  BY <1>2, <1>3, Zenon

\* The calls stay in shape, and what fired stays planned.
LEMMA MovesCall ==
    ASSUME PollTypeOK, ClientTypeOK, CallInv, FiredInv,
           NEW c \in Calls, NEW r, NEW N, CallMoves(c, r, N), Shape(settings.calls[c], r),
           push[c].plan \subseteq r.plan, push[c].reserved => r.reserved,
           \A j \in r.plan \ r.ok :
                j \in doubt' \/ ~Fired(j)' \/ r.at = "failed" \/ (r.at = "index" /\ j \in r.sent),
           \A j \in r.ok : Fired(j)'
    PROVE  CallInv' /\ FiredInv'
<1>1. push'[c] = r /\ \A d \in Calls : d # c => push'[d] = push[d]
  BY PushIs, Zenon DEF CallMoves, ClientTypeOK
<1>2. /\ \A j \in Jobs : Fired(j)' <=> Fired(j) \/ j \in N
      /\ N \subseteq push[c].plan /\ UNCHANGED <<settings, finished>> /\ doubt \subseteq doubt'
      /\ N = {} \/ push[c].at \in {"produce", "index"}
  BY Zenon DEF CallMoves
<1>3. CallInv'
  <2> SUFFICES ASSUME NEW d \in Calls
               PROVE  /\ Shape(settings.calls[d], push'[d]) /\ Unfired(push[d])'
                      /\ \A j \in push'[d].ok : Fired(j)'
    BY <1>2, Zenon DEF CallInv
  <2>1. CASE d = c
    BY <1>1, <2>1, Zenon DEF Unfired
  <2>2. CASE d # c
    <3>1. /\ push'[d] = push[d] /\ push[d].plan \subseteq Jobs /\ push[d].ok \subseteq push[d].plan
          /\ \A j \in push[d].plan : j \notin N
      BY <1>1, <1>2, <2>2, OwnJobs, ZenonT(30) DEF ClientTypeOK, PushCall, CallInv, Shape
    <3>2. \A j \in push[d].plan : Fired(j)' <=> Fired(j)
      BY <1>2, <3>1, Zenon
    <3>3. Shape(settings.calls[d], push[d]) /\ Unfired(push[d]) /\ \A j \in push[d].ok : Fired(j)
      BY Zenon DEF CallInv
    <3>4. Unfired(push[d])'
      BY <1>2, <3>1, <3>2, <3>3, Zenon DEF Unfired
    <3> QED
      BY <3>1, <3>2, <3>3, <3>4, Zenon
  <2> QED
    BY <2>1, <2>2, Zenon
<1>4. ASSUME NEW j \in Jobs, Fired(j)' PROVE \E d \in Calls : PlannedBy(d, j)'
  <2>1. CASE Fired(j)
    <3>1. PICK d \in Calls : PlannedBy(d, j)
      BY <2>1, Zenon DEF FiredInv
    <3>2. PlannedBy(d, j)'
      BY <1>1, <1>2, <3>1, Zenon DEF PlannedBy
    <3> QED
      BY <3>2, Zenon
  <2>2. CASE j \in N
    <3>1. settings.calls[c].batch => push[c].reserved
      BY <1>2, <2>2, Zenon DEF CallInv, Shape
    <3>2. PlannedBy(c, j)'
      BY <1>1, <1>2, <2>2, <3>1, Zenon DEF PlannedBy
    <3> QED
      BY <3>2, Zenon
  <2> QED
    BY <1>2, <1>4, <2>1, <2>2, Zenon
<1>5. \A j \in finished' : topic'[j] > 0
  BY DEF CallMoves, FiredInv, PollTypeOK, ClientTypeOK
<1> QED
  BY <1>3, <1>4, <1>5, Zenon DEF FiredInv

\* The locks of the jobs in R are released.
LocksDrop(R) ==
    /\ lock' \in [Prints -> Jobs \cup {None}]
    /\ \A f \in Prints : lock'[f] = IF lock[f] \in R THEN None ELSE lock[f]

\* What may be produced was planned, or is in doubt, and its lock is not released.
LEMMA MovesLock ==
    ASSUME ClientTypeOK, CallInv, LockInv, NEW c \in Calls, NEW r, NEW N, CallMoves(c, r, N),
           NEW R, LocksDrop(R), \A j \in R : ~Promised(j)' \/ j \in doubt',
           r.at \in Open => push[c].at \in Open /\ r.plan \subseteq push[c].plan \cup doubt'
    PROVE  LockInv'
<1>1. push'[c] = r /\ \A d \in Calls : d # c => push'[d] = push[d]
  BY PushIs, Zenon DEF CallMoves, ClientTypeOK
<1>2. /\ \A j \in Jobs : Fired(j)' <=> Fired(j) \/ j \in N
      /\ N \subseteq push[c].plan /\ UNCHANGED <<settings, finished>> /\ doubt \subseteq doubt'
      /\ N = {} \/ push[c].at \in Open
  BY Zenon DEF CallMoves, Open
<1> SUFFICES ASSUME NEW j \in Jobs, j \notin doubt', j \notin finished', Promised(j)'
             PROVE  lock'[settings.fp[j]] = j
  BY <1>2, Zenon DEF LockInv, Fp
<1>3. Promised(j)
  <2>1. CASE Fired(j)'
    BY <1>2, <2>1, Zenon DEF Promised
  <2>2. ASSUME NEW d \in Calls, push'[d].at \in Open, j \in push'[d].plan PROVE Promised(j)
    <3>1. CASE d = c
      BY <1>1, <2>2, <3>1, Zenon DEF Promised
    <3>2. CASE d # c
      BY <1>1, <2>2, <3>2, Zenon DEF Promised
    <3> QED
      BY <3>1, <3>2, Zenon
  <2> QED
    BY <2>1, <2>2, Zenon DEF Promised
<1>4. lock[settings.fp[j]] = j /\ j \notin R
  BY <1>2, <1>3, Zenon DEF LockInv, Fp
<1>5. settings.fp[j] \in Prints
  BY SettingsFacts, Zenon DEF Fp
<1> QED
  BY <1>4, <1>5, Zenon DEF LocksDrop

\* What a lock is held for is still owed.
LEMMA MovesHeld ==
    ASSUME ClientTypeOK, HeldInv, NEW c \in Calls, NEW r, NEW N, CallMoves(c, r, N),
           NEW R, LocksDrop(R), lost => lost',
           \A j \in Jobs \ R : Owed(push[c], j) => Owed(r, j)'
    PROVE  HeldInv'
<1>1. push'[c] = r /\ \A d \in Calls : d # c => push'[d] = push[d]
  BY PushIs, Zenon DEF CallMoves, ClientTypeOK
<1>2. UNCHANGED <<settings, finished>>
  BY Zenon DEF CallMoves
<1> SUFFICES ASSUME NEW f \in Prints, lock'[f] # None
             PROVE  /\ settings.fp[lock'[f]] = f /\ lock'[f] \notin finished
                    /\ \E d \in Calls : Owed(push[d], lock[f])'
  BY <1>2, Zenon DEF HeldInv, Fp
<1>7. PICK j : j = lock'[f] /\ j = lock[f] /\ j \notin R
  BY Zenon DEF LocksDrop
<1>3. j \in Jobs /\ Fp(j) = f /\ j \notin finished
  BY <1>7, Zenon DEF HeldInv, ClientTypeOK
<1>4. PICK d \in Calls : Owed(push[d], j)
  BY <1>7, Zenon DEF HeldInv
<1>5. CASE d = c
  <2>1. Owed(r, j)'
    BY <1>3, <1>4, <1>5, <1>7, Zenon
  <2>2. Owed(push[c], j)'
    BY <1>1, <2>1, Zenon DEF Owed
  <2> QED
    BY <1>3, <1>7, <2>2, Zenon DEF Fp, Owed
<1>6. CASE d # c
  <2>1. Owed(push[d], j)'
    BY <1>1, <1>2, <1>4, <1>6, Zenon DEF Owed
  <2> QED
    BY <1>3, <1>7, <2>1, Zenon DEF Fp, Owed
<1> QED
  BY <1>5, <1>6, Zenon

\* The jobs the total stands for stand, unless the call was given up.
LEMMA MovesCounts ==
    ASSUME ClientTypeOK, CallInv, NEW c \in Calls, NEW r, NEW N, CallMoves(c, r, N),
           \A j \in Jobs : Counted(r, j)' => Counted(push[c], j),
           lost' \/ \A j \in Jobs : Counted(push[c], j) => Counted(r, j)'
    PROVE  CountsStand
<1>1. push'[c] = r /\ \A d \in Calls : d # c => push'[d] = push[d]
  BY PushIs, Zenon DEF CallMoves, ClientTypeOK
<1>2. ASSUME NEW d \in Calls, d # c, NEW j \in Jobs PROVE Counted(push[d], j)' <=> Counted(push[d], j)
  <2>1. j \in push[d].plan => j \notin N
    BY <1>2, OwnJobs, Zenon DEF CallMoves
  <2>2. j \in push[d].plan => (Fired(j)' <=> Fired(j))
    BY <2>1, Zenon DEF CallMoves
  <2> QED
    BY <1>1, <1>2, <2>2, Zenon DEF Counted
<1>3. ASSUME NEW j \in Jobs PROVE Counted(push[c], j)' <=> Counted(r, j)'
  BY <1>1, Zenon DEF Counted
<1>4. CountedJobs' \subseteq CountedJobs
  BY <1>2, <1>3, Zenon DEF CountedJobs
<1>5. lost' \/ CountedJobs \subseteq CountedJobs'
  BY <1>2, <1>3, Zenon DEF CountedJobs
<1> QED
  BY <1>4, <1>5, Zenon DEF CountsStand

\* A step of a call that locks and counts nothing.
LEMMA PlainStep ==
    ASSUME ClientInv, NEW c \in Calls, NEW r, NEW N, NEW R, CallMoves(c, r, N), LocksDrop(R),
           doubt' \subseteq Jobs, lost' \in BOOLEAN, lost => lost', push[c].at # "failed",
           TotalStands,
           Shape(settings.calls[c], r), push[c].plan \subseteq r.plan,
           r.reserved = push[c].reserved, r.reserved => r.plan = push[c].plan,
           \A j \in r.plan \ r.ok :
                j \in doubt' \/ ~Fired(j)' \/ r.at = "failed" \/ (r.at = "index" /\ j \in r.sent),
           \A j \in r.ok : Fired(j)',
           r.at \in Open => push[c].at \in Open /\ r.plan \subseteq push[c].plan \cup doubt',
           \A j \in R : ~Promised(j)' \/ j \in doubt',
           \A j \in Jobs \ R : Owed(push[c], j) => Owed(r, j)',
           r.at = "failed" /\ r.reserved => lost'
    PROVE  ClientInv' /\ CountStep
<1>0. PollTypeOK /\ ClientTypeOK /\ PollInv /\ CallInv /\ FiredInv /\ LockInv /\ HeldInv
  BY Zenon DEF ClientInv
<1>1. PollTypeOK' /\ PollInv'
  BY <1>0, MovesPoll, Zenon
<1>2. ClientTypeOK'
  <2>1. push' \in [Calls -> PushCall]
    BY <1>0, Zenon DEF CallMoves, ClientTypeOK
  <2> QED
    BY <1>0, <2>1, Zenon DEF CallMoves, ClientTypeOK, LocksDrop
<1>3. CallInv' /\ FiredInv'
  BY <1>0, MovesCall, Zenon
<1>4. LockInv'
  BY <1>0, MovesLock, Zenon
<1>5. HeldInv'
  BY <1>0, MovesHeld, Zenon
<1>6. CountsStand
  <2>1. \A j \in Jobs : Counted(r, j)' => Counted(push[c], j)
    BY Zenon DEF Counted
  <2>2. lost' \/ \A j \in Jobs : Counted(push[c], j) => Counted(r, j)'
    BY Zenon DEF Counted
  <2> QED
    BY <1>0, <2>1, <2>2, MovesCounts, Zenon
<1>7. CountStep
  BY <1>6, Zenon DEF CountStep, CallMoves
<1> QED
  BY <1>1, <1>2, <1>3, <1>4, <1>5, <1>7, Zenon DEF ClientInv

\* What is known of a call.
LEMMA CallFacts ==
    ASSUME ClientInv, NEW c \in Calls
    PROVE  /\ push[c] \in PushCall /\ settings.calls[c] \in CallType
           /\ Shape(settings.calls[c], push[c]) /\ push[c].plan \subseteq Jobs
           /\ \A j \in push[c].plan \ push[c].ok :
                \/ j \in doubt \/ ~Fired(j) \/ push[c].at = "failed"
                \/ push[c].at = "index" /\ j \in push[c].sent
           /\ \A j \in push[c].ok : Fired(j)
           /\ lost \in BOOLEAN /\ doubt \subseteq Jobs
  BY SettingsFacts, Zenon DEF ClientInv, ClientTypeOK, CallInv, Unfired, PushCall

\* The index is left alone.
LEMMA QuietMoves ==
    ASSUME ClientInv, NEW c \in Calls, NEW r \in PushCall, push' = [push EXCEPT ![c] = r],
           UNCHANGED <<indexVars, settings, finished>>, doubt \subseteq doubt'
    PROVE  CallMoves(c, r, {}) /\ \A j \in Jobs : Fired(j)' <=> Fired(j)
  BY DEF ClientInv, PollTypeOK, CallMoves, indexVars, Fired, Settled

\* The locks are left alone.
LEMMA LocksStand == ASSUME ClientInv, lock' = lock PROVE LocksDrop({})
  BY Zenon DEF ClientInv, ClientTypeOK, LocksDrop

\* A step of a call that leaves the index, the locks and its flags alone.
LEMMA QuietStep ==
    ASSUME ClientInv, NEW c \in Calls, NEW x, NEW k, x = push[c], k = settings.calls[c],
           NEW r \in PushCall, push' = [push EXCEPT ![c] = r],
           UNCHANGED <<indexVars, settings, lock, finished>>,
           doubt \subseteq doubt', doubt' \subseteq Jobs, lost' \in BOOLEAN, lost => lost',
           TotalStands,
           x.at # "failed", x.at = "index" => r.at = "failed",
           Shape(k, r), x.plan \subseteq r.plan, r.plan \subseteq x.plan \cup doubt',
           r.reserved = x.reserved, r.reserved => r.plan = x.plan, r.ok = x.ok,
           r.at \in Open => x.at \in Open,
           \A j \in Jobs : Owed(x, j) => Owed(r, j)',
           r.at = "failed" /\ r.reserved => lost'
    PROVE  ClientInv' /\ CountStep
<1>1. CallMoves(c, r, {}) /\ \A j \in Jobs : Fired(j)' <=> Fired(j)
  BY QuietMoves, Zenon
<1>2. LocksDrop({})
  BY LocksStand, Zenon
<1>3. r.plan \subseteq Jobs /\ r.ok \subseteq r.plan
  BY CallFacts, Zenon DEF Shape
<1>4. \A j \in r.plan \ r.ok :
         j \in doubt' \/ ~Fired(j)' \/ r.at = "failed" \/ (r.at = "index" /\ j \in r.sent)
  BY <1>1, <1>3, CallFacts, Zenon
<1>5. \A j \in r.ok : Fired(j)'
  BY <1>1, <1>3, CallFacts, Zenon
<1>6. r.at \in Open => push[c].at \in Open /\ r.plan \subseteq push[c].plan \cup doubt'
  BY Zenon
<1> QED
  BY <1>1, <1>2, <1>4, <1>5, <1>6, PlainStep, Zenon

-----------------------------------------------------------------------------
(* The steps of a call *)

\* Redis fails: what is left to claim is planned, in doubt.
LEMMA ClaimFailsOpenKeeps == ASSUME ClientInv, NEW c \in Calls, ClaimFailsOpen(c) PROVE ClientInv' /\ CountStep
<1>1. PICK x : x = push[c]
  BY Zenon
<1>2. PICK r : r = [x EXCEPT !.todo = {}, !.plan = x.plan \cup x.todo]
  BY Zenon
<1>3. /\ x \in PushCall /\ settings.calls[c] \in CallType /\ Shape(settings.calls[c], x)
      /\ lost \in BOOLEAN /\ doubt \subseteq Jobs
  BY <1>1, CallFacts, Zenon
<1>4. /\ r \in PushCall /\ r.at = x.at /\ r.plan = x.plan \cup x.todo /\ r.todo = {}
      /\ r.ok = x.ok /\ r.reserved = x.reserved
  BY <1>2, <1>3, Zenon DEF PushCall
<1>5. /\ x.at = "claim" /\ push' = [push EXCEPT ![c] = r] /\ doubt' = doubt \cup x.todo
      /\ UNCHANGED <<indexVars, settings, lock, total, finished, lost>>
  BY <1>1, <1>2, Zenon DEF ClaimFailsOpen
<1>6. Shape(settings.calls[c], r)
  BY <1>3, <1>4, <1>5, Zenon DEF Shape
<1>7. ~r.reserved /\ x.todo \subseteq Jobs
  BY <1>3, <1>4, <1>5, Zenon DEF Shape, PushCall
<1>8. \A j \in Jobs : Owed(x, j) => Owed(r, j)'
  BY <1>4, <1>5, Zenon DEF Owed, Open
<1>9. /\ doubt \subseteq doubt' /\ doubt' \subseteq Jobs /\ lost' \in BOOLEAN /\ (lost => lost')
      /\ TotalStands
      /\ x.plan \subseteq r.plan /\ r.plan \subseteq x.plan \cup doubt'
      /\ x.at # "failed" /\ x.at # "index" /\ x.at \in Open /\ r.at # "failed"
  BY <1>3, <1>4, <1>5, <1>7, Zenon DEF Open, TotalStands
<1> QED
  BY <1>1, <1>4, <1>5, <1>6, <1>7, <1>8, <1>9, QuietStep, Zenon

\* The call is planned: it fails, returns, reserves, or produces.
LEMMA PlannedKeeps == ASSUME ClientInv, NEW c \in Calls, Planned(c) PROVE ClientInv' /\ CountStep
<1>1. PICK x, k : x = push[c] /\ k = settings.calls[c]
  BY Zenon
<1>2. /\ x \in PushCall /\ k \in CallType /\ Shape(k, x)
      /\ lost \in BOOLEAN /\ doubt \subseteq Jobs
  BY <1>1, CallFacts, Zenon
<1>3. /\ x.at = "claim" /\ x.todo = {} /\ UNCHANGED <<indexVars, settings, lock, total, finished, doubt, lost>>
  BY <1>1, Zenon DEF Planned
<1>4. x.ok = {} /\ ~x.reserved
  BY <1>2, <1>3, Zenon DEF Shape
<1>5. ASSUME NEW r \in PushCall, push' = [push EXCEPT ![c] = r], r.plan = x.plan, r.ok = x.ok,
             r.reserved = x.reserved, Shape(k, r),
             \A j \in Jobs : Owed(x, j) => Owed(r, j)'
      PROVE  ClientInv' /\ CountStep
  <2>1. /\ doubt \subseteq doubt' /\ doubt' \subseteq Jobs /\ lost' \in BOOLEAN /\ (lost => lost')
        /\ TotalStands
        /\ x.plan \subseteq r.plan /\ r.plan \subseteq x.plan \cup doubt'
        /\ x.at # "failed" /\ x.at # "index" /\ x.at \in Open /\ ~r.reserved
    BY <1>2, <1>3, <1>4, <1>5, Zenon DEF Open, TotalStands
  <2>2. UNCHANGED <<indexVars, settings, lock, finished>>
    BY <1>3, Zenon
  <2> QED
    BY <1>1, <1>5, <2>1, <2>2, QuietStep, Zenon
<1>6. CASE x.skipped /\ settings.raise
  <2>1. PICK r : r = [x EXCEPT !.at = "failed"]
    BY Zenon
  <2>2. /\ r \in PushCall /\ r.at = "failed" /\ r.plan = x.plan /\ r.ok = x.ok
        /\ r.reserved = x.reserved
    BY <1>2, <2>1, Zenon DEF PushCall, Places
  <2>3. push' = [push EXCEPT ![c] = r]
    BY <1>1, <1>6, <2>1, Zenon DEF Planned
  <2>4. Shape(k, r)
    BY <1>2, <1>4, <2>2, Zenon DEF Shape
  <2>5. \A j \in Jobs : Owed(x, j) => Owed(r, j)'
    BY <1>3, <1>6, <2>2, Zenon DEF Owed
  <2> QED
    BY <1>5, <2>2, <2>3, <2>4, <2>5, Zenon
<1>7. CASE ~(x.skipped /\ settings.raise) /\ x.plan = {}
  <2>1. PICK r : r = [x EXCEPT !.at = "returned"]
    BY Zenon
  <2>2. /\ r \in PushCall /\ r.at = "returned" /\ r.plan = x.plan /\ r.ok = x.ok
        /\ r.reserved = x.reserved
    BY <1>2, <2>1, Zenon DEF PushCall, Places
  <2>3. push' = [push EXCEPT ![c] = r]
    BY <1>1, <1>7, <2>1, Zenon DEF Planned
  <2>4. Shape(k, r)
    BY <1>2, <1>4, <1>7, <2>2, Zenon DEF Shape
  <2>5. \A j \in Jobs : Owed(x, j) => Owed(r, j)'
    BY <1>7, Zenon DEF Owed
  <2> QED
    BY <1>5, <2>2, <2>3, <2>4, <2>5, Zenon
<1>8. CASE ~(x.skipped /\ settings.raise) /\ x.plan # {} /\ k.batch
  <2>1. PICK r : r = [x EXCEPT !.at = "reserve"]
    BY Zenon
  <2>2. /\ r \in PushCall /\ r.at = "reserve" /\ r.plan = x.plan /\ r.ok = x.ok
        /\ r.reserved = x.reserved
    BY <1>2, <2>1, Zenon DEF PushCall, Places
  <2>3. push' = [push EXCEPT ![c] = r]
    BY <1>1, <1>8, <2>1, Zenon DEF Planned
  <2>4. Shape(k, r)
    BY <1>2, <1>4, <1>8, <2>2, Zenon DEF Shape
  <2>5. \A j \in Jobs : Owed(x, j) => Owed(r, j)'
    BY <2>2, Zenon DEF Owed, Open
  <2> QED
    BY <1>5, <2>2, <2>3, <2>4, <2>5, Zenon
<1>9. CASE ~(x.skipped /\ settings.raise) /\ x.plan # {} /\ ~k.batch
  <2>1. PICK r : r = Started(x)
    BY Zenon
  <2>2. /\ r \in PushCall /\ r.at = "produce" /\ r.plan = x.plan /\ r.ok = x.ok
        /\ r.reserved = x.reserved /\ r.rest = x.plan /\ r.chunk \subseteq x.plan
    BY <1>2, <2>1, StartedIs, Zenon
  <2>3. push' = [push EXCEPT ![c] = r]
    BY <1>1, <1>9, <2>1, Zenon DEF Planned
  <2>4. Shape(k, r)
    BY <1>2, <1>4, <1>9, <2>2, Zenon DEF Shape
  <2>5. \A j \in Jobs : Owed(x, j) => Owed(r, j)'
    BY <2>2, Zenon DEF Owed, Open
  <2> QED
    BY <1>5, <2>2, <2>3, <2>4, <2>5, Zenon
<1> QED
  BY <1>6, <1>7, <1>8, <1>9, Zenon

\* A batch call starts to roll back before it reserved anything.
LEMMA RejectedKeeps ==
    ASSUME ClientInv, NEW c \in Calls, push[c].at = "reserve",
           push' = [push EXCEPT ![c] = RollingBack(push[c])],
           UNCHANGED <<indexVars, settings, lock, finished, doubt>>,
           lost' \in BOOLEAN, lost => lost', TotalStands
    PROVE  ClientInv' /\ CountStep
<1>1. PICK x, k, r : x = push[c] /\ k = settings.calls[c] /\ r = RollingBack(push[c])
  BY Zenon
<1>2. x \in PushCall /\ k \in CallType /\ Shape(k, x) /\ doubt \subseteq Jobs
  BY <1>1, CallFacts, Zenon
<1>3. /\ r \in PushCall /\ r.at = "release" /\ r.todo = x.plan \ x.ok
      /\ r.plan = x.plan /\ r.ok = x.ok /\ r.reserved = x.reserved
  BY <1>1, <1>2, RollingBackIs, Zenon
<1>4. x.ok = {} /\ ~x.reserved
  BY <1>1, <1>2, Zenon DEF Shape
<1>5. Shape(k, r)
  BY <1>2, <1>3, <1>4, Zenon DEF Shape
<1>6. \A j \in Jobs : Owed(x, j) => Owed(r, j)'
  BY <1>3, <1>4, Zenon DEF Owed
<1>7. /\ doubt \subseteq doubt' /\ doubt' \subseteq Jobs
      /\ x.plan \subseteq r.plan /\ r.plan \subseteq x.plan \cup doubt'
      /\ x.at # "failed" /\ x.at # "index" /\ r.at \notin Open /\ ~r.reserved
  BY <1>1, <1>2, <1>3, <1>4, Zenon DEF Open
<1>8. UNCHANGED <<indexVars, settings, lock, finished>> /\ push' = [push EXCEPT ![c] = r]
  BY <1>1, Zenon
<1> QED
  BY <1>1, <1>3, <1>5, <1>6, <1>7, <1>8, QuietStep, Zenon

\* AddJobs fails, and may have counted the jobs.
LEMMA ReserveFailsKeeps ==
    ASSUME ClientInv, NEW c \in Calls, NEW counted \in BOOLEAN, ReserveFails(c, counted)
    PROVE  ClientInv' /\ CountStep
<1>1. PICK P : P = push[c].plan /\ P \in SUBSET Jobs
  BY CallFacts, Zenon
<1>2. lost \in BOOLEAN
  BY CallFacts, Zenon
<1>3. total' = (IF counted THEN total + Cardinality(P) ELSE total) /\ lost' = (lost \/ counted)
  BY <1>1, Zenon DEF ReserveFails
<1>4. lost' \in BOOLEAN /\ (lost => lost') /\ (counted => lost')
  BY <1>2, <1>3, Zenon
<1>5. TotalStands
  BY <1>1, <1>3, <1>4, Zenon DEF TotalStands
<1>6. /\ push[c].at = "reserve" /\ push' = [push EXCEPT ![c] = RollingBack(push[c])]
      /\ UNCHANGED <<indexVars, settings, lock, finished, doubt>>
  BY Zenon DEF ReserveFails
<1> QED
  BY <1>4, <1>5, <1>6, RejectedKeeps, Zenon

\* AddJobs counts the jobs, and the first chunk is taken up.
LEMMA ReservedKeeps ==
    ASSUME ClientInv, NEW c \in Calls, push[c].at = "reserve",
           push' = [push EXCEPT ![c] = Started([push[c] EXCEPT !.reserved = TRUE])],
           total' = total + Cardinality(push[c].plan),
           UNCHANGED <<indexVars, settings, lock, finished, doubt, lost>>
    PROVE  ClientInv' /\ CountStep
<1>0. PollTypeOK /\ ClientTypeOK /\ PollInv /\ CallInv /\ FiredInv /\ LockInv /\ HeldInv
  BY Zenon DEF ClientInv
<1>1. PICK x, k, y, r : /\ x = push[c] /\ k = settings.calls[c]
                        /\ y = [push[c] EXCEPT !.reserved = TRUE] /\ r = Started(y)
  BY Zenon
<1>2. /\ x \in PushCall /\ k \in CallType /\ Shape(k, x) /\ x.plan \subseteq Jobs
      /\ lost \in BOOLEAN /\ doubt \subseteq Jobs
  BY <1>1, CallFacts, Zenon
<1>3. y \in PushCall /\ y.plan = x.plan /\ y.ok = x.ok /\ y.reserved = TRUE
  BY <1>1, <1>2, Zenon DEF PushCall
<1>4. /\ r \in PushCall /\ r.at = "produce" /\ r.plan = x.plan /\ r.ok = x.ok
      /\ r.reserved /\ r.rest = x.plan /\ r.chunk \subseteq x.plan
  BY <1>1, <1>3, StartedIs, Zenon
<1>5. x.ok = {} /\ ~x.reserved /\ k.batch
  BY <1>1, <1>2, Zenon DEF Shape
<1>6. Shape(k, r)
  BY <1>2, <1>4, <1>5, Zenon DEF Shape
<1>7. push' = [push EXCEPT ![c] = r] /\ UNCHANGED <<indexVars, settings, finished>> /\ doubt \subseteq doubt'
  BY <1>1, Zenon
<1>8. CallMoves(c, r, {}) /\ \A j \in Jobs : Fired(j)' <=> Fired(j)
  BY <1>4, <1>7, QuietMoves, Zenon
<1>9. PollTypeOK' /\ PollInv'
  BY <1>0, <1>8, MovesPoll, Zenon
<1>10. \A j \in r.plan \ r.ok : j \in doubt' \/ ~Fired(j)'
  BY <1>1, <1>2, <1>4, <1>8, CallFacts, Zenon
<1>11. CallInv' /\ FiredInv'
  BY <1>0, <1>1, <1>4, <1>5, <1>6, <1>8, <1>10, MovesCall, Zenon
<1>12. LocksDrop({})
  BY LocksStand, Zenon
<1>13. LockInv'
  BY <1>0, <1>1, <1>4, <1>8, <1>12, MovesLock, Zenon DEF Open
<1>14. HeldInv'
  <2>1. \A j \in Jobs \ {} : Owed(push[c], j) => Owed(r, j)'
    BY <1>1, <1>4, Zenon DEF Owed, Open
  <2> QED
    BY <1>0, <1>8, <1>12, <2>1, MovesHeld, Zenon
<1>15. ClientTypeOK'
  <2>1. push' \in [Calls -> PushCall]
    BY <1>0, <1>4, <1>7, Zenon DEF ClientTypeOK
  <2> QED
    BY <1>0, <2>1, Zenon DEF ClientTypeOK
<1>16. Adds(x.plan)
  <2>1. push'[c] = r /\ \A d \in Calls : d # c => push'[d] = push[d]
    BY <1>0, <1>7, PushIs, Zenon DEF ClientTypeOK
  <2>2. \A j \in Jobs : Counted(push[c], j)' <=> j \in x.plan
    BY <1>4, <2>1, Zenon DEF Counted
  <2>3. \A j \in Jobs : ~Counted(push[c], j)
    BY <1>1, <1>5, Zenon DEF Counted
  <2>4. \A d \in Calls : \A j \in Jobs : d # c => (Counted(push[d], j)' <=> Counted(push[d], j))
    BY <1>8, <2>1, Zenon DEF Counted
  <2>5. CountedJobs' = CountedJobs \cup x.plan
    BY <1>2, <2>2, <2>3, <2>4, Zenon DEF CountedJobs
  <2>6. CountedJobs \cap x.plan = {}
    BY <1>0, <1>1, <1>5, OwnJobs, Zenon DEF CountedJobs, Counted
  <2> QED
    BY <1>1, <2>5, <2>6, Zenon DEF Adds
<1>17. CountStep
  <2>1. x.plan \in SUBSET Jobs /\ doubt \subseteq doubt' /\ (lost => lost')
    BY <1>2, Zenon
  <2> QED
    BY <1>16, <2>1, Zenon DEF CountStep
<1> QED
  BY <1>9, <1>11, <1>13, <1>14, <1>15, <1>17, Zenon DEF ClientInv

\* AddJobs counts the jobs, or a cancelled batch rejects them.
LEMMA ReserveKeeps == ASSUME ClientInv, NEW c \in Calls, Reserve(c) PROVE ClientInv' /\ CountStep
<1>1. push[c].at = "reserve" /\ UNCHANGED <<indexVars, settings, lock, finished, doubt, lost>>
  BY Zenon DEF Reserve
<1>2. CASE cancelled
  <2>1. push' = [push EXCEPT ![c] = RollingBack(push[c])] /\ total' = total
    BY <1>2, Zenon DEF Reserve
  <2>2. lost \in BOOLEAN
    BY CallFacts, Zenon
  <2>3. TotalStands /\ lost' \in BOOLEAN /\ (lost => lost')
    BY <1>1, <2>1, <2>2, Zenon DEF TotalStands
  <2>4. UNCHANGED <<indexVars, settings, lock, finished, doubt>>
    BY <1>1, Zenon
  <2> QED
    BY <1>1, <2>1, <2>3, <2>4, RejectedKeeps, Zenon
<1>3. CASE ~cancelled
  <2>1. /\ push' = [push EXCEPT ![c] = Started([push[c] EXCEPT !.reserved = TRUE])]
        /\ total' = total + Cardinality(push[c].plan)
    BY <1>3, Zenon DEF Reserve
  <2> QED
    BY <1>1, <2>1, ReservedKeeps, Zenon
<1> QED
  BY <1>2, <1>3, Zenon

\* A chunk's records land: N fire, S of them are flagged, and the rest are in doubt.
LEMMA ChunkLands ==
    ASSUME ClientInv, NEW c \in Calls, NEW x, x = push[c], x.at \in {"produce", "index"},
           NEW S, S \subseteq x.chunk, NEW N, S \subseteq N, N \subseteq x.chunk,
           x.at = "index" => x.sent \subseteq S,
           N \ S \subseteq doubt', doubt \subseteq doubt', doubt' \subseteq Jobs,
           CallMoves(c, Flagged(x, S), N), UNCHANGED <<lock, total, lost>>
    PROVE  ClientInv' /\ CountStep
<1>1. PICK r, k : r = Flagged(x, S) /\ k = settings.calls[c]
  BY Zenon
<1>2. /\ x \in PushCall /\ k \in CallType /\ Shape(k, x) /\ x.plan \subseteq Jobs
      /\ lost \in BOOLEAN
      /\ \A j \in x.plan \ x.ok : j \in doubt \/ ~Fired(j) \/ (x.at = "index" /\ j \in x.sent)
      /\ \A j \in x.ok : Fired(j)
  BY <1>1, CallFacts, Zenon
<1>3. /\ r \in PushCall /\ Shape(k, r)
      /\ r.plan = x.plan /\ r.ok = x.ok \cup S /\ r.reserved = x.reserved
      /\ r.at \in {"produce", "returned", "release"}
      /\ r.at = "release" => r.todo = r.plan \ r.ok
  BY <1>1, <1>2, FlaggedIs
<1>4. CallMoves(c, r, N) /\ \A j \in Jobs : Fired(j)' <=> Fired(j) \/ j \in N
  BY <1>1, Zenon DEF CallMoves
<1>5. \A j \in r.plan \ r.ok :
         j \in doubt' \/ ~Fired(j)' \/ r.at = "failed" \/ (r.at = "index" /\ j \in r.sent)
  BY <1>2, <1>3, <1>4, Zenon
<1>6. \A j \in r.ok : Fired(j)'
  BY <1>2, <1>3, <1>4, Zenon DEF Shape
<1>7. r.at \in Open => push[c].at \in Open /\ r.plan \subseteq push[c].plan \cup doubt'
  BY <1>3, Zenon DEF Open
<1>8. \A j \in Jobs \ {} : Owed(push[c], j) => Owed(r, j)'
  BY <1>3, Zenon DEF Owed, Open, Shape
<1>9. LocksDrop({})
  BY LocksStand, Zenon
<1>10. TotalStands /\ lost' \in BOOLEAN /\ (lost => lost')
  BY <1>2, Zenon DEF TotalStands
<1>11. /\ push[c].at # "failed" /\ r.at # "failed" /\ push[c].plan \subseteq r.plan
       /\ r.reserved = push[c].reserved /\ r.plan = push[c].plan /\ Shape(settings.calls[c], r)
  BY <1>1, <1>3, Zenon
<1>12. \A j \in {} : ~Promised(j)' \/ j \in doubt'
  BY Zenon
<1> QED
  BY <1>4, <1>5, <1>6, <1>7, <1>8, <1>9, <1>10, <1>11, <1>12, PlainStep, Zenon

\* ProduceManySync of a chunk.
LEMMA ProduceChunkKeeps ==
    ASSUME ClientInv, NEW c \in Calls, NEW S, S \subseteq push[c].chunk,
           NEW landed, landed \subseteq push[c].chunk \ S, ProduceChunk(c, S, landed)
    PROVE  ClientInv' /\ CountStep
<1>1. PICK x, N, r : x = push[c] /\ N = S \cup landed /\ r = Flagged(push[c], S)
  BY Zenon
<1>2. /\ x.at = "produce" /\ topic' = Landed(N) /\ push' = [push EXCEPT ![c] = r]
      /\ doubt' = doubt \cup landed
      /\ UNCHANGED <<entry, due, poll, dlt, dropped, settings, lock, total, finished, lost>>
  BY <1>1, Zenon DEF ProduceChunk, index
<1>3. /\ x \in PushCall /\ settings.calls[c] \in CallType /\ Shape(settings.calls[c], x)
      /\ x.plan \subseteq Jobs /\ doubt \subseteq Jobs
  BY <1>1, CallFacts, Zenon
<1>4. S \subseteq x.chunk /\ N \subseteq x.chunk /\ S \subseteq N /\ N \ S \subseteq doubt' /\ N \subseteq x.plan
  BY <1>1, <1>2, <1>3, Zenon DEF Shape
<1>5. r \in PushCall
  <2>1. x.at \in {"produce", "index"} /\ r = Flagged(x, S)
    BY <1>1, <1>2, Zenon
  <2> QED
    BY <1>3, <1>4, <2>1, FlaggedIs, Zenon
<1>6. topic \in [Jobs -> Nat] /\ entry \in [Jobs -> {"none", "pending", "leased", "lapsed"}]
  BY Zenon DEF ClientInv, PollTypeOK
<1>7. topic' \in [Jobs -> Nat] /\ \A j \in Jobs : topic'[j] = IF j \in N THEN topic[j] + 1 ELSE topic[j]
  BY <1>2, <1>6 DEF Landed
<1>8. \A j \in Jobs : (Fired(j)' <=> Fired(j) \/ j \in N) /\ topic[j] <= topic'[j]
  BY <1>2, <1>6, <1>7 DEF Fired, Settled
<1>9. CallMoves(c, r, N)
  BY <1>1, <1>2, <1>4, <1>5, <1>6, <1>7, <1>8, Zenon DEF CallMoves
<1>10. doubt \subseteq doubt' /\ doubt' \subseteq Jobs /\ x.at \in {"produce", "index"} /\ x.at # "index"
  BY <1>2, <1>3, <1>4, <1>1, Zenon
<1>11. UNCHANGED <<lock, total, lost>> /\ CallMoves(c, Flagged(x, S), N)
  BY <1>1, <1>2, <1>9, Zenon
<1> QED
  BY <1>1, <1>4, <1>10, <1>11, ChunkLands, Zenon

\* A chunk goes to the scheduled topic: its delivered records wait for the index.
LEMMA ScheduleChunkKeeps ==
    ASSUME ClientInv, NEW c \in Calls, NEW S, S \subseteq push[c].chunk, ScheduleChunk(c, S)
    PROVE  ClientInv' /\ CountStep
<1>1. PICK x, k : x = push[c] /\ k = settings.calls[c]
  BY Zenon
<1>2. x.at = "produce" /\ UNCHANGED <<indexVars, settings, lock, total, finished, doubt, lost>>
  BY <1>1, Zenon DEF ScheduleChunk
<1>3. /\ x \in PushCall /\ k \in CallType /\ Shape(k, x) /\ doubt \subseteq Jobs
      /\ lost \in BOOLEAN
  BY <1>1, CallFacts, Zenon
<1>4. /\ doubt \subseteq doubt' /\ doubt' \subseteq Jobs /\ lost' \in BOOLEAN /\ (lost => lost')
      /\ TotalStands
      /\ x.at # "failed" /\ x.at # "index" /\ x.at \in Open
  BY <1>2, <1>3, Zenon DEF Open, TotalStands
<1>5. UNCHANGED <<indexVars, settings, lock, finished>>
  BY <1>2, Zenon
<1>6. ASSUME NEW r \in PushCall, push' = [push EXCEPT ![c] = r], r.plan = x.plan, r.ok = x.ok,
             r.reserved = x.reserved, Shape(k, r), r.at # "failed",
             \A j \in Jobs : Owed(x, j) => Owed(r, j)'
      PROVE  ClientInv' /\ CountStep
  <2>1. x.plan \subseteq r.plan /\ r.plan \subseteq x.plan \cup doubt'
    BY <1>6, Zenon
  <2> QED
    BY <1>1, <1>4, <1>5, <1>6, <2>1, QuietStep, Zenon
<1>7. CASE S = {}
  <2>1. PICK r : r = Flagged(x, S)
    BY Zenon
  <2>2. S \subseteq x.chunk /\ x.at \in {"produce", "index"}
    BY <1>1, <1>2, Zenon
  <2>3. /\ r \in PushCall /\ Shape(k, r)
        /\ r.plan = x.plan /\ r.ok = x.ok \cup S /\ r.reserved = x.reserved
        /\ r.at \in {"produce", "returned", "release"}
        /\ r.at = "release" => r.todo = r.plan \ r.ok
    BY <1>3, <2>1, <2>2, FlaggedIs
  <2>4. push' = [push EXCEPT ![c] = r]
    BY <1>1, <1>7, <2>1, Zenon DEF ScheduleChunk
  <2>5. \A j \in Jobs : Owed(x, j) => Owed(r, j)'
    BY <2>3, Zenon DEF Owed, Open, Shape
  <2>6. r.ok = x.ok /\ r.at # "failed"
    BY <1>7, <2>3, Zenon
  <2> QED
    BY <1>6, <2>3, <2>4, <2>5, <2>6, Zenon
<1>8. CASE S # {}
  <2>1. PICK r : r = [x EXCEPT !.at = "index", !.sent = S]
    BY Zenon
  <2>2. S \subseteq Jobs
    BY <1>1, <1>3, Zenon DEF PushCall
  <2>3. /\ r \in PushCall /\ r.at = "index" /\ r.sent = S /\ r.plan = x.plan /\ r.ok = x.ok
        /\ r.reserved = x.reserved /\ r.chunk = x.chunk /\ r.rest = x.rest
    BY <1>3, <2>1, <2>2, Zenon DEF PushCall, Places
  <2>4. push' = [push EXCEPT ![c] = r]
    BY <1>1, <1>8, <2>1, Zenon DEF ScheduleChunk
  <2>5. Shape(k, r)
    BY <1>1, <1>2, <1>3, <2>3, Zenon DEF Shape
  <2>6. \A j \in Jobs : Owed(x, j) => Owed(r, j)'
    BY <2>3, Zenon DEF Owed, Open
  <2> QED
    BY <1>6, <2>3, <2>4, <2>5, <2>6, Zenon
<1> QED
  BY <1>7, <1>8, Zenon

\* The entries of the delivered records are written.
LEMMA IndexWritten ==
    ASSUME ClientInv, NEW c \in Calls, NEW x, x = push[c], x.at = "index",
           entry' = Scheduled(x.sent), NEW r \in PushCall, push' = [push EXCEPT ![c] = r],
           UNCHANGED <<due, poll, topic, dlt, dropped, settings, finished>>, doubt \subseteq doubt'
    PROVE  CallMoves(c, r, x.sent)
<1>1. topic \in [Jobs -> Nat] /\ entry \in [Jobs -> {"none", "pending", "leased", "lapsed"}]
  BY Zenon DEF ClientInv, PollTypeOK
<1>2. x.sent \subseteq x.plan
  BY CallFacts, Zenon DEF Shape
<1>3. /\ entry' \in [Jobs -> {"none", "pending", "leased", "lapsed"}]
      /\ \A j \in Jobs : entry'[j] = IF j \in x.sent THEN "pending" ELSE entry[j]
  BY <1>1, Zenon DEF Scheduled
<1>4. \A j \in Jobs : (Fired(j)' <=> Fired(j) \/ j \in x.sent) /\ topic[j] <= topic'[j]
  BY <1>1, <1>3 DEF Fired, Settled
<1> QED
  BY <1>1, <1>2, <1>3, <1>4, Zenon DEF CallMoves

\* The index is written, and the chunk's flags are set.
LEMMA WriteIndexKeeps == ASSUME ClientInv, NEW c \in Calls, WriteIndex(c) PROVE ClientInv' /\ CountStep
<1>1. PICK x, S : x = push[c] /\ S = push[c].sent
  BY Zenon
<1>2. /\ x.at = "index" /\ entry' = Scheduled(S) /\ push' = [push EXCEPT ![c] = Flagged(x, S)]
      /\ UNCHANGED <<due, poll, topic, dlt, dropped, settings, finished, lock, total, doubt, lost>>
  BY <1>1, Zenon DEF WriteIndex, fates
<1>3. /\ x \in PushCall /\ settings.calls[c] \in CallType /\ Shape(settings.calls[c], x)
      /\ doubt \subseteq Jobs
  BY <1>1, CallFacts, Zenon
<1>4. S \subseteq x.chunk /\ S = x.sent
  BY <1>1, <1>2, <1>3, Zenon DEF Shape
<1>5. Flagged(x, S) \in PushCall
  <2>1. x.at \in {"produce", "index"}
    BY <1>2, Zenon
  <2> QED
    BY <1>3, <1>4, <2>1, FlaggedIs, Zenon
<1>6. UNCHANGED <<due, poll, topic, dlt, dropped, settings, finished>> /\ doubt \subseteq doubt'
  BY <1>2, Zenon
<1>7. CallMoves(c, Flagged(x, S), S)
  BY <1>1, <1>2, <1>4, <1>5, <1>6, IndexWritten, Zenon
<1>8. /\ S \subseteq S /\ S \ S \subseteq doubt' /\ doubt' \subseteq Jobs
      /\ x.at \in {"produce", "index"} /\ x.sent \subseteq S /\ UNCHANGED <<lock, total, lost>>
  BY <1>2, <1>3, <1>4, Zenon
<1> QED
  BY <1>1, <1>4, <1>6, <1>7, <1>8, ChunkLands, Zenon

\* A write that was applied is reported failed: the call stays where it is.
LEMMA WriteIndexAgainKeeps == ASSUME ClientInv, NEW c \in Calls, WriteIndexAgain(c) PROVE ClientInv' /\ CountStep
<1>1. PICK x : x = push[c]
  BY Zenon
<1>2. /\ x.at = "index" /\ entry' = Scheduled(x.sent)
      /\ UNCHANGED <<due, poll, topic, dlt, dropped, settings, finished, lock, total, doubt, lost, push>>
  BY <1>1, Zenon DEF WriteIndexAgain, fates
<1>3. /\ x \in PushCall /\ settings.calls[c] \in CallType /\ Shape(settings.calls[c], x)
      /\ doubt \subseteq Jobs /\ x.plan \subseteq Jobs /\ lost \in BOOLEAN
      /\ \A j \in x.plan \ x.ok : j \in doubt \/ ~Fired(j) \/ (x.at = "index" /\ j \in x.sent)
      /\ \A j \in x.ok : Fired(j)
  BY <1>1, <1>2, CallFacts, Zenon
<1>4. push' = [push EXCEPT ![c] = x]
  BY <1>1, <1>2, Zenon DEF ClientInv, ClientTypeOK
<1>5. UNCHANGED <<due, poll, topic, dlt, dropped, settings, finished>> /\ doubt \subseteq doubt'
  BY <1>2, Zenon
<1>6. CallMoves(c, x, x.sent)
  BY <1>1, <1>2, <1>3, <1>4, <1>5, IndexWritten, Zenon
<1>7. \A j \in Jobs : Fired(j)' <=> Fired(j) \/ j \in x.sent
  BY <1>6, Zenon DEF CallMoves
<1>8. \A j \in x.plan \ x.ok :
         j \in doubt' \/ ~Fired(j)' \/ x.at = "failed" \/ (x.at = "index" /\ j \in x.sent)
  BY <1>2, <1>3, <1>7, Zenon
<1>9. \A j \in x.ok : Fired(j)'
  BY <1>3, <1>7, Zenon DEF Shape
<1>10. \A j \in Jobs \ {} : Owed(push[c], j) => Owed(x, j)'
  BY <1>1, <1>2, Zenon DEF Owed
<1>11. LocksDrop({}) /\ \A j \in {} : ~Promised(j)' \/ j \in doubt'
  BY <1>2, LocksStand, Zenon
<1>12. /\ TotalStands /\ lost' \in BOOLEAN /\ (lost => lost')
       /\ doubt' \subseteq Jobs
  BY <1>2, <1>3, Zenon DEF TotalStands
<1>13. /\ push[c].at # "failed" /\ x.at # "failed" /\ push[c].plan \subseteq x.plan
       /\ x.reserved = push[c].reserved /\ x.plan = push[c].plan
       /\ push[c].at \in Open /\ x.plan \subseteq push[c].plan \cup doubt'
  BY <1>1, <1>2, Zenon DEF Open
<1> QED
  BY <1>3, <1>6, <1>8, <1>9, <1>10, <1>11, <1>12, <1>13, PlainStep, Zenon

\* The retries are used up: the chunk is rolled back, its outcome in doubt where an
\* entry was written.
LEMMA WriteIndexFailsKeeps ==
    ASSUME ClientInv, NEW c \in Calls, NEW landed \in BOOLEAN, WriteIndexFails(c, landed)
    PROVE  ClientInv' /\ CountStep
<1>1. PICK x, k, r, N, D : /\ x = push[c] /\ k = settings.calls[c] /\ r = RollingBack(push[c])
                           /\ N = IF landed THEN push[c].sent ELSE {}
                           /\ D = {j \in push[c].sent : landed \/ entry[j] # "none" \/ Settled(j)}
  BY Zenon
<1>2. /\ x.at = "index" /\ entry' = (IF landed THEN Scheduled(x.sent) ELSE entry)
      /\ push' = [push EXCEPT ![c] = r] /\ doubt' = doubt \cup D
      /\ UNCHANGED <<due, poll, topic, dlt, dropped, settings, finished, lock, total, lost>>
  BY <1>1, Zenon DEF WriteIndexFails, fates
<1>3. /\ x \in PushCall /\ k \in CallType /\ Shape(k, x)
      /\ doubt \subseteq Jobs /\ x.plan \subseteq Jobs /\ lost \in BOOLEAN
      /\ \A j \in x.plan \ x.ok : j \in doubt \/ ~Fired(j) \/ (x.at = "index" /\ j \in x.sent)
      /\ \A j \in x.ok : Fired(j)
  BY <1>1, <1>2, CallFacts, Zenon
<1>4. /\ r \in PushCall /\ r.at = "release" /\ r.todo = x.plan \ x.ok
      /\ r.plan = x.plan /\ r.ok = x.ok /\ r.reserved = x.reserved
  BY <1>1, <1>3, RollingBackIs, Zenon
<1>5. x.sent \subseteq x.plan /\ N \subseteq x.sent /\ (N = x.sent \/ N = {})
  BY <1>1, <1>2, <1>3, Zenon DEF Shape
<1>6. doubt \subseteq doubt' /\ doubt' \subseteq Jobs /\ \A j \in x.sent : j \in doubt' \/ (~Fired(j) /\ N = {})
  <2>1. D \subseteq x.sent /\ \A j \in x.sent : j \in D \/ (~Fired(j) /\ ~landed)
    BY <1>1, Zenon DEF Fired
  <2> QED
    BY <1>1, <1>2, <1>3, <1>5, <2>1, Zenon
<1>7. UNCHANGED <<due, poll, topic, dlt, dropped, settings, finished>>
  BY <1>2, Zenon
<1>8. CallMoves(c, r, N)
  <2>1. CASE landed
    BY <1>1, <1>2, <1>4, <1>6, <1>7, <2>1, IndexWritten, Zenon
  <2>2. CASE ~landed
    <3>1. N = {} /\ entry' = entry /\ topic \in [Jobs -> Nat]
          /\ entry \in [Jobs -> {"none", "pending", "leased", "lapsed"}]
      BY <1>1, <1>2, <2>2, Zenon DEF ClientInv, PollTypeOK
    <3>2. \A j \in Jobs : (Fired(j)' <=> Fired(j) \/ j \in N) /\ topic[j] <= topic'[j]
      BY <1>2, <3>1 DEF Fired, Settled
    <3> QED
      BY <1>2, <1>4, <1>6, <3>1, <3>2, Zenon DEF CallMoves
  <2> QED
    BY <2>1, <2>2, Zenon
<1>9. \A j \in Jobs : Fired(j)' <=> Fired(j) \/ j \in N
  BY <1>8, Zenon DEF CallMoves
<1>10. \A j \in r.plan \ r.ok :
         j \in doubt' \/ ~Fired(j)' \/ r.at = "failed" \/ (r.at = "index" /\ j \in r.sent)
  BY <1>3, <1>4, <1>5, <1>6, <1>9, Zenon
<1>11. \A j \in r.ok : Fired(j)'
  BY <1>3, <1>4, <1>9, Zenon DEF Shape
<1>12. \A j \in Jobs \ {} : Owed(push[c], j) => Owed(r, j)'
  BY <1>1, <1>2, <1>4, Zenon DEF Owed
<1>13. LocksDrop({}) /\ \A j \in {} : ~Promised(j)' \/ j \in doubt'
  BY <1>2, LocksStand, Zenon
<1>14. TotalStands /\ lost' \in BOOLEAN /\ (lost => lost')
  BY <1>2, <1>3, Zenon DEF TotalStands
<1>15. Shape(k, r)
  BY <1>2, <1>3, <1>4, Zenon DEF Shape
<1>16. /\ push[c].at # "failed" /\ r.at # "failed" /\ push[c].plan \subseteq r.plan
       /\ r.reserved = push[c].reserved /\ r.plan = push[c].plan
       /\ r.at \notin Open /\ Shape(settings.calls[c], r)
  BY <1>1, <1>2, <1>4, <1>15, Zenon DEF Open
<1> QED
  BY <1>6, <1>8, <1>10, <1>11, <1>12, <1>13, <1>14, <1>16, PlainStep, Zenon

\* The caller dies.
LEMMA ClientCrashKeeps == ASSUME ClientInv, NEW c \in Calls, ClientCrash(c) PROVE ClientInv' /\ CountStep
<1>1. PICK x, k : x = push[c] /\ k = settings.calls[c]
  BY Zenon
<1>2. PICK r : r = [x EXCEPT !.at = "failed"]
  BY Zenon
<1>3. /\ x.at # "failed" /\ lost' = TRUE /\ push' = [push EXCEPT ![c] = r]
      /\ UNCHANGED <<indexVars, settings, lock, total, finished, doubt>>
  BY <1>1, <1>2, Zenon DEF ClientCrash, Go
<1>4. /\ x \in PushCall /\ k \in CallType /\ Shape(k, x) /\ doubt \subseteq Jobs
  BY <1>1, CallFacts, Zenon
<1>5. /\ r \in PushCall /\ r.at = "failed" /\ r.plan = x.plan /\ r.ok = x.ok
      /\ r.reserved = x.reserved
  BY <1>2, <1>4, Zenon DEF PushCall, Places
<1>6. Shape(k, r)
  BY <1>4, <1>5, Zenon DEF Shape
<1>7. \A j \in Jobs : Owed(x, j) => Owed(r, j)'
  BY <1>3, <1>5, Zenon DEF Owed
<1>8. /\ doubt \subseteq doubt' /\ doubt' \subseteq Jobs /\ lost' \in BOOLEAN /\ lost'
      /\ TotalStands
      /\ x.plan \subseteq r.plan /\ r.plan \subseteq x.plan \cup doubt' /\ r.at \notin Open
  BY <1>3, <1>4, <1>5, Zenon DEF Open, TotalStands
<1>9. UNCHANGED <<indexVars, settings, lock, finished>>
  BY <1>3, Zenon
<1> QED
  BY <1>1, <1>3, <1>5, <1>6, <1>7, <1>8, <1>9, QuietStep, Zenon

\* A lock is released only by the job it holds.
LEMMA ReleasedIs ==
    ASSUME ClientInv, NEW j \in Jobs, lock' = Released(j)
    PROVE  LocksDrop({j})
<1>1. /\ lock \in [Prints -> Jobs \cup {None}] /\ Fp(j) \in Prints /\ None \notin Jobs
      /\ \A f \in Prints : lock[f] = j => f = Fp(j)
  BY SettingsFacts, Zenon DEF ClientInv, ClientTypeOK, HeldInv
<1>2. CASE lock[Fp(j)] = j
  BY <1>1, <1>2, Zenon DEF Released, LocksDrop
<1>3. CASE lock[Fp(j)] # j
  BY <1>1, <1>3, Zenon DEF Released, LocksDrop
<1> QED
  BY <1>2, <1>3, Zenon

\* The next job rolled back is released, or not.
LEMMA ReleaseNextKeeps ==
    ASSUME ClientInv, NEW c \in Calls, NEW fails \in BOOLEAN, ReleaseNext(c, fails)
    PROVE  ClientInv' /\ CountStep
<1>0. PICK j \in push[c].todo :
         /\ lock' = IF fails THEN lock ELSE Released(j)
         /\ push' = [push EXCEPT ![c] = [push[c] EXCEPT !.todo = @ \ {j}]]
  BY Zenon DEF ReleaseNext
<1>1. PICK x, k : x = push[c] /\ k = settings.calls[c]
  BY Zenon
<1>2. PICK r : r = [x EXCEPT !.todo = x.todo \ {j}]
  BY Zenon
<1>3. /\ x.at = "release" /\ push' = [push EXCEPT ![c] = r]
      /\ lock' = (IF fails THEN lock ELSE Released(j)) /\ lost' = (lost \/ fails)
      /\ UNCHANGED <<indexVars, settings, total, finished, doubt>>
  BY <1>0, <1>1, <1>2, Zenon DEF ReleaseNext
<1>4. /\ x \in PushCall /\ k \in CallType /\ Shape(k, x) /\ x.plan \subseteq Jobs
      /\ doubt \subseteq Jobs /\ lost \in BOOLEAN
      /\ \A i \in x.plan \ x.ok : i \in doubt \/ ~Fired(i)
      /\ \A i \in x.ok : Fired(i)
  BY <1>1, <1>3, CallFacts, Zenon
<1>5. x.todo \subseteq Jobs
  BY <1>4, Zenon DEF PushCall
<1>6. j \in x.todo /\ j \in x.plan \ x.ok
  BY <1>0, <1>1, <1>3, <1>4, Zenon DEF Shape
<1>7. /\ r \in PushCall /\ r.at = "release" /\ r.plan = x.plan /\ r.ok = x.ok
      /\ r.reserved = x.reserved /\ r.todo = x.todo \ {j}
  BY <1>2, <1>3, <1>4, Zenon DEF PushCall
<1>8. Shape(k, r)
  BY <1>3, <1>4, <1>7, Zenon DEF Shape
<1>9. lost' \in BOOLEAN /\ (lost => lost') /\ (fails => lost')
  BY <1>3, <1>4, Zenon
<1>10. PICK R : R = IF fails THEN {} ELSE {j}
  BY Zenon
<1>11. LocksDrop(R)
  BY <1>3, <1>4, <1>6, <1>10, ReleasedIs, LocksStand, Zenon
<1>12. UNCHANGED <<indexVars, settings, finished>> /\ doubt \subseteq doubt' /\ doubt' \subseteq Jobs
  BY <1>3, <1>4, Zenon
<1>13. CallMoves(c, r, {}) /\ \A i \in Jobs : Fired(i)' <=> Fired(i)
  BY <1>3, <1>7, <1>12, QuietMoves, Zenon
<1>14. \A i \in Jobs \ R : Owed(push[c], i) => Owed(r, i)'
  BY <1>1, <1>3, <1>7, <1>9, <1>10, Zenon DEF Owed, Open
<1>15. \A i \in R : ~Promised(i)' \/ i \in doubt'
  <2>1. push'[c] = r /\ \A d \in Calls : d # c => push'[d] = push[d]
    BY <1>3, <1>7, PushIs, Zenon DEF ClientInv, ClientTypeOK
  <2>2. \A d \in Calls : j \in push'[d].plan => d = c
    BY <1>1, <1>6, <2>1, OwnJobs, Zenon DEF ClientInv
  <2>3. Promised(j)' => Fired(j)'
    BY <1>7, <2>1, <2>2, Zenon DEF Promised, Open
  <2> QED
    BY <1>3, <1>4, <1>6, <1>10, <1>13, <2>3, Zenon
<1>16. \A i \in r.plan \ r.ok :
         i \in doubt' \/ ~Fired(i)' \/ r.at = "failed" \/ (r.at = "index" /\ i \in r.sent)
  BY <1>4, <1>7, <1>12, <1>13, Zenon
<1>17. \A i \in r.ok : Fired(i)'
  BY <1>4, <1>7, <1>13, Zenon DEF Shape
<1>18. /\ TotalStands
       /\ push[c].at # "failed" /\ r.at # "failed" /\ r.at \notin Open
       /\ push[c].plan \subseteq r.plan /\ r.reserved = push[c].reserved /\ r.plan = push[c].plan
       /\ Shape(settings.calls[c], r)
  BY <1>1, <1>3, <1>4, <1>7, <1>8, Zenon DEF Open, TotalStands
<1> QED
  BY <1>9, <1>11, <1>12, <1>13, <1>14, <1>15, <1>16, <1>17, <1>18, PlainStep, Zenon

\* The rollback ends: what was not produced is taken out of the total.
LEMMA UnreserveKeeps ==
    ASSUME ClientInv, NEW c \in Calls, NEW fails \in BOOLEAN, Unreserve(c, fails)
    PROVE  ClientInv' /\ CountStep
<1>0. PollTypeOK /\ ClientTypeOK /\ PollInv /\ CallInv /\ FiredInv /\ LockInv /\ HeldInv
  BY Zenon DEF ClientInv
<1>1. PICK x, k, U : x = push[c] /\ k = settings.calls[c] /\ U = push[c].plan \ push[c].ok
  BY Zenon
<1>2. PICK r : r = [x EXCEPT !.at = "failed"]
  BY Zenon
<1>3. /\ x.at = "release" /\ x.todo = {} /\ push' = [push EXCEPT ![c] = r]
      /\ UNCHANGED <<indexVars, settings, lock, finished, doubt>>
  BY <1>1, <1>2, Zenon DEF Unreserve, Go
<1>4. /\ x \in PushCall /\ k \in CallType /\ Shape(k, x) /\ x.plan \subseteq Jobs
      /\ doubt \subseteq Jobs /\ lost \in BOOLEAN
      /\ \A j \in U : j \in doubt \/ ~Fired(j)
      /\ \A j \in x.ok : Fired(j)
  BY <1>1, <1>3, CallFacts, Zenon
<1>5. /\ r \in PushCall /\ r.at = "failed" /\ r.plan = x.plan /\ r.ok = x.ok
      /\ r.reserved = x.reserved
  BY <1>2, <1>4, Zenon DEF PushCall, Places
<1>6. Shape(k, r)
  BY <1>4, <1>5, Zenon DEF Shape
<1>7. /\ doubt \subseteq doubt' /\ doubt' \subseteq Jobs
      /\ x.plan \subseteq r.plan /\ r.plan \subseteq x.plan \cup doubt' /\ r.at \notin Open
      /\ x.at # "failed" /\ x.at # "index" /\ x.at \notin Open
  BY <1>3, <1>4, <1>5, Zenon DEF Open
<1>8. UNCHANGED <<indexVars, settings, lock, finished>>
  BY <1>3, Zenon
<1>9. lost' \in BOOLEAN /\ (lost => lost')
  BY <1>4, Zenon DEF Unreserve
<1>10. \A j \in Jobs : Owed(x, j) => Owed(r, j)'
  BY <1>3, <1>5, <1>7, <1>9, Zenon DEF Owed
<1>11. CASE ~x.reserved \/ fails \/ cancelled
  <2>1. total' = total /\ (x.reserved => lost')
    BY <1>1, <1>11, Zenon DEF Unreserve
  <2>2. TotalStands
    BY <2>1, Zenon DEF TotalStands
  <2> QED
    BY <1>1, <1>3, <1>5, <1>6, <1>7, <1>8, <1>9, <1>10, <2>1, <2>2, QuietStep, Zenon
<1>12. CASE ~(~x.reserved \/ fails \/ cancelled)
  <2>1. total' = total - Cardinality(U) /\ (lost' <=> lost) /\ x.reserved
    BY <1>1, <1>12, Zenon DEF Unreserve
  <2>2. U \in SUBSET Jobs
    BY <1>1, <1>4, Zenon
  <2>3. UNCHANGED <<indexVars, settings, finished>>
    BY <1>3, Zenon
  <2>4. CallMoves(c, r, {}) /\ \A j \in Jobs : Fired(j)' <=> Fired(j)
    BY <1>3, <1>5, <1>7, <2>3, QuietMoves, Zenon
  <2>5. PollTypeOK' /\ PollInv'
    BY <1>0, <2>4, MovesPoll, Zenon
  <2>6. CallInv' /\ FiredInv'
    <3>1. \A j \in r.ok : Fired(j)'
      BY <1>4, <1>5, <2>4, Zenon DEF Shape
    <3>2. push[c].plan \subseteq r.plan /\ (push[c].reserved => r.reserved) /\ Shape(settings.calls[c], r)
      BY <1>1, <1>5, <1>6, Zenon
    <3> QED
      BY <1>0, <1>5, <2>4, <3>1, <3>2, MovesCall, Zenon
  <2>7. LocksDrop({}) /\ \A j \in {} : ~Promised(j)' \/ j \in doubt'
    BY <1>3, LocksStand, Zenon
  <2>8. LockInv'
    BY <1>0, <1>7, <2>4, <2>7, MovesLock, Zenon
  <2>9. HeldInv'
    <3>1. \A j \in Jobs \ {} : Owed(push[c], j) => Owed(r, j)'
      BY <1>1, <1>10, Zenon
    <3> QED
      BY <1>0, <1>9, <2>4, <2>7, <3>1, MovesHeld, Zenon
  <2>10. ClientTypeOK'
    <3>1. push' \in [Calls -> PushCall]
      BY <1>0, <1>3, <1>5, Zenon DEF ClientTypeOK
    <3> QED
      BY <1>0, <1>3, <1>9, <3>1, Zenon DEF ClientTypeOK
  <2>11. ASSUME doubt = {}
         PROVE  CountedJobs = CountedJobs' \cup U /\ CountedJobs' \cap U = {}
    <3>1. push'[c] = r /\ \A d \in Calls : d # c => push'[d] = push[d]
      BY <1>0, <1>3, PushIs, Zenon DEF ClientTypeOK
    <3>2. \A j \in U : ~Fired(j)
      BY <1>3, <1>4, <2>11, Zenon
    <3>3. \A j \in Jobs : Counted(push[c], j)' <=> j \in x.ok
      BY <1>1, <1>4, <1>5, <2>1, <2>4, <3>1, <3>2, Zenon DEF Counted, Shape
    <3>4. \A j \in Jobs : Counted(push[c], j) <=> j \in x.plan
      BY <1>1, <1>7, <2>1, Zenon DEF Counted
    <3>5. \A d \in Calls : \A j \in Jobs : d # c => (Counted(push[d], j)' <=> Counted(push[d], j))
      BY <2>4, <3>1, Zenon DEF Counted
    <3>6. U \subseteq Jobs /\ x.ok \subseteq x.plan /\ U = x.plan \ x.ok
      BY <1>1, <1>4, Zenon DEF Shape
    <3>7. \A d \in Calls : \A j \in Jobs : d # c /\ Counted(push[d], j) => j \notin x.plan
      BY <1>0, <1>1, OwnJobs, Zenon DEF Counted
    <3> QED
      BY <3>3, <3>4, <3>5, <3>6, <3>7, Zenon DEF CountedJobs
  <2>12. CountStep
    BY <1>7, <1>9, <2>1, <2>2, <2>11, Zenon DEF CountStep, Removes
  <2> QED
    BY <2>5, <2>6, <2>8, <2>9, <2>10, <2>12, Zenon DEF ClientInv
<1> QED
  BY <1>11, <1>12, Zenon

\* What is not planned has not fired.
LEMMA UnplannedUnfired ==
    ASSUME ClientInv, NEW c \in Calls, NEW j \in Jobs, j \in settings.calls[c].jobs, j \notin push[c].plan
    PROVE  ~Fired(j) /\ j \notin finished
<1>1. ~Fired(j)
  <2> SUFFICES ASSUME Fired(j) PROVE FALSE
    BY Zenon
  <2>1. PICK d \in Calls : PlannedBy(d, j)
    BY Zenon DEF ClientInv, FiredInv
  <2>2. j \in settings.calls[d].jobs
    BY <2>1, CallFacts, Zenon DEF PlannedBy, Shape
  <2>3. d = c
    BY <2>2, SettingsFacts, Zenon DEF ClientInv
  <2> QED
    BY <2>1, <2>3, Zenon DEF PlannedBy
<1> QED
  BY <1>1, Zenon DEF ClientInv, FiredInv, Fired, Settled

\* A free lock is taken for the next payload.
LEMMA LockTaken ==
    ASSUME ClientInv, NEW c \in Calls, NEW x, x = push[c], x.at = "claim",
           NEW j, j \in x.todo, lock[Fp(j)] = None, lock' = [lock EXCEPT ![Fp(j)] = j],
           NEW r \in PushCall, r.at = "claim", r.todo = x.todo \ {j}, r.plan = x.plan \cup {j},
           r.ok = x.ok, r.reserved = x.reserved, push' = [push EXCEPT ![c] = r],
           UNCHANGED <<indexVars, settings, total, finished, doubt, lost>>
    PROVE  ClientInv' /\ CountStep
<1>0. PollTypeOK /\ ClientTypeOK /\ PollInv /\ CallInv /\ FiredInv /\ LockInv /\ HeldInv
  BY Zenon DEF ClientInv
<1>1. PICK k : k = settings.calls[c]
  BY Zenon
<1>2. /\ x \in PushCall /\ k \in CallType /\ Shape(k, x) /\ x.plan \subseteq Jobs
      /\ lost \in BOOLEAN /\ doubt \subseteq Jobs
      /\ \A i \in x.plan \ x.ok : i \in doubt \/ ~Fired(i)
  BY <1>1, CallFacts, Zenon
<1>3. j \in Jobs /\ j \in k.jobs /\ j \notin x.plan /\ x.ok = {} /\ ~x.reserved
  BY <1>2, Zenon DEF Shape, PushCall
<1>4. ~Fired(j) /\ j \notin finished
  BY <1>1, <1>3, UnplannedUnfired, Zenon
<1>5. UNCHANGED <<indexVars, settings, finished>> /\ doubt \subseteq doubt'
  BY Zenon
<1>6. CallMoves(c, r, {}) /\ \A i \in Jobs : Fired(i)' <=> Fired(i)
  BY <1>5, QuietMoves, Zenon
<1>7. push'[c] = r /\ \A d \in Calls : d # c => push'[d] = push[d]
  BY <1>0, PushIs, Zenon DEF ClientTypeOK
<1>8. PICK f : f = Fp(j) /\ f \in Prints /\ f = settings'.fp[j]
  BY <1>0, <1>3, SettingsFacts, Zenon DEF Fp
<1>9. /\ lock \in [Prints -> Jobs \cup {None}] /\ lock' \in [Prints -> Jobs \cup {None}]
      /\ lock[f] = None /\ lock'[f] = j /\ \A g \in Prints : g # f => lock'[g] = lock[g]
  BY <1>0, <1>3, <1>8, Zenon DEF ClientTypeOK
<1>10. PollTypeOK' /\ PollInv'
  BY <1>0, <1>6, MovesPoll, Zenon
<1>11. CallInv' /\ FiredInv'
  <2>1. Shape(settings.calls[c], r)
    BY <1>1, <1>2, <1>3, Zenon DEF Shape
  <2>2. \A i \in r.plan \ r.ok :
            i \in doubt' \/ ~Fired(i)' \/ r.at = "failed" \/ (r.at = "index" /\ i \in r.sent)
    BY <1>2, <1>3, <1>4, <1>6, Zenon
  <2>3. push[c].plan \subseteq r.plan /\ (push[c].reserved => r.reserved) /\ \A i \in r.ok : Fired(i)'
    BY <1>3, Zenon
  <2> QED
    BY <1>0, <1>6, <2>1, <2>2, <2>3, MovesCall, Zenon
<1>12. ClientTypeOK'
  <2>1. push' \in [Calls -> PushCall]
    BY <1>0, Zenon DEF ClientTypeOK
  <2> QED
    BY <1>0, <1>9, <2>1, Zenon DEF ClientTypeOK
<1>13. LockInv'
  <2> SUFFICES ASSUME NEW i \in Jobs, i \notin doubt, i \notin finished, Promised(i)'
               PROVE  lock'[settings.fp[i]] = i
    BY Zenon DEF LockInv, Fp
  <2>1. CASE i = j
    BY <1>8, <1>9, <2>1, Zenon DEF Fp
  <2>2. CASE i # j
    <3>1. Promised(i)
      <4>1. CASE Fired(i)'
        BY <1>6, <4>1, Zenon DEF Promised
      <4>2. ASSUME NEW d \in Calls, push'[d].at \in Open, i \in push'[d].plan PROVE Promised(i)
        <5>1. CASE d = c
          BY <1>7, <2>2, <4>2, <5>1 DEF Promised, Open
        <5>2. CASE d # c
          BY <1>7, <4>2, <5>2, Zenon DEF Promised
        <5> QED
          BY <5>1, <5>2, Zenon
      <4> QED
        BY <4>1, <4>2, Zenon DEF Promised
    <3>2. lock[Fp(i)] = i /\ Fp(i) \in Prints /\ i # None
      BY <1>0, <3>1, SettingsFacts, Zenon DEF LockInv
    <3> QED
      BY <1>9, <3>2, Zenon DEF Fp
  <2> QED
    BY <2>1, <2>2, Zenon
<1>14. HeldInv'
  <2>1. \A i \in Jobs : Owed(push[c], i) => Owed(push[c], i)'
    BY <1>7, Zenon DEF Owed
  <2>2. \A d \in Calls : \A i \in Jobs : Owed(push[d], i) => Owed(push[d], i)'
    <3> SUFFICES ASSUME NEW d \in Calls, NEW i \in Jobs, Owed(push[d], i) PROVE Owed(push[d], i)'
      BY Zenon
    <3>1. CASE d = c
      BY <2>1, <3>1, Zenon
    <3>2. CASE d # c
      BY <1>7, <3>2, Zenon DEF Owed
    <3> QED
      BY <3>1, <3>2, Zenon
  <2>3. Owed(push[c], j)'
    BY <1>7, Zenon DEF Owed, Open
  <2> SUFFICES ASSUME NEW g \in Prints, lock'[g] # None
               PROVE  /\ settings.fp[lock'[g]] = g /\ lock'[g] \notin finished
                      /\ \E d \in Calls : Owed(push[d], lock[g])'
    BY DEF HeldInv, Fp
  <2>4. CASE g = f
    BY <1>4, <1>8, <1>9, <2>3, <2>4, Zenon DEF Fp, Owed
  <2>5. CASE g # f
    <3>1. PICK i : i = lock'[g] /\ i = lock[g]
      BY <1>9, <2>5, Zenon
    <3>2. i \in Jobs /\ Fp(i) = g /\ i \notin finished
      BY <1>0, <1>9, <3>1, Zenon DEF HeldInv
    <3>3. PICK d \in Calls : Owed(push[d], i)
      BY <1>0, <3>1 DEF HeldInv
    <3>4. Owed(push[d], i)'
      BY <2>2, <3>2, <3>3, Zenon
    <3> QED
      BY <3>1, <3>2, <3>4, Zenon DEF Fp, Owed
  <2> QED
    BY <2>4, <2>5, Zenon
<1>15. CountStep
  <2>1. \A i \in Jobs : ~Counted(r, i)' /\ ~Counted(push[c], i)
    BY <1>3, Zenon DEF Counted
  <2>2. CountsStand
    BY <1>0, <1>6, <2>1, MovesCounts, Zenon
  <2> QED
    BY <2>2, Zenon DEF CountStep, TotalStands
<1> QED
  BY <1>10, <1>11, <1>12, <1>13, <1>14, <1>15, Zenon DEF ClientInv

\* SET NX of the next payload's key.
LEMMA ClaimKeeps == ASSUME ClientInv, NEW c \in Calls, Claim(c) PROVE ClientInv' /\ CountStep
<1>0. PICK j \in push[c].todo :
         /\ lock' = IF lock[Fp(j)] = None THEN [lock EXCEPT ![Fp(j)] = j] ELSE lock
         /\ push' = [push EXCEPT ![c] =
                       [push[c] EXCEPT !.todo = @ \ {j},
                                       !.plan = IF lock[Fp(j)] = None THEN @ \cup {j} ELSE @,
                                       !.skipped = @ \/ ~(lock[Fp(j)] = None)]]
  BY Zenon DEF Claim
<1>1. PICK x, k : x = push[c] /\ k = settings.calls[c]
  BY Zenon
<1>2. x.at = "claim" /\ UNCHANGED <<indexVars, settings, total, finished, doubt, lost>>
  BY <1>1, Zenon DEF Claim
<1>3. /\ x \in PushCall /\ k \in CallType /\ Shape(k, x) /\ lost \in BOOLEAN
      /\ doubt \subseteq Jobs
  BY <1>1, CallFacts, Zenon
<1>4. x.todo \subseteq Jobs
  BY <1>3, Zenon DEF PushCall
<1>5. j \in x.todo /\ j \in Jobs
  BY <1>0, <1>1, <1>4, Zenon
<1>6. CASE lock[Fp(j)] = None
  <2>1. PICK r : r = [x EXCEPT !.todo = x.todo \ {j}, !.plan = x.plan \cup {j}]
    BY Zenon
  <2>2. /\ r \in PushCall /\ r.at = "claim" /\ r.todo = x.todo \ {j} /\ r.plan = x.plan \cup {j}
        /\ r.ok = x.ok /\ r.reserved = x.reserved
    BY <1>2, <1>3, <1>5, <2>1, Zenon DEF PushCall
  <2>3. lock' = [lock EXCEPT ![Fp(j)] = j]
    BY <1>0, <1>1, <1>6, Zenon
  <2>4. push' = [push EXCEPT ![c] = [x EXCEPT !.todo = x.todo \ {j}, !.plan = x.plan \cup {j},
                                              !.skipped = x.skipped \/ FALSE]]
    BY <1>0, <1>1, <1>6, Zenon
  <2>5. [x EXCEPT !.todo = x.todo \ {j}, !.plan = x.plan \cup {j}, !.skipped = x.skipped \/ FALSE] = r
    <3>1. x.skipped \in BOOLEAN
      BY <1>3, Zenon DEF PushCall
    <3>2. (x.skipped \/ FALSE) = x.skipped
      BY <3>1, Zenon
    <3> QED
      BY <1>3, <2>1, <3>2, Zenon DEF PushCall
  <2>6. push' = [push EXCEPT ![c] = r]
    BY <2>4, <2>5, Zenon
  <2> QED
    BY <1>1, <1>2, <1>5, <1>6, <2>2, <2>3, <2>6, LockTaken, Zenon
<1>7. CASE lock[Fp(j)] # None
  <2>1. PICK r : r = [x EXCEPT !.todo = x.todo \ {j}, !.plan = x.plan, !.skipped = TRUE]
    BY Zenon
  <2>2. /\ r \in PushCall /\ r.at = "claim" /\ r.todo = x.todo \ {j} /\ r.plan = x.plan
        /\ r.ok = x.ok /\ r.reserved = x.reserved
    BY <1>2, <1>3, <1>5, <2>1, Zenon DEF PushCall
  <2>3. lock' = lock
    BY <1>0, <1>1, <1>7, Zenon
  <2>4. push' = [push EXCEPT ![c] = [x EXCEPT !.todo = x.todo \ {j}, !.plan = x.plan,
                                              !.skipped = x.skipped \/ TRUE]]
    BY <1>0, <1>1, <1>7, Zenon
  <2>5. push' = [push EXCEPT ![c] = r]
    BY <2>1, <2>4, Zenon
  <2>6. Shape(k, r)
    BY <1>2, <1>3, <2>2, Zenon DEF Shape
  <2>7. \A i \in Jobs : Owed(x, i) => Owed(r, i)'
    BY <2>2, Zenon DEF Owed, Open
  <2>8. /\ doubt \subseteq doubt' /\ doubt' \subseteq Jobs /\ lost' \in BOOLEAN /\ (lost => lost')
        /\ TotalStands
        /\ x.plan \subseteq r.plan /\ r.plan \subseteq x.plan \cup doubt'
        /\ x.at # "failed" /\ x.at # "index" /\ x.at \in Open /\ r.at # "failed"
    BY <1>2, <1>3, <2>2, Zenon DEF Open, TotalStands
  <2>9. UNCHANGED <<indexVars, settings, lock, finished>>
    BY <1>2, <2>3, Zenon
  <2> QED
    BY <1>1, <2>2, <2>5, <2>6, <2>7, <2>8, <2>9, QuietStep, Zenon
<1> QED
  BY <1>6, <1>7, Zenon

-----------------------------------------------------------------------------
(* Around the client *)

\* What stands while the calls and the index do.
LEMMA CallsStand ==
    ASSUME ClientInv, UNCHANGED <<indexVars, settings, push, total, lost>>,
           doubt \subseteq doubt', doubt' \subseteq Jobs, finished' \subseteq Jobs,
           \A j \in finished' : topic[j] > 0, lock' \in [Prints -> Jobs \cup {None}]
    PROVE  /\ PollTypeOK' /\ PollInv' /\ ClientTypeOK' /\ CallInv' /\ FiredInv' /\ CountStep
           /\ \A j \in Jobs : Promised(j)' <=> Promised(j)
<1>1. \A j : Fired(j)' <=> Fired(j)
  BY Zenon DEF indexVars, Fired, Settled
<1>2. PollTypeOK' /\ PollInv'
  BY <1>1, Zenon DEF ClientInv, PollTypeOK, PollInv, indexVars, Settled
<1>3. ClientTypeOK'
  BY Zenon DEF ClientInv, ClientTypeOK
<1>4. CallInv'
  BY <1>1, Zenon DEF ClientInv, CallInv, Unfired
<1>5. FiredInv'
  BY <1>1, Zenon DEF ClientInv, FiredInv, PlannedBy, indexVars
<1>6. CountedJobs' = CountedJobs
  BY <1>1, Zenon DEF CountedJobs, Counted
<1>7. CountStep
  BY <1>6, Zenon DEF CountStep, CountsStand, TotalStands
<1>8. \A j \in Jobs : Promised(j)' <=> Promised(j)
  BY <1>1, Zenon DEF Promised
<1> QED
  BY <1>2, <1>3, <1>4, <1>5, <1>7, <1>8, Zenon

\* A worker ends a job, and releases its lock.
LEMMA FinishKeeps == ASSUME ClientInv, NEW j \in Jobs, Finish(j) PROVE ClientInv' /\ CountStep
<1>1. /\ topic[j] > 0 /\ finished' = finished \cup {j} /\ lock' = Released(j)
      /\ UNCHANGED <<indexVars, settings, push, total, doubt, lost>>
  BY Zenon DEF Finish
<1>2. LocksDrop({j})
  BY <1>1, ReleasedIs, Zenon
<1>3. /\ finished \subseteq Jobs /\ doubt \subseteq Jobs /\ \A i \in finished : topic[i] > 0
      /\ lock \in [Prints -> Jobs \cup {None}] /\ \A i \in Jobs : Fp(i) \in Prints
  BY SettingsFacts, Zenon DEF ClientInv, ClientTypeOK, FiredInv
<1>4. /\ UNCHANGED <<indexVars, settings, push, total, lost>>
      /\ doubt \subseteq doubt' /\ doubt' \subseteq Jobs /\ finished' \subseteq Jobs
      /\ \A i \in finished' : topic[i] > 0
      /\ lock' \in [Prints -> Jobs \cup {None}]
  BY <1>1, <1>2, <1>3, Zenon DEF LocksDrop
<1>5. /\ PollTypeOK' /\ PollInv' /\ ClientTypeOK' /\ CallInv' /\ FiredInv' /\ CountStep
      /\ \A i \in Jobs : Promised(i)' <=> Promised(i)
  BY <1>4, CallsStand, Zenon
<1>6. LockInv'
  <2> SUFFICES ASSUME NEW i \in Jobs, i \notin doubt', i \notin finished', Promised(i)'
               PROVE  lock'[settings.fp[i]] = i
    BY <1>1, Zenon DEF LockInv, Fp
  <2>1. lock[Fp(i)] = i /\ i # j
    BY <1>1, <1>5, Zenon DEF ClientInv, LockInv
  <2> QED
    BY <1>2, <1>3, <2>1, Zenon DEF LocksDrop, Fp
<1>7. HeldInv'
  <2> SUFFICES ASSUME NEW f \in Prints, lock'[f] # None
               PROVE  /\ settings.fp[lock'[f]] = f /\ lock'[f] \notin finished'
                      /\ \E d \in Calls : Owed(push[d], lock[f])'
    BY <1>1, Zenon DEF HeldInv, Fp
  <2>1. PICK i : i = lock'[f] /\ i = lock[f] /\ i # j
    BY <1>2, Zenon DEF LocksDrop
  <2>2. Fp(i) = f /\ i \notin finished'
    BY <1>1, <2>1, Zenon DEF ClientInv, HeldInv
  <2>3. PICK d \in Calls : Owed(push[d], i)
    BY <2>1, Zenon DEF ClientInv, HeldInv
  <2>4. Owed(push[d], i)'
    BY <1>1, <2>3, Zenon DEF Owed
  <2> QED
    BY <2>1, <2>2, <2>4, Zenon DEF Fp, Owed
<1> QED
  BY <1>5, <1>6, <1>7, Zenon DEF ClientInv

\* A lock runs out under a live job, which is in doubt from then on.
LEMMA LockExpiresKeeps == ASSUME ClientInv, NEW f \in Prints, LockExpires(f) PROVE ClientInv' /\ CountStep
<1>1. /\ lock[f] # None /\ lock' = [lock EXCEPT ![f] = None] /\ doubt' = doubt \cup {lock[f]}
      /\ UNCHANGED <<indexVars, settings, push, total, finished, lost>>
  BY Zenon DEF LockExpires
<1>2. /\ finished \subseteq Jobs /\ doubt \subseteq Jobs /\ \A i \in finished : topic[i] > 0
      /\ lock \in [Prints -> Jobs \cup {None}] /\ \A i \in Jobs : Fp(i) \in Prints
  BY SettingsFacts, Zenon DEF ClientInv, ClientTypeOK, FiredInv
<1>3. /\ lock' \in [Prints -> Jobs \cup {None}] /\ lock'[f] = None
      /\ \A g \in Prints : g # f => lock'[g] = lock[g]
  BY <1>1, <1>2, Zenon
<1>4. /\ UNCHANGED <<indexVars, settings, push, total, lost>>
      /\ doubt \subseteq doubt' /\ doubt' \subseteq Jobs /\ finished' \subseteq Jobs
      /\ \A i \in finished' : topic[i] > 0
  BY <1>1, <1>2, Zenon
<1>5. /\ PollTypeOK' /\ PollInv' /\ ClientTypeOK' /\ CallInv' /\ FiredInv' /\ CountStep
      /\ \A i \in Jobs : Promised(i)' <=> Promised(i)
  BY <1>3, <1>4, CallsStand, Zenon
<1>6. LockInv'
  <2> SUFFICES ASSUME NEW i \in Jobs, i \notin doubt', i \notin finished', Promised(i)'
               PROVE  lock'[settings.fp[i]] = i
    BY <1>1, Zenon DEF LockInv, Fp
  <2>1. lock[Fp(i)] = i /\ i # lock[f]
    BY <1>1, <1>5, Zenon DEF ClientInv, LockInv
  <2> QED
    BY <1>2, <1>3, <2>1, Zenon DEF Fp
<1>7. HeldInv'
  <2> SUFFICES ASSUME NEW g \in Prints, lock'[g] # None
               PROVE  /\ settings.fp[lock'[g]] = g /\ lock'[g] \notin finished'
                      /\ \E d \in Calls : Owed(push[d], lock[g])'
    BY <1>1, Zenon DEF HeldInv, Fp
  <2>1. PICK i : i = lock'[g] /\ i = lock[g]
    BY <1>3, Zenon
  <2>2. Fp(i) = g /\ i \notin finished'
    BY <1>1, <2>1, Zenon DEF ClientInv, HeldInv
  <2>3. PICK d \in Calls : Owed(push[d], i)
    BY <2>1, Zenon DEF ClientInv, HeldInv
  <2>4. Owed(push[d], i)'
    BY <1>1, <2>3, Zenon DEF Owed
  <2> QED
    BY <2>1, <2>2, <2>4, Zenon DEF Fp, Owed
<1> QED
  BY <1>5, <1>6, <1>7, Zenon DEF ClientInv

-----------------------------------------------------------------------------
(* The invariant, and what it gives *)

\* The invariant holds before the first call.
LEMMA ClientInitInv == Init => ClientInv
<1> SUFFICES ASSUME Init PROVE ClientInv
  BY Zenon
<1>1. /\ entry = [j \in Jobs |-> "none"] /\ due = {} /\ poll = [p \in Pollers |-> Idle]
      /\ topic = [j \in Jobs |-> 0] /\ dlt = {} /\ dropped = {}
      /\ settings \in Instances /\ lock = [f \in Prints |-> None]
      /\ total = 0 /\ finished = {} /\ doubt = {} /\ lost = FALSE
  BY Zenon DEF Init, IndexInit
<1>2. PollTypeOK
  <2>1. poll \in [Pollers -> PollerRecs]
    BY <1>1, IdleIs, Zenon
  <2> QED
    BY <1>1, <2>1, Zenon DEF PollTypeOK, PollerRecs
<1>3. \A j \in Jobs : ~Fired(j)
  BY <1>1 DEF Fired, Settled
<1>4. PollInv
  BY <1>1, IdleIs, Zenon DEF PollInv
<1>5. settings \in Settings /\ settings.calls \in [Calls -> CallType]
  BY <1>1, ClientPushAssumption, Zenon DEF Settings
<1>6. push = [c \in Calls |-> [at |-> "claim", todo |-> settings.calls[c].jobs, plan |-> {},
                               skipped |-> FALSE, reserved |-> FALSE, chunk |-> {},
                               rest |-> {}, sent |-> {}, ok |-> {}]]
  BY Zenon DEF Init
<1>7. push \in [Calls -> PushCall]
  BY <1>5, <1>6, Zenon DEF PushCall, Places, CallType
<1>8. \A c \in Calls : /\ push[c].at = "claim" /\ push[c].plan = {} /\ push[c].ok = {}
                       /\ ~push[c].reserved /\ push[c].todo = settings.calls[c].jobs
  BY <1>6, Zenon
<1>9. ClientTypeOK
  <2>1. lock \in [Prints -> Jobs \cup {None}]
    BY <1>1, Zenon
  <2>2. lost \in BOOLEAN
    BY <1>1, Zenon
  <2> QED
    BY <1>1, <1>7, <2>1, <2>2, Zenon DEF ClientTypeOK
<1>10. CallInv
  BY <1>8, Zenon DEF CallInv, Shape, Unfired
<1>11. FiredInv /\ LockInv /\ HeldInv
  BY <1>1, <1>3, <1>8, Zenon DEF FiredInv, LockInv, HeldInv, Promised
<1> QED
  BY <1>2, <1>4, <1>9, <1>10, <1>11, Zenon DEF ClientInv

\* Every step of a call, of a poller and around them keeps it.
LEMMA ClientStep == ClientInv /\ [Next]_vars => ClientInv' /\ CountStep
<1> SUFFICES ASSUME ClientInv, [Next]_vars PROVE ClientInv' /\ CountStep
  BY Zenon
<1>0. PollTypeOK /\ PollInv
  BY Zenon DEF ClientInv
<1>1. ASSUME NEW c \in Calls, Call(c) PROVE ClientInv' /\ CountStep
  <2>1. push[c].chunk \subseteq push[c].chunk /\ {} \subseteq push[c].chunk \ push[c].chunk
    BY Zenon
  <2> QED
    BY <1>1, <2>1, ClaimKeeps, PlannedKeeps, ReserveKeeps, ProduceChunkKeeps, ScheduleChunkKeeps,
       WriteIndexKeeps, ReleaseNextKeeps, UnreserveKeeps, Zenon DEF Call
<1>2. ASSUME NEW c \in Calls, CallFault(c) PROVE ClientInv' /\ CountStep
  <2>1. ASSUME NEW S \in SUBSET push[c].chunk, ScheduleChunk(c, S) PROVE ClientInv' /\ CountStep
    BY <2>1, ScheduleChunkKeeps, Zenon
  <2>2. ASSUME NEW S \in SUBSET push[c].chunk, NEW landed \in SUBSET (push[c].chunk \ S),
               ProduceChunk(c, S, landed)
        PROVE  ClientInv' /\ CountStep
    BY <2>2, ProduceChunkKeeps, Zenon
  <2> QED
    BY <1>2, <2>1, <2>2, ClaimFailsOpenKeeps, ReserveFailsKeeps, WriteIndexAgainKeeps,
       WriteIndexFailsKeeps, ReleaseNextKeeps, UnreserveKeeps, ClientCrashKeeps, Zenon DEF CallFault
<1>3. ASSUME \/ \E p \in Pollers : Poll(p) \/ PollFault(p)
             \/ Time \/ (\E j \in Jobs : Held(j) /\ LeaseEnds(j)) \/ Cancel,
             Quiet \/ Disturbed
      PROVE  ClientInv' /\ CountStep
  <2>1. IndexKept
    BY <1>0, <1>3, IndexStep, Zenon
  <2>2. UNCHANGED <<settings, lock, push, total, finished, doubt, lost>>
    BY <1>3, Zenon DEF Quiet, Disturbed, clientVars
  <2> QED
    BY <2>1, <2>2, QuietKeeps, Zenon
<1>4. CASE UNCHANGED vars
  <2>1. UNCHANGED <<settings, lock, push, total, finished, doubt, lost>>
    BY <1>4, Zenon DEF vars, clientVars
  <2>2. IndexKept
    BY <1>0, <1>4 DEF vars, indexVars, IndexKept, PollTypeOK, PollInv, Fired, Settled
  <2> QED
    BY <2>1, <2>2, QuietKeeps, Zenon
<1>5. CASE Progress
  BY <1>1, <1>3, <1>5, FinishKeeps, Zenon DEF Progress
<1>6. CASE Next
  BY <1>2, <1>3, <1>5, <1>6, LockExpiresKeeps, Zenon DEF Next
<1> QED
  BY <1>4, <1>6, Zenon

\* It holds of every run.
LEMMA ClientAlways == Spec => []ClientInv
  BY ClientInitInv, ClientStep, PTL DEF Spec

\* A job the client reports as pushed is never lost, whatever fails.
THEOREM ReportedStays == Spec => []PushedAccounted
<1>1. ClientInv => PushedAccounted
  BY Zenon DEF ClientInv, CallInv, PushedAccounted
<1> QED
  BY <1>1, ClientAlways, PTL

\* Two jobs of one fingerprint are never live at a time, save those in doubt.
THEOREM LockedOnce == Spec => []UniqueLive
<1>1. ClientInv => UniqueLive
  <2> SUFFICES ASSUME ClientInv, NEW i \in Jobs \ doubt, NEW j \in Jobs \ doubt,
                      Fp(i) = Fp(j), Live(i), Live(j)
               PROVE  i = j
    BY Zenon DEF UniqueLive
  <2>1. Fired(i) /\ Fired(j) /\ i \notin finished /\ j \notin finished
    BY Zenon DEF Live, Fired, Settled
  <2>2. lock[Fp(i)] = i /\ lock[Fp(j)] = j
    BY <2>1, Zenon DEF ClientInv, LockInv, Promised
  <2> QED
    BY <2>2, Zenon
<1> QED
  BY <1>1, ClientAlways, PTL

\* When the calls are over, no lock is left behind by a push that was rolled back.
THEOREM NoLockLeft == Spec => []LocksFollowJobs
<1>1. ClientInv => LocksFollowJobs
  <2> SUFFICES ASSUME ClientInv, ~lost, ~settings.raise,
                      \A c \in Calls : push[c].at \in {"returned", "failed"},
                      NEW f \in Prints, lock[f] # None
               PROVE  Live(lock[f]) \/ lock[f] \in doubt \cup dlt \cup dropped
    BY Zenon DEF LocksFollowJobs
  <2>1. PICK j : j = lock[f]
    BY Zenon
  <2>2. j \notin finished
    BY <2>1, Zenon DEF ClientInv, HeldInv
  <2>3. PICK c \in Calls : Owed(push[c], j)
    BY <2>1, Zenon DEF ClientInv, HeldInv
  <2>4. j \in push[c].ok
    BY <2>3, Zenon DEF Owed, Open
  <2>5. Fired(j)
    BY <2>4, CallFacts, Zenon
  <2> QED
    BY <2>1, <2>2, <2>5, Zenon DEF Fired, Settled, Live
<1> QED
  BY <1>1, ClientAlways, PTL

-----------------------------------------------------------------------------
(* The batch's total: what every step does to the total and to the jobs it
   stands for is known from ClientStep; here the jobs are counted *)

INSTANCE FiniteSetTheorems

\* The total covers the jobs it stands for, and is their number while nothing was
\* lost; a job in doubt may have fired without the client knowing.
TotalInv ==
    /\ total \in Int
    /\ doubt = {} => /\ Cardinality(CountedJobs) <= total
                     /\ ~lost => Cardinality(CountedJobs) = total

\* Every set of jobs is finite.
LEMMA JobsFinite == ASSUME NEW S, S \subseteq Jobs
                    PROVE  IsFiniteSet(S) /\ Cardinality(S) \in Nat
  BY ClientPushAssumption, FS_Subset, FS_CardinalityType, Zenon

\* The sizes of two disjoint sets add up.
LEMMA DisjointUnion ==
    ASSUME NEW S, NEW T, IsFiniteSet(S), IsFiniteSet(T), S \cap T = {}
    PROVE  Cardinality(S \cup T) = Cardinality(S) + Cardinality(T)
<1>1. Cardinality(S \cup T) = Cardinality(S) + Cardinality(T) - Cardinality(S \cap T)
  BY FS_Union, Zenon
<1>2. Cardinality(S \cap T) = 0
  BY FS_EmptySet, Zenon
<1>3. Cardinality(S) \in Nat /\ Cardinality(T) \in Nat
  BY FS_CardinalityType, Zenon
<1> QED
  BY <1>1, <1>2, <1>3

\* Before the first call nothing is counted.
LEMMA TotalInit == Init => TotalInv
<1> SUFFICES ASSUME Init PROVE TotalInv
  BY Zenon
<1>1. total = 0 /\ \A c \in Calls : ~push[c].reserved
  BY Zenon DEF Init
<1>2. CountedJobs = {}
  BY <1>1, Zenon DEF CountedJobs, Counted
<1> QED
  BY <1>1, <1>2, FS_EmptySet DEF TotalInv

\* A step moves the total with the jobs it stands for, or loses some.
LEMMA TotalStep == ASSUME TotalInv, CountStep PROVE TotalInv'
<1>1. PICK n, m : /\ n = Cardinality(CountedJobs) /\ m = Cardinality(CountedJobs')
                  /\ n \in Nat /\ m \in Nat
                  /\ IsFiniteSet(CountedJobs) /\ IsFiniteSet(CountedJobs')
  <2>1. CountedJobs \subseteq Jobs /\ CountedJobs' \subseteq Jobs
    BY Zenon DEF CountedJobs
  <2> QED
    BY <2>1, JobsFinite, Zenon
<1>2. /\ total \in Int /\ (doubt' = {} => doubt = {}) /\ (lost => lost')
      /\ doubt = {} => n <= total /\ (~lost => n = total)
  BY <1>1, Zenon DEF TotalInv, CountStep
<1>3. SUFFICES /\ total' \in Int
               /\ doubt = {} => m <= total' /\ (~lost' => m = total')
  BY <1>1, <1>2, Zenon DEF TotalInv
<1>4. ASSUME CountsStand, TotalStands
      PROVE  /\ total' \in Int
             /\ doubt = {} => m <= total' /\ (~lost' => m = total')
  <2>1. m <= n
    BY <1>1, <1>4, FS_Subset, Zenon DEF CountsStand
  <2>2. lost' \/ m = n
    BY <1>1, <1>4, Zenon DEF CountsStand
  <2>3. CASE total' = total
    BY <1>1, <1>2, <2>1, <2>2, <2>3
  <2>4. ASSUME lost', NEW S \in SUBSET Jobs, total' = total + Cardinality(S)
        PROVE  /\ total' \in Int
               /\ doubt = {} => m <= total' /\ (~lost' => m = total')
    <3>1. Cardinality(S) \in Nat
      BY JobsFinite, Zenon
    <3> QED
      BY <1>1, <1>2, <2>1, <2>4, <3>1
  <2> QED
    BY <1>4, <2>3, <2>4, Zenon DEF TotalStands
<1>5. ASSUME NEW S \in SUBSET Jobs, Adds(S)
      PROVE  /\ total' \in Int
             /\ doubt = {} => m <= total' /\ (~lost' => m = total')
  <2>1. PICK k : k = Cardinality(S) /\ k \in Nat /\ IsFiniteSet(S)
    BY JobsFinite, Zenon
  <2>2. total' = total + k /\ m = n + k
    BY <1>1, <1>5, <2>1, DisjointUnion, Zenon DEF Adds
  <2> QED
    BY <1>1, <1>2, <2>1, <2>2
<1>6. ASSUME NEW S \in SUBSET Jobs, Removes(S)
      PROVE  /\ total' \in Int
             /\ doubt = {} => m <= total' /\ (~lost' => m = total')
  <2>1. PICK k : k = Cardinality(S) /\ k \in Nat /\ IsFiniteSet(S)
    BY JobsFinite, Zenon
  <2>2. total' = total - k /\ (doubt = {} => n = m + k)
    BY <1>1, <1>6, <2>1, DisjointUnion, Zenon DEF Removes
  <2> QED
    BY <1>1, <1>2, <2>1, <2>2
<1> QED
  BY <1>4, <1>5, <1>6, Zenon DEF CountStep

\* The total the client reserved in the batch (AddJobs, and the rollback's decrement)
\* covers the batch's jobs at all times, and is exact once the calls are over, unless a
\* failure lost count of some.
THEOREM TotalExact == Spec => []TotalCovers
<1>1. ClientInv /\ TotalInv => TotalCovers
  <2> SUFFICES ASSUME ClientInv, TotalInv PROVE TotalCovers
    BY Zenon
  <2>1. PICK F : F = {j \in Jobs : Fired(j) /\ \E c \in Calls :
                                      settings.calls[c].batch /\ j \in settings.calls[c].jobs}
    BY Zenon
  <2>2. ASSUME NEW j \in F PROVE j \in CountedJobs
    <3>1. j \in Jobs /\ Fired(j)
      BY <2>1, Zenon
    <3>2. PICK c \in Calls : settings.calls[c].batch /\ j \in settings.calls[c].jobs
      BY <2>1, Zenon
    <3>3. PICK d \in Calls : PlannedBy(d, j)
      BY <3>1, Zenon DEF ClientInv, FiredInv
    <3>4. j \in settings.calls[d].jobs
      BY <3>3, CallFacts, Zenon DEF PlannedBy, Shape
    <3>5. d = c
      BY <3>2, <3>4, SettingsFacts, Zenon DEF ClientInv
    <3> QED
      BY <3>1, <3>2, <3>3, <3>5, Zenon DEF PlannedBy, CountedJobs, Counted
  <2>3. ASSUME \A c \in Calls : push[c].at \in {"returned", "failed"}, NEW j \in CountedJobs
        PROVE  j \in F
    <3>1. PICK c \in Calls : Counted(push[c], j)
      BY <2>3, Zenon DEF CountedJobs
    <3>2. j \in Jobs /\ (j \in push[c].ok \/ Fired(j))
      BY <2>3, <3>1, CallFacts, Zenon DEF CountedJobs, Counted, Shape
    <3>3. Fired(j) /\ settings.calls[c].batch /\ j \in settings.calls[c].jobs
      BY <3>1, <3>2, CallFacts, Zenon DEF Counted, Shape
    <3> QED
      BY <2>1, <3>2, <3>3, Zenon
  <2>4. IsFiniteSet(CountedJobs) /\ Cardinality(CountedJobs) \in Nat
    BY JobsFinite, Zenon DEF CountedJobs
  <2>5. F \subseteq CountedJobs
    BY <2>2, Zenon
  <2>6. Cardinality(F) \in Nat /\ Cardinality(F) <= Cardinality(CountedJobs)
    BY <2>4, <2>5, FS_Subset, FS_CardinalityType, Zenon
  <2>7. (\A c \in Calls : push[c].at \in {"returned", "failed"}) => F = CountedJobs
    BY <2>3, <2>5, Zenon
  <2>8. /\ doubt = {} => Cardinality(F) <= total
        /\ doubt = {} /\ ~lost /\ (\A c \in Calls : push[c].at \in {"returned", "failed"})
             => Cardinality(F) = total
    BY <2>4, <2>6, <2>7 DEF TotalInv
  <2> QED
    BY <2>1, <2>8, Zenon DEF TotalCovers
<1>2. Init => TotalInv
  BY TotalInit, Zenon
<1>3. ClientInv /\ TotalInv /\ [Next]_vars => TotalInv'
  BY ClientStep, TotalStep, Zenon
<1> QED
  BY <1>1, <1>2, <1>3, ClientAlways, PTL DEF Spec

=============================================================================
