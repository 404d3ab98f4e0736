--------------------------- MODULE ScheduleIndex ---------------------------
(***************************************************************************)
(* The index of delayed jobs and the pollers that drain it.  A poller      *)
(* claims due entries under a lease, reads their payloads from the         *)
(* scheduled topic, produces each to its destination and acks; entries     *)
(* whose lease ran out are taken again.  Both stores are modelled: Redis   *)
(* moves an entry between two sorted sets, MySQL keeps it in a row with a  *)
(* lease column, and counts read misses per process.                       *)
(*                                                                         *)
(* Entries are written by ClientPush.tla.  Time is abstracted: an entry    *)
(* comes due, a lease runs out.  Definitions named Faulty... are           *)
(* deliberate mistakes: no specification uses them.                        *)
(***************************************************************************)
EXTENDS Integers, FiniteSets

CONSTANTS
    Jobs,
    Pollers,
    BatchSize,   \* ScheduleBatchSize
    MaxMisses    \* maxReadMisses

ASSUME ScheduleIndexAssumption ==
    BatchSize \in Nat \ {0} /\ MaxMisses \in Nat \ {0}

VARIABLES
    store,      \* the index store: redis or mysql
    entry,      \* the index entry of each job: none, pending, leased, lapsed
    due,        \* jobs whose run_at has passed
    misses,     \* read misses counted by each poller for each job
    poll,       \* each poller's tick
    topic,      \* copies of each job on its destination topic
    dlt,        \* jobs parked on the dead-letter topic
    dropped,    \* jobs dropped: of a cancelled batch, or gone from the topic
    cancelled   \* the batch is cancelled

index == <<entry, misses>>
fates == <<topic, dlt, dropped>>
indexVars == <<store, entry, due, misses, poll, topic, dlt, dropped, cancelled>>

Reads == {"found", "unread", "lost"}
Idle == [at |-> "idle", left |-> {}, done |-> {}, read |-> [j \in Jobs |-> "unread"]]

IndexInit ==
    /\ store \in {"redis", "mysql"}
    /\ entry = [j \in Jobs |-> "none"] /\ due = {}
    /\ misses = [p \in Pollers |-> [j \in Jobs |-> 0]]
    /\ poll = [p \in Pollers |-> Idle]
    /\ topic = [j \in Jobs |-> 0] /\ dlt = {} /\ dropped = {} /\ cancelled = FALSE

-----------------------------------------------------------------------------
(* The stores *)

\* Schedule, ScheduleMany: ZADD to the pending set, or INSERT of the rows.
Scheduled(S) == [j \in Jobs |-> IF j \in S THEN "pending" ELSE entry[j]]

\* ClaimDue: what is due and pending; MySQL also takes rows whose lease ran out.
RedisDue == {j \in due : entry[j] = "pending"}
MysqlDue == {j \in due : entry[j] \in {"pending", "lapsed"}}
Claimable == IF store = "redis" THEN RedisDue ELSE MysqlDue

\* Ack: ZREM from the inflight set, whoever leased it since; MySQL deletes the row.
RedisAcked(S) == [j \in Jobs |-> IF j \in S /\ entry[j] # "pending" THEN "none" ELSE entry[j]]
MysqlAcked(S) == [j \in Jobs |-> IF j \in S THEN "none" ELSE entry[j]]
Acked(S) == IF store = "redis" THEN RedisAcked(S) ELSE MysqlAcked(S)

\* RecordReadMiss, ClearReadMiss: one counter in Redis, one per process with MySQL.
Counters(p) == IF store = "redis" THEN Pollers ELSE {p}
Missed(p, j) == [q \in Pollers |-> IF q \in Counters(p) THEN [misses[q] EXCEPT ![j] = @ + 1]
                                   ELSE misses[q]]
Cleared(p, j) == [q \in Pollers |-> IF q \in Counters(p) THEN [misses[q] EXCEPT ![j] = 0]
                                    ELSE misses[q]]

-----------------------------------------------------------------------------
(* A tick of a poller: Tick, produceDue, parkRouteError, parkReadMiss *)

\* A limited number of due entries is claimed.
ClaimDue(p) ==
    /\ poll[p].at = "idle" /\ Claimable # {}
    /\ \E S \in SUBSET Claimable :
        /\ S # {} /\ Cardinality(S) <= BatchSize
        /\ entry' = [j \in Jobs |-> IF j \in S THEN "leased" ELSE entry[j]]
        /\ poll' = [poll EXCEPT ![p] = [Idle EXCEPT !.at = "read", !.left = S]]
    /\ UNCHANGED <<store, due, misses, fates, cancelled>>

\* The payloads are read back: found, not reached by the scan, or below the
\* topic's low watermark.
Read(p, read) ==
    /\ poll[p].at = "read"
    /\ poll' = [poll EXCEPT ![p] = [poll[p] EXCEPT !.at = "work", !.read = read]]
    /\ UNCHANGED <<store, index, due, fates, cancelled>>

\* The reader fails: the tick ends and its entries stay leased.
ReadError(p) ==
    /\ poll[p].at = "read"
    /\ poll' = [poll EXCEPT ![p] = Idle]
    /\ UNCHANGED <<store, index, due, fates, cancelled>>

Item(p, j, read) == poll[p].at = "work" /\ j \in poll[p].left /\ poll[p].read[j] = read
Settle(p, j) == poll' = [poll EXCEPT ![p] = [poll[p] EXCEPT !.left = @ \ {j}, !.done = @ \cup {j}]]
Leave(p, j) == poll' = [poll EXCEPT ![p] = [poll[p] EXCEPT !.left = @ \ {j}]]

\* The payload is lost to retention: the entry is dropped.
DropLost(p, j) ==
    /\ Item(p, j, "lost")
    /\ dropped' = dropped \cup {j}
    /\ Settle(p, j)
    /\ UNCHANGED <<store, index, due, topic, dlt, cancelled>>

\* Produced to the dead-letter topic, or not: the topic is unset or the produce fails.
Park(j, parked) == dlt' = IF parked THEN dlt \cup {j} ELSE dlt

\* An unread payload is counted; at the limit its coordinates are parked.
ReadMiss(p, j, parked) ==
    /\ Item(p, j, "unread")
    /\ LET last == misses[p][j] + 1 >= MaxMisses
       IN /\ parked => last
          /\ misses' = IF parked THEN Cleared(p, j) ELSE Missed(p, j)
          /\ Park(j, parked)
          /\ IF parked THEN Settle(p, j) ELSE Leave(p, j)
    /\ UNCHANGED <<store, entry, due, topic, dropped, cancelled>>

\* The job of a cancelled batch is dropped.
DropCancelled(p, j) ==
    /\ Item(p, j, "found") /\ cancelled
    /\ misses' = Cleared(p, j) /\ dropped' = dropped \cup {j}
    /\ Settle(p, j)
    /\ UNCHANGED <<store, entry, due, topic, dlt, cancelled>>

\* The job has no route: it is parked, or left leased when that fails.
RouteError(p, j, parked) ==
    /\ Item(p, j, "found") /\ ~cancelled
    /\ misses' = Cleared(p, j)
    /\ Park(j, parked)
    /\ IF parked THEN Settle(p, j) ELSE Leave(p, j)
    /\ UNCHANGED <<store, entry, due, topic, dropped, cancelled>>

Produce(p, j) ==
    /\ Item(p, j, "found") /\ ~cancelled
    /\ misses' = Cleared(p, j)
    /\ topic' = [topic EXCEPT ![j] = @ + 1]
    /\ Settle(p, j)
    /\ UNCHANGED <<store, entry, due, dlt, dropped, cancelled>>

FaultyProduceError(p, j, landed) ==
    /\ Item(p, j, "found") /\ ~cancelled
    /\ misses' = Cleared(p, j)
    /\ topic' = IF landed THEN [topic EXCEPT ![j] = @ + 1] ELSE topic
    /\ Settle(p, j)
    /\ UNCHANGED <<store, entry, due, dlt, dropped, cancelled>>

\* The produce fails, though the record may have landed: the lease is left.
ProduceError(p, j, landed) ==
    /\ Item(p, j, "found") /\ ~cancelled
    /\ misses' = Cleared(p, j)
    /\ topic' = IF landed THEN [topic EXCEPT ![j] = @ + 1] ELSE topic
    /\ Leave(p, j)
    /\ UNCHANGED <<store, entry, due, dlt, dropped, cancelled>>

\* What is done is acked; a failed ack is only logged.
Ack(p, ok) ==
    /\ poll[p].at = "work" /\ poll[p].left = {}
    /\ entry' = IF ok THEN Acked(poll[p].done) ELSE entry
    /\ poll' = [poll EXCEPT ![p] = Idle]
    /\ UNCHANGED <<store, due, misses, fates, cancelled>>

\* The poller's process dies: the counters it kept are gone with MySQL.
PollerCrash(p) ==
    /\ poll[p].at # "idle"
    /\ poll' = [poll EXCEPT ![p] = Idle]
    /\ misses' = IF store = "redis" THEN misses
                 ELSE [misses EXCEPT ![p] = [j \in Jobs |-> 0]]
    /\ UNCHANGED <<store, entry, due, fates, cancelled>>

FaultyReclaim(p) ==
    /\ poll[p].at = "idle"
    /\ \E j \in Jobs : entry[j] = "lapsed"
    /\ entry' = [j \in Jobs |-> IF entry[j] = "lapsed" THEN "leased" ELSE entry[j]]
    /\ UNCHANGED <<store, due, misses, poll, fates, cancelled>>

\* Reclaim: entries whose lease ran out become pending again.
Reclaim(p) ==
    /\ poll[p].at = "idle"
    /\ \E j \in Jobs : entry[j] = "lapsed"
    /\ entry' = [j \in Jobs |-> IF entry[j] = "lapsed" THEN "pending" ELSE entry[j]]
    /\ UNCHANGED <<store, due, misses, poll, fates, cancelled>>

\* Time passes: a job comes due, a lease runs out.
ComesDue(j) ==
    /\ entry[j] # "none" /\ j \notin due
    /\ due' = due \cup {j}
    /\ UNCHANGED <<store, index, poll, fates, cancelled>>

Held(j) == \E p \in Pollers : j \in poll[p].left \cup poll[p].done

LeaseEnds(j) ==
    /\ entry[j] = "leased"
    /\ entry' = [entry EXCEPT ![j] = "lapsed"]
    /\ UNCHANGED <<store, due, misses, poll, fates, cancelled>>

Cancel ==
    /\ ~cancelled /\ cancelled' = TRUE
    /\ UNCHANGED <<store, index, due, poll, fates>>

-----------------------------------------------------------------------------
(* Properties *)

IndexTypeOK ==
    /\ store \in {"redis", "mysql"} /\ cancelled \in BOOLEAN
    /\ entry \in [Jobs -> {"none", "pending", "leased", "lapsed"}] /\ due \subseteq Jobs
    /\ misses \in [Pollers -> [Jobs -> Nat]]
    /\ poll \in [Pollers -> [at : {"idle", "read", "work"}, left : SUBSET Jobs,
                             done : SUBSET Jobs, read : [Jobs -> Reads]]]
    /\ topic \in [Jobs -> Nat] /\ dlt \subseteq Jobs /\ dropped \subseteq Jobs

\* What has become of a job the pollers took out of the index.
Settled(j) == topic[j] > 0 \/ j \in dlt \cup dropped

====
