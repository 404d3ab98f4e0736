----------------------------- MODULE MCFairLane -----------------------------
(***************************************************************************)
(* Two tenants, the first of twice the weight of the second.  Without      *)
(* faults three jobs compete for a budget of two, where the shares and the *)
(* order decide.  With one fault two jobs of a tenant compete for a budget *)
(* of one, or under a cap of one; with two faults a single job is          *)
(* forwarded, where leases and forwards are lost and recovered.            *)
(***************************************************************************)
EXTENDS FairLane

MCWeight == [t \in Tenants |-> IF t = 1 THEN 2 ELSE 1]

Busy(kind) ==
    [lane |-> kind, budget |-> 2, cap |-> 0, weighted |-> TRUE, window |-> 2,
     load |-> [t \in Tenants |-> IF t = 1 THEN 2 ELSE 1], faults |-> 0]

Flaky(kind, n, k) ==
    [lane |-> kind, budget |-> 1, cap |-> 0, weighted |-> FALSE, window |-> 1,
     load |-> [t \in Tenants |-> IF t = 1 THEN n ELSE 0], faults |-> k]

Capped(kind) ==
    [lane |-> kind, budget |-> 0, cap |-> 1, weighted |-> FALSE, window |-> 0,
     load |-> [t \in Tenants |-> IF t = 1 THEN 2 ELSE 0], faults |-> 1]

MCInstances ==
    {Busy("throughput"), Flaky("throughput", 2, 1), Capped("time"),
     Flaky("throughput", 1, 2)}
====
