---------------------------- MODULE MCCronTicker ----------------------------
(* Small instances of CronTicker, in a calendar with hours of two minutes,   *)
(* days of three hours, months of two days and years of two months.         *)
EXTENDS CronTicker

UTC == [at |-> 0, before |-> 0, after |-> 0]
\* Clocks go forward an hour; clocks go back an hour, east of UTC.
Spring == [at |-> 8, before |-> 0, after |-> 2]
Autumn == [at |-> 6, before |-> 4, after |-> 2]
\* Clocks go forward an hour at midnight.
Cairo == [at |-> 4, before |-> 2, after |-> 4]

Expr(minute, hour, dom, month, dow) ==
    [minute |-> minute, hour |-> hour, month |-> month,
     dom |-> IF dom = {} THEN {0, 1} ELSE dom, dow |-> IF dow = {} THEN 0..2 ELSE dow,
     domStar |-> dom = {}, dowStar |-> dow = {}]

\* The second minute of every hour.
Hourly == Expr({1}, 0..2, {}, {0, 1}, {})

Setup(expr, zone, policy, uniq, maxBackfill, until, n) ==
    [expr |-> expr, zone |-> zone, policy |-> policy, uniq |-> uniq, grace |-> 1,
     maxBackfill |-> maxBackfill, until |-> until, faults |-> n]

\* Schedules that look at the scan.
Scans ==
    {Setup(Expr(minute, hour, dom, month, dow), zone, "fire_once", FALSE, 1, 5, 0) :
        minute \in {{0}, {1}}, hour \in {{1}, {0, 2}}, dom \in {{}, {1}}, month \in {{1}, {0, 1}},
        dow \in {{}, {2}}, zone \in {UTC, Spring, Autumn, Cairo}}

MCInstances ==
    {Setup(Hourly, UTC, "backfill", FALSE, 2, 5, 1), Setup(Hourly, UTC, "backfill", FALSE, 1, 2, 2),
     Setup(Hourly, UTC, "skip", FALSE, 1, 5, 1), Setup(Hourly, UTC, "fire_once", TRUE, 1, 3, 2),
     Setup(Hourly, UTC, "backfill", TRUE, 3, 5, 1)}
    \cup Scans
====
