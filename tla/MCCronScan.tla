---------------------------- MODULE MCCronScan ------------------------------
(* Hourly and daily schedules, in zones east and west of UTC whose clocks go *)
(* back an hour, in the calendar of MCCronTicker.                            *)
EXTENDS CronScan

East == [at |-> 6, before |-> 4, after |-> 2]
West == [at |-> 18, before |-> -2, after |-> -4]

At(hours) == [minute |-> {1}, hour |-> hours, dom |-> {0, 1}, month |-> {0, 1}, dow |-> 0..2,
              domStar |-> TRUE, dowStar |-> TRUE]

MCSchedules == {At({0}), At({2}), At(0..2)} \X {East, West}
MCInstants == 0..15
====
