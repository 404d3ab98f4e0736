------------------------------ MODULE CronExpr ------------------------------
(***************************************************************************)
(* Cron expressions, over a small calendar: when one matches, the scan     *)
(* that looks for its next instant, and the instants a due schedule fires  *)
(* under its misfire policy.                                               *)
(*                                                                         *)
(* Instants are minutes of UTC.  A zone is an offset and one transition to *)
(* another offset; the calendar's units are constants, so that a year of   *)
(* it is short.  The text syntax of expressions is left out: an expression *)
(* is the sets of values its fields allow.                                 *)
(***************************************************************************)
EXTENDS Integers, FiniteSets, FiniteSetsExt

CONSTANTS
    Minutes, Hours, Days, Months, Weekdays,  \* lengths: of an hour, day, month, year, week
    YearLimit                                \* years the scan looks ahead

ASSUME CronExprAssumption ==
    \A n \in {Minutes, Hours, Days, Months, Weekdays, YearLimit} : n \in Nat \ {0}

Day   == Minutes * Hours
Month == Day * Days
Year  == Month * Months

Exprs ==
    [minute : SUBSET (0..(Minutes - 1)), hour : SUBSET (0..(Hours - 1)),
     dom : SUBSET (0..(Days - 1)), month : SUBSET (0..(Months - 1)),
     dow : SUBSET (0..(Weekdays - 1)), domStar : BOOLEAN, dowStar : BOOLEAN]

Zones == [at : Nat, before : Int, after : Int]

-----------------------------------------------------------------------------
(* Wall clocks *)

Offset(z, u) == IF u < z.at THEN z.before ELSE z.after
Wall(z, u) == u + Offset(z, u)

\* time.Date: the offset at the wall time read as UTC, unless the instant it gives
\* is on the other side of the transition.
DateOf(z, w) ==
    LET u == w - Offset(z, w) IN IF (u < z.at) = (w < z.at) THEN u ELSE w - Offset(z, u)

\* AddDate to the start of w's month or day: the clock of that start, which is not
\* 00:00 where the clocks skip it, on the date of one unit later.
NextStart(z, w, unit) == DateOf(z, Wall(z, DateOf(z, (w \div unit) * unit)) + unit)

MinuteOf(w)  == w % Minutes
HourOf(w)    == (w \div Minutes) % Hours
DomOf(w)     == (w \div Day) % Days
MonthOf(w)   == (w \div Month) % Months
WeekdayOf(w) == (w \div Day) % Weekdays
YearOf(w)    == w \div Year

-----------------------------------------------------------------------------
(* Matching and the scan *)

\* A day matches when either restricted field does.
DayMatches(e, w) ==
    \/ e.domStar /\ e.dowStar
    \/ e.domStar /\ WeekdayOf(w) \in e.dow
    \/ e.dowStar /\ DomOf(w) \in e.dom
    \/ ~e.domStar /\ ~e.dowStar /\ (DomOf(w) \in e.dom \/ WeekdayOf(w) \in e.dow)

Matches(e, w) ==
    MonthOf(w) \in e.month /\ DayMatches(e, w) /\ HourOf(w) \in e.hour /\ MinuteOf(w) \in e.minute

FaultyJump(e, z, t) ==
    LET w == Wall(z, t)
    IN CASE MonthOf(w) \notin e.month -> NextStart(z, w, Month)
         [] MonthOf(w) \in e.month /\ ~DayMatches(e, w) -> t + Day
         [] OTHER -> IF HourOf(w) \notin e.hour THEN DateOf(z, (w \div Minutes) * Minutes) + Minutes
                     ELSE t + 1

\* An iteration of the scan: to the start of the next month or of the next day, an
\* hour past the start of this hour, or to the next minute.
Jump(e, z, t) ==
    LET w == Wall(z, t)
    IN CASE MonthOf(w) \notin e.month -> NextStart(z, w, Month)
         [] MonthOf(w) \in e.month /\ ~DayMatches(e, w) -> NextStart(z, w, Day)
         [] OTHER -> IF HourOf(w) \notin e.hour THEN DateOf(z, (w \div Minutes) * Minutes) + Minutes
                     ELSE t + 1

\* The scan ends at a match, or past the year limit.
Exhausted(z, after, t) == YearOf(Wall(z, t)) > YearOf(Wall(z, after + 1)) + YearLimit
Ends(e, z, after, t) == Matches(e, Wall(z, t)) \/ Exhausted(z, after, t)

\* Next: where the scan ends, in zones where it does.
Next(e, z, after) ==
    LET Scan[t \in Nat] == IF Ends(e, z, after, t) THEN t ELSE Scan[Jump(e, z, t)]
    IN Scan[after + 1]

\* The first instant after the given one that matches.
First(e, z, after) == Min({u \in (after + 1)..(after + Year * (YearLimit + 2)) :
                              Ends(e, z, after, u)})

\* The clocks of the zone go forward over a midnight.
SkipsMidnight(z) == \E w \in (z.at + z.before)..(z.at + z.after - 1) : w % Day = 0

\* The expression restricts neither days nor months, so that no scan jumps over one.
EveryDay(e) == e.month = 0..(Months - 1) /\ e.domStar /\ e.dowStar

-----------------------------------------------------------------------------
(* Misfire policies: PlanFires, advancePast *)

Policies == {"skip", "fire_once", "backfill"}

\* What PlanFires sees of the expression: the next instant after each one, or 0 when
\* the scan finds none.
NextTable(e, z, last) ==
    [t \in 0..last |-> LET n == Next(e, z, t) IN IF Matches(e, Wall(z, n)) THEN n ELSE 0]

\* The instants due from next to now, at most max of them, and where they stop: a
\* minute past the last one when there is none after it.
Walk(F, next, now, max) ==
    LET Step[w \in [fires : SUBSET Nat, next : Nat]] ==
            IF w.next > now \/ Cardinality(w.fires) = max THEN w
            ELSE LET fires == w.fires \cup {w.next}
                 IN IF F[w.next] = 0 THEN [fires |-> fires, next |-> w.next + 1]
                    ELSE Step[[fires |-> fires, next |-> F[w.next]]]
    IN Step[[fires |-> {}, next |-> next]]

\* advancePast: the first instant after now.
AdvancePast(F, next, now) == Walk(F, next, now, now - next + 1).next

\* The capped part of an outage is skipped instead of left for the next tick.
FaultyPlanFires(policy, F, next, now, grace, maxBackfill) ==
    CASE policy = "backfill" -> [fires |-> Walk(F, next, now, maxBackfill).fires,
                                 next |-> AdvancePast(F, next, now)]
      [] policy = "skip"     -> [fires |-> IF now - next <= grace THEN {next} ELSE {},
                                 next |-> AdvancePast(F, next, now)]
      [] OTHER               -> [fires |-> {next}, next |-> AdvancePast(F, next, now)]

\* The instants fired, and the new next_run_at, of a schedule due since next.
PlanFires(policy, F, next, now, grace, maxBackfill) ==
    CASE policy = "backfill" -> Walk(F, next, now, maxBackfill)
      [] policy = "skip"     -> [fires |-> IF now - next <= grace THEN {next} ELSE {},
                                 next |-> AdvancePast(F, next, now)]
      [] OTHER               -> [fires |-> {next}, next |-> AdvancePast(F, next, now)]

====
