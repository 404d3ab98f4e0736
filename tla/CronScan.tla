------------------------------ MODULE CronScan ------------------------------
(***************************************************************************)
(* The loop of Expr.Next, one iteration a step, where CronExpr has the     *)
(* whole scan as a function: in a zone where the loop does not end, the    *)
(* function has no value.                                                  *)
(***************************************************************************)
EXTENDS CronExpr

CONSTANTS
    Schedules,   \* the expressions and zones looked at, of Exprs \X Zones
    Instants     \* the instants scanned from

VARIABLES
    schedule,
    after,   \* the instant scanned from
    t        \* the candidate

vars == <<schedule, after, t>>

Init == schedule \in Schedules /\ after \in Instants /\ t = after + 1

Ended == Ends(schedule[1], schedule[2], after, t)

\* An iteration that finds no match.
Iterate ==
    /\ ~Ended
    /\ t' = Jump(schedule[1], schedule[2], t)
    /\ UNCHANGED <<schedule, after>>

Spec == Init /\ [][Iterate]_vars

-----------------------------------------------------------------------------

\* Every iteration moves the candidate forward, through the hour that is repeated when
\* clocks go back too: "the scan advances to the next valid instant" (Expr.Next).
ScanAdvances == ~Ended => Jump(schedule[1], schedule[2], t) > t

====
