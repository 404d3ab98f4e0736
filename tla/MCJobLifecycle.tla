--------------------------- MODULE MCJobLifecycle ---------------------------
(* Small instances of JobLifecycle.                                         *)
EXTENDS JobLifecycle

Job(batch, fair, mode, max, n) ==
    [batch |-> batch, fair |-> fair, uniq |-> TRUE, handler |-> TRUE, expires |-> FALSE,
     maxRetries |-> max, mode |-> mode, operator |-> "none", cancels |-> FALSE, faults |-> n]

MCInstances ==
    {Job(b, f, mode, 1, 1) : b \in BOOLEAN, f \in BOOLEAN, mode \in {"superfetch", "watermark"}}
    \cup {Job(TRUE, FALSE, "watermark", 1, 2), Job(TRUE, TRUE, "watermark", 0, 2),
          [Job(TRUE, TRUE, "superfetch", 1, 1) EXCEPT !.expires = TRUE],
          [Job(TRUE, FALSE, "superfetch", 1, 1) EXCEPT !.cancels = TRUE],
          [Job(TRUE, FALSE, "superfetch", 1, 1) EXCEPT !.handler = FALSE]}
    \cup {[Job(TRUE, FALSE, "superfetch", 1, 1) EXCEPT !.operator = o] : o \in {"cancel", "skip"}}

====
