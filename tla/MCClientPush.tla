--------------------------- MODULE MCClientPush ---------------------------
(* Small instances of ClientPush: calls that share fingerprints, and        *)
(* scheduled calls drained by two pollers.                                  *)
EXTENDS ClientPush

Both == {"redis", "mysql"}

\* Job 2 has a fingerprint of its own; the others are duplicates.
Setup(first, second, chunk, raise, stores, n) ==
    [calls |-> [c \in Calls |-> IF c = 1 THEN first ELSE second],
     fp |-> [j \in Jobs |-> IF j = 2 THEN 2 ELSE 1],
     chunk |-> chunk, raise |-> raise, stores |-> stores, faults |-> n]

MCInstances ==
    {Setup(PushManyJobs({1, 2}), PushMany({3, 4}), 2, FALSE, {"redis"}, 2),
     Setup(PushMany({1, 2}), EnqueueManyJobs({3, 4}), 1, TRUE, {"redis"}, 1),
     Setup(PushJob(1), EnqueueManyAt({3}), 1, FALSE, {"redis"}, 2),
     Setup(PushManyJobsAt({1, 2}), EnqueueJob(3), 2, FALSE, Both, 1),
     Setup(PushManyAt({1, 2}), Enqueue(3), 1, FALSE, {"redis"}, 1),
     Setup(PushJobAt(1), EnqueueMany({}), 1, FALSE, Both, 3),
     Setup(PushAt(1), Push(3), 1, FALSE, {"mysql"}, 1),
     Setup(EnqueueAt(1), EnqueueJobAt(2), 1, FALSE, {"redis"}, 1),
     Setup(EnqueueManyJobsAt({1}), EnqueueJob(2), 1, FALSE, {"mysql"}, 1)}
====
