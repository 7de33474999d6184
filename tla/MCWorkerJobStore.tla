-------------------------- MODULE MCWorkerJobStore --------------------------
(* Small instances of WorkerJobStore for TLC. *)
EXTENDS WorkerJobStore

CONSTANTS w1, w2, o1, o2, k1

OneJob == {1}
TwoJobs == {1, 2}
OneKind == {k1}
KindOfOne == [j \in OneJob |-> k1]
KindOfTwo == [j \in TwoJobs |-> k1]
OneWorker == {w1}
TwoWorkers == {w1, w2}
OneOperator == {o1}
TwoOperators == {o1, o2}

EnqueueOnly == {"enqueue"}
Everything == AllCommands
WithStale == {"enqueue", "stale"}
WithRetry == {"enqueue", "retry"}
=============================================================================
