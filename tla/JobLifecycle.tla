---------------------------- MODULE JobLifecycle ----------------------------
(***************************************************************************)
(* What a durable worker job promises to whoever reads the job store: the  *)
(* life of one row, step by step, with no client, transaction or lock in   *)
(* sight.  It is the status graph of v2/workers/job_store.py, method by    *)
(* method; WorkerJobStore.tla is shown to implement it.                    *)
(***************************************************************************)
EXTENDS Naturals

CONSTANTS
    Jobs,           \* the job ids
    MaxAttempts,    \* max_attempts of every job
    Commands        \* the operator commands in use: see WorkerJobStore

VARIABLES
    status,         \* the status column; "absent" before the row exists
    attempts        \* how often the job has been claimed

vars == <<status, attempts>>

\* WorkerJobStatus without "retrying": fail_job passes through it inside one
\* transaction, so no reader of the store ever sees it.
Statuses ==
    {"queued", "claimed", "running", "succeeded", "failed", "cancelled", "stale"}

TERMINAL_STATUSES == {"succeeded", "failed", "cancelled"}

Moves(j, from, to) ==
    /\ status[j] \in from
    /\ status' = [status EXCEPT ![j] = to]

Enqueue(j) == Moves(j, {"absent"}, "queued") /\ UNCHANGED attempts

\* claim_next has no test of attempts against max_attempts.
Claim(j) ==
    /\ Moves(j, {"queued"}, "claimed")
    /\ attempts' = [attempts EXCEPT ![j] = @ + 1]

Start(j) == Moves(j, {"claimed"}, "running") /\ UNCHANGED attempts

Succeed(j) == Moves(j, {"claimed", "running"}, "succeeded") /\ UNCHANGED attempts

Fail(j) == Moves(j, Statuses \ TERMINAL_STATUSES, "failed") /\ UNCHANGED attempts

\* failed -> retrying -> queued, in one transaction of fail_job.
Requeue(j) ==
    /\ attempts[j] < MaxAttempts
    /\ Moves(j, Statuses \ TERMINAL_STATUSES, "queued")
    /\ UNCHANGED attempts

Cancel(j) ==
    /\ "cancel" \in Commands
    /\ Moves(j, {"queued", "claimed", "running"}, "cancelled")
    /\ UNCHANGED attempts

MarkStale(j) ==
    /\ "stale" \in Commands
    /\ Moves(j, {"claimed", "running"}, "stale")
    /\ UNCHANGED attempts

Retry(j) ==
    /\ "retry" \in Commands
    /\ Moves(j, {"failed", "stale", "cancelled"}, "queued")
    /\ UNCHANGED attempts

Init ==
    /\ status = [j \in Jobs |-> "absent"]
    /\ attempts = [j \in Jobs |-> 0]

Next ==
    \E j \in Jobs :
        \/ Enqueue(j) \/ Claim(j) \/ Start(j) \/ Succeed(j) \/ Fail(j)
        \/ Requeue(j) \/ Cancel(j) \/ MarkStale(j) \/ Retry(j)

Spec == Init /\ [][Next]_vars
=============================================================================
