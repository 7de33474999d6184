----------------------------- MODULE CycleRunner -----------------------------
(***************************************************************************)
(* The bounded research cycle: the planner that enqueues the jobs of a     *)
(* plan, its generated audit job last (v2/autonomy/cycle_planner.py), and  *)
(* the runner that executes them in order, one run_one_job call each       *)
(* (v2/autonomy/cycle_runner.py), on a job store other workers and         *)
(* operators use at the same time.                                         *)
(*                                                                         *)
(* A store call is one step here: WorkerJobStore.tla has the calls in      *)
(* detail.  Every gap between two calls is a gap between two steps.        *)
(***************************************************************************)
EXTENDS Naturals, Sequences

CONSTANTS
    Jobs,           \* job ids, numbered in claim order: ORDER BY queued_at, job_id
    Kinds,          \* worker job kinds
    KindOf,         \* the kind of each job
    Plan,           \* planned_jobs in dependency order; the audit job is the last
    SourceOf,       \* the source job of each planned job that has a binding
    PoolKinds,      \* the kinds that workers outside the cycle run
    None,           \* no job
    Limits,         \* the max_jobs given to the cycle runner
    MaxAttempts,    \* max_attempts of every job but the audit job
    Commands,       \* the operator commands in use: "enqueue", "cancel", "stale", "retry"
    MaxCommands,    \* bound: operator commands
    MaxPlans,       \* bound: calls of the planner
    MaxExecutions,  \* bound: calls of the cycle runner
    MaxCrashes      \* bound: process crashes

Places == 1 .. Len(Plan)
Planned == {Plan[i] : i \in Places}
Audit == Plan[Len(Plan)]
Targets == DOMAIN SourceOf

ASSUME CycleJobsAssumption ==
    Jobs \subseteq Nat /\ None \notin Jobs /\ KindOf \in [Jobs -> Kinds] /\ PoolKinds \subseteq Kinds
ASSUME PlanAssumption ==
    /\ Plan \in Seq(Jobs) /\ Plan # <<>>
    /\ \A i, k \in Places : i < k => Plan[i] < Plan[k]
ASSUME BindingsAssumption ==
    \* _validate_bindings: a source precedes its target, and neither is the audit job.
    /\ Targets \subseteq Planned \ {Audit}
    /\ \A j \in Targets : SourceOf[j] \in Planned /\ SourceOf[j] < j
ASSUME CycleBoundsAssumption ==
    /\ Commands \subseteq {"enqueue", "cancel", "stale", "retry"}
    /\ MaxAttempts \in Nat \ {0} /\ Limits \subseteq Nat \ {0}
    /\ MaxCommands \in Nat /\ MaxPlans \in Nat /\ MaxExecutions \in Nat /\ MaxCrashes \in Nat

VARIABLES
    status,         \* the job store: the status of each row
    attempts,       \* the job store: attempts of each row
    bound,          \* the job store: the jobs whose input_spec has its binding applied
    refs,           \* the job store: how many values the ref a target wants has in its source
    plan,           \* autopilot_cycle_plan.json: its status, or "none"
    report,         \* the audit report file
    execution,      \* autopilot_cycle_execution.json: its status, or "none"
    planner,        \* the place the planner enqueues next, or 0
    exec,           \* the call of run_autopilot_cycle_plan
    pool,           \* the jobs on which a worker outside the cycle is
    used            \* what the bounds bound

store == <<status, attempts, bound, refs>>
disk == <<plan, report, execution>>
vars == <<store, disk, planner, exec, pool, used>>

-----------------------------------------------------------------------------
(* The store.                                                              *)

Statuses ==
    {"queued", "claimed", "running", "succeeded", "failed", "cancelled", "stale"}

Live == {"claimed", "running"}

Open == Live \cup {"queued", "stale"}      \* what fail_job accepts

\* The planner gives the audit job one attempt.
AttemptsOf(j) == IF j = Audit THEN 1 ELSE MaxAttempts

\* A row fails validation once it counts more attempts than it may.
Loads(j) == attempts[j] =< AttemptsOf(j)

Queue(k) == {j \in Jobs : KindOf[j] = k /\ status[j] = "queued"}

NextFor(k, j) == j \in Queue(k) /\ \A i \in Queue(k) : j =< i

Becomes(j, s) == status' = [status EXCEPT ![j] = s]

\* queued_at is the time of the enqueue call: rows appear in the order of Jobs.
Insert(j) ==
    /\ \A i \in Jobs : i >= j => status[i] = "absent"
    /\ Becomes(j, "queued")
    /\ UNCHANGED <<attempts, bound, refs>>

Claim(k, j) ==
    /\ NextFor(k, j)
    /\ Becomes(j, "claimed")
    /\ attempts' = [attempts EXCEPT ![j] = @ + 1]
    /\ UNCHANGED <<bound, refs>>

\* succeed_job writes output_refs: for a target that binds to this job they
\* hold no value, one, or several.
Succeed(j) ==
    /\ status[j] \in Live /\ Loads(j)
    /\ Becomes(j, "succeeded")
    /\ \E n \in IF \E t \in Targets : SourceOf[t] = j THEN {"none", "one", "many"} ELSE {"none"} :
          refs' = [refs EXCEPT ![j] = n]
    /\ UNCHANGED <<attempts, bound>>

Fail(j) ==
    /\ status[j] \in Open /\ Loads(j)
    /\ Becomes(j, IF attempts[j] < AttemptsOf(j) THEN "queued" ELSE "failed")
    /\ UNCHANGED <<attempts, bound, refs>>

\* The audit handler writes its report before it succeeds its job.  It has a
\* blocker for each target that has not succeeded, and may have others.
Audited(j) ==
    \/ j = Audit /\ (\A i \in Planned \ {Audit} : status[i] = "succeeded") /\ report' = "pass"
    \/ j = Audit /\ report' = "blockers"
    \/ j # Audit /\ UNCHANGED report

-----------------------------------------------------------------------------
(* plan_autopilot_research_cycle: a plan is only written, or its jobs are  *)
(* enqueued first, one transaction each.  The planner refuses to enqueue   *)
(* a plan one of whose jobs is there already.                              *)

DryPlan ==
    /\ planner = 0 /\ used.plans < MaxPlans
    /\ plan' = "planned"
    /\ used' = [used EXCEPT !.plans = @ + 1]
    /\ UNCHANGED <<store, report, execution, planner, exec, pool>>

BeginEnqueue ==
    /\ planner = 0 /\ used.plans < MaxPlans
    /\ \A j \in Planned : status[j] = "absent"
    /\ planner' = 1
    /\ used' = [used EXCEPT !.plans = @ + 1]
    /\ UNCHANGED <<store, disk, exec, pool>>

EnqueueNext ==
    /\ planner \in Places
    /\ Insert(Plan[planner])
    /\ planner' = planner + 1
    /\ UNCHANGED <<disk, exec, pool, used>>

Mut_WritePlan ==
    /\ planner \in Places
    /\ plan' = "enqueued"
    /\ planner' = 0
    /\ UNCHANGED <<store, report, execution, exec, pool, used>>

WritePlan ==
    /\ planner = Len(Plan) + 1
    /\ plan' = "enqueued"
    /\ planner' = 0
    /\ UNCHANGED <<store, report, execution, exec, pool, used>>

-----------------------------------------------------------------------------
(* run_autopilot_cycle_plan.  A phase is the store call made next; at is   *)
(* the place of the planned job, mine the job claim_next returned for it.  *)

Phases == {"idle", "look", "next", "bind", "update", "claim", "start", "heartbeat",
           "work", "succeed", "fail", "after", "write"}

Execution ==
    [phase : Phases, at : Nat, mine : Jobs \cup {None},
     left : Nat,                \* max_jobs less executed_job_count
     ok : BOOLEAN,              \* run_one_job ended mine in SUCCEEDED
     blocked : BOOLEAN,         \* non_audit_blocked
     blockers : BOOLEAN,        \* execution_blockers is not empty
     auditAnyway : BOOLEAN]     \* run_audit_on_blocker

NoExecution ==
    [phase |-> "idle", at |-> 0, mine |-> None, left |-> 0, ok |-> FALSE,
     blocked |-> FALSE, blockers |-> FALSE, auditAnyway |-> FALSE]

Turns(phase) == exec' = [exec EXCEPT !.phase = phase]

\* An exception leaves the runner: no execution manifest is written.
Aborts == exec' = NoExecution

Job == Plan[exec.at]

Mut_Advanced == [exec EXCEPT !.phase = IF exec.at = Len(Plan) THEN "write" ELSE "look",
                             !.at = @ + 1, !.ok = FALSE]

Advanced == [exec EXCEPT !.phase = IF exec.at = Len(Plan) THEN "write" ELSE "look",
                         !.at = @ + 1, !.mine = None, !.ok = FALSE]

Skips == exec' = Advanced

\* The job gets blocker_reasons; those of a job that is not the audit job
\* block the jobs after it.
Blocks == exec' = [Advanced EXCEPT !.blockers = TRUE, !.blocked = @ \/ Job # Audit]

Begin ==
    /\ exec = NoExecution /\ used.executions < MaxExecutions
    /\ plan = "enqueued"
    /\ \E limit \in Limits, anyway \in BOOLEAN :
          exec' = [NoExecution EXCEPT !.phase = "look", !.at = 1, !.left = limit,
                                      !.auditAnyway = anyway]
    /\ used' = [used EXCEPT !.executions = @ + 1]
    /\ UNCHANGED <<store, disk, planner, pool>>

\* The job is after a blocker, or the budget of jobs is spent.
Mut_NotRun == exec.left = 0
NotRun ==
    \/ exec.blocked /\ (Job # Audit \/ ~exec.auditAnyway)
    \/ exec.left = 0

\* load_job, and what its status settles.
LookAtJob ==
    /\ exec.phase = "look"
    /\ \/ NotRun /\ Blocks
       \/ ~NotRun /\ ~Loads(Job) /\ Aborts
       \/ ~NotRun /\ Loads(Job) /\ status[Job] = "succeeded" /\ Skips
       \/ ~NotRun /\ Loads(Job) /\ status[Job] \notin {"queued", "succeeded"} /\ Blocks
       \/ ~NotRun /\ status[Job] = "queued" /\ Turns("next")
    /\ UNCHANGED <<store, disk, planner, pool, used>>

\* list_jobs(kind, QUEUED): the job must be the one claim_next would take.
CheckNext ==
    /\ exec.phase = "next"
    /\ IF NextFor(KindOf[Job], Job)
       THEN Turns(IF Job \in Targets THEN "bind" ELSE "claim")
       ELSE Blocks
    /\ UNCHANGED <<store, disk, planner, pool, used>>

Mut_SourceHasRef == status[SourceOf[Job]] = "succeeded" /\ refs[SourceOf[Job]] # "none"
SourceHasRef == status[SourceOf[Job]] = "succeeded" /\ refs[SourceOf[Job]] = "one"

\* _apply_bindings loads the source ...
LoadSource ==
    /\ exec.phase = "bind"
    /\ \/ ~Loads(SourceOf[Job]) /\ Aborts
       \/ Loads(SourceOf[Job]) /\ SourceHasRef /\ Turns("update")
       \/ Loads(SourceOf[Job]) /\ ~SourceHasRef /\ Blocks
    /\ UNCHANGED <<store, disk, planner, pool, used>>

\* ... and updates the queued job.
UpdateQueued ==
    /\ exec.phase = "update"
    /\ IF status[Job] = "queued"
       THEN bound' = bound \cup {Job} /\ Turns("claim")
       ELSE Blocks /\ UNCHANGED bound
    /\ UNCHANGED <<status, attempts, refs, disk, planner, pool, used>>

\* run_one_job claims by kind: the job it gets may be another one by now.
ClaimNext ==
    /\ exec.phase = "claim"
    /\ \/ \E j \in Jobs :
             /\ Claim(KindOf[Job], j)
             /\ exec' = [exec EXCEPT !.phase = "start", !.mine = j]
       \/ /\ Queue(KindOf[Job]) = {}
          /\ exec' = [exec EXCEPT !.phase = "after"]
          /\ UNCHANGED store
    /\ UNCHANGED <<disk, planner, pool, used>>

StartJob ==
    /\ exec.phase = "start"
    /\ IF status[exec.mine] = "claimed" /\ Loads(exec.mine)
       THEN Becomes(exec.mine, "running") /\ Turns("heartbeat")
       ELSE Aborts /\ UNCHANGED status
    /\ UNCHANGED <<attempts, bound, refs, disk, planner, pool, used>>

Heartbeat ==
    /\ exec.phase = "heartbeat"
    /\ IF status[exec.mine] \in Live /\ Loads(exec.mine) THEN Turns("work") ELSE Aborts
    /\ UNCHANGED <<store, disk, planner, pool, used>>

\* The handler does its work, or raises.
Handle ==
    /\ exec.phase = "work"
    /\ \/ Audited(exec.mine) /\ Turns("succeed")
       \/ Turns("fail") /\ UNCHANGED report
    /\ UNCHANGED <<store, plan, execution, planner, pool, used>>

SucceedJob ==
    /\ exec.phase = "succeed"
    /\ \/ Succeed(exec.mine) /\ exec' = [exec EXCEPT !.phase = "after", !.ok = TRUE]
       \/ /\ ~(status[exec.mine] \in Live /\ Loads(exec.mine))
          /\ Turns("fail")
          /\ UNCHANGED store
    /\ UNCHANGED <<disk, planner, pool, used>>

FailJob ==
    /\ exec.phase = "fail"
    /\ \/ Fail(exec.mine) /\ Turns("after")
       \/ ~(status[exec.mine] \in Open /\ Loads(exec.mine)) /\ Aborts /\ UNCHANGED store
    /\ UNCHANGED <<disk, planner, pool, used>>

\* run_one_job ran the planned job, and it succeeded.
Ran == exec.ok /\ exec.mine = Job

\* run_one_job is over; the planned job is loaded again for the report.
Report ==
    /\ exec.phase = "after"
    /\ \/ ~Loads(Job) /\ Aborts
       \/ Loads(Job) /\ Ran /\ exec' = [Advanced EXCEPT !.left = @ - 1]
       \/ /\ Loads(Job) /\ ~Ran
          /\ exec' = [Advanced EXCEPT !.left = @ - 1, !.blockers = TRUE,
                                      !.blocked = @ \/ Job # Audit]
    /\ UNCHANGED <<store, disk, planner, pool, used>>

Mut_CleanReport == report # "blockers"
Mut_Clean == ~exec.blockers
\* _audit_report_blockers: a report that is not there has no blockers.
Clean == ~exec.blockers /\ report # "blockers"

WriteExecution ==
    /\ exec.phase = "write"
    /\ execution' = IF Clean THEN "completed" ELSE "completed_with_blockers"
    /\ exec' = NoExecution
    /\ UNCHANGED <<store, plan, report, planner, pool, used>>

-----------------------------------------------------------------------------
(* The others: workers that run jobs of some kinds, operators, crashes.    *)

PoolClaim ==
    /\ \E k \in PoolKinds, j \in Jobs \ pool : Claim(k, j) /\ pool' = pool \cup {j}
    /\ UNCHANGED <<disk, planner, exec, used>>

PoolStart(j) ==
    /\ j \in pool /\ status[j] = "claimed" /\ Loads(j)
    /\ Becomes(j, "running")
    /\ UNCHANGED <<attempts, bound, refs, disk, planner, exec, pool, used>>

\* The report of an audit job is there by the time it succeeds.
PoolSucceed(j) ==
    /\ j \in pool /\ status[j] = "running"
    /\ Succeed(j) /\ Audited(j)
    /\ pool' = pool \ {j}
    /\ UNCHANGED <<plan, execution, planner, exec, used>>

PoolFail(j) ==
    /\ j \in pool /\ Fail(j)
    /\ pool' = pool \ {j}
    /\ UNCHANGED <<disk, planner, exec, used>>

\* The store refuses what the worker wants next, or the worker dies.
PoolGone(j) ==
    /\ j \in pool
    /\ \/ ~(status[j] \in Open /\ Loads(j)) /\ UNCHANGED used
       \/ used.crashes < MaxCrashes /\ used' = [used EXCEPT !.crashes = @ + 1]
    /\ pool' = pool \ {j}
    /\ UNCHANGED <<store, disk, planner, exec>>

Command(op) ==
    /\ op \in Commands /\ used.commands < MaxCommands
    /\ used' = [used EXCEPT !.commands = @ + 1]
    /\ UNCHANGED <<disk, planner, exec, pool>>

EnqueueOther(j) == Command("enqueue") /\ j \notin Planned /\ Insert(j)

Moves(op, j, from, to) ==
    /\ Command(op)
    /\ status[j] \in from /\ Loads(j)
    /\ Becomes(j, to)
    /\ UNCHANGED <<attempts, bound, refs>>

CancelJob(j) == Moves("cancel", j, Live \cup {"queued"}, "cancelled")
Mut_RetryJob(j) == Moves("retry", j, {"failed", "stale", "cancelled", "succeeded"}, "queued")
RetryJob(j) == Moves("retry", j, {"failed", "stale", "cancelled"}, "queued")

\* mark_stale_jobs raises as long as the store has a row that does not load.
MarkStale(j) == Moves("stale", j, Live, "stale") /\ \A i \in Jobs : Loads(i)

\* The runner or the planner dies: what it has committed stays.
Crash ==
    /\ used.crashes < MaxCrashes
    /\ \/ exec # NoExecution /\ Aborts /\ UNCHANGED planner
       \/ planner # 0 /\ planner' = 0 /\ UNCHANGED exec
    /\ used' = [used EXCEPT !.crashes = @ + 1]
    /\ UNCHANGED <<store, disk, pool>>

-----------------------------------------------------------------------------
Init ==
    /\ status = [j \in Jobs |-> "absent"]
    /\ attempts = [j \in Jobs |-> 0]
    /\ bound = {}
    /\ refs = [j \in Jobs |-> "none"]
    /\ plan = "none" /\ report = "none" /\ execution = "none"
    /\ planner = 0
    /\ exec = NoExecution
    /\ pool = {}
    /\ used = [commands |-> 0, plans |-> 0, executions |-> 0, crashes |-> 0]

PlannerStep == DryPlan \/ BeginEnqueue \/ EnqueueNext \/ WritePlan

RunnerStep ==
    \/ Begin \/ LookAtJob \/ CheckNext \/ LoadSource \/ UpdateQueued
    \/ ClaimNext \/ StartJob \/ Heartbeat \/ Handle \/ SucceedJob \/ FailJob
    \/ Report \/ WriteExecution

OthersStep ==
    \/ PoolClaim
    \/ \E j \in Jobs :
          \/ PoolStart(j) \/ PoolSucceed(j) \/ PoolFail(j) \/ PoolGone(j)
          \/ EnqueueOther(j) \/ CancelJob(j) \/ RetryJob(j) \/ MarkStale(j)

Next == PlannerStep \/ RunnerStep \/ OthersStep \/ Crash

Spec == Init /\ [][Next]_vars

-----------------------------------------------------------------------------
(* Properties.                                                             *)

\* The type of the store, the files and the local state of each process.
TypeOK ==
    /\ status \in [Jobs -> Statuses \cup {"absent"}]
    /\ attempts \in [Jobs -> Nat]
    /\ bound \in SUBSET Targets
    /\ refs \in [Jobs -> {"none", "one", "many"}]
    /\ plan \in {"none", "planned", "enqueued"}
    /\ report \in {"none", "pass", "blockers"}
    /\ execution \in {"none", "completed", "completed_with_blockers"}
    /\ planner \in 0 .. Len(Plan) + 1
    /\ exec \in Execution
    /\ exec.phase \notin {"idle", "write"} => exec.at \in Places
    /\ exec.phase \in {"start", "heartbeat", "work", "succeed", "fail"} => exec.mine \in Jobs
    /\ exec.phase \in {"look", "next", "bind", "update", "claim"} => exec.mine = None
    /\ pool \in SUBSET Jobs
    /\ used \in [commands : Nat, plans : Nat, executions : Nat, crashes : Nat]

\* A plan manifest that says its jobs are enqueued is never ahead of the
\* store: a planner that dies half-way leaves no such manifest.
PlanIsEnqueued == plan = "enqueued" => \A j \in Planned : status[j] # "absent"

Running == exec.phase \in {"start", "heartbeat", "work", "succeed", "fail"}

\* The planned job the runner was looking for runs only when every planned
\* job before it has succeeded, the audit job excepted.
RunsInOrder ==
    Running /\ exec.mine = Job /\ Job # Audit =>
        \A i \in 1 .. exec.at - 1 : status[Plan[i]] = "succeeded"

\* It runs with its binding applied, from a source with exactly one value.
RunsBound ==
    Running /\ exec.mine = Job /\ Job \in Targets =>
        Job \in bound /\ refs[SourceOf[Job]] = "one"

\* An execution reported complete has seen every planned job succeed, and so
\* they stay: neither a crash, another worker, a command nor the report of an
\* earlier execution makes an unfinished cycle pass for a finished one.
CompletedMeansDone ==
    execution = "completed" => \A j \in Planned : status[j] = "succeeded"

\* A cycle is not reported complete on the word of a missing audit report, or
\* of one written before the cycle was over.
CompletedMeansAudited == execution = "completed" => report = "pass"

\* The cycle moves the rows of the store only as their lifecycle allows.
Lifecycle == INSTANCE JobLifecycle

UsesLifecycle == Lifecycle!Spec
=============================================================================
