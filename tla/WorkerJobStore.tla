--------------------------- MODULE WorkerJobStore ---------------------------
(***************************************************************************)
(* The durable job store of the v2 research platform                       *)
(* (src/tradingbotsuite/v2/workers/job_store.py), the runner that executes *)
(* one job at a time on it (workers/runner.py), and the operator commands  *)
(* of the CLI that change it while workers run.                            *)
(*                                                                         *)
(* Every worker and every operator command is a process with a SQLite      *)
(* connection of its own.  Only claim_next opens its transaction before it *)
(* reads (BEGIN IMMEDIATE).  Every other method reads the row in           *)
(* autocommit and opens a transaction at its first write, which replaces   *)
(* the whole row by what it computed from the row it read: a method is a   *)
(* read step and, later, a commit step, and other processes may commit in  *)
(* between.  The row and its transition record are committed together.    *)
(***************************************************************************)
EXTENDS Naturals

CONSTANTS
    Jobs,           \* job ids, numbered in claim order: ORDER BY queued_at, job_id
    Kinds,          \* worker job kinds
    KindOf,         \* the kind of each job
    Workers,        \* processes that call run_one_job, again and again
    Operators,      \* processes that run one CLI command, or one planner call, at a time
    None,           \* no owner, no job
    MaxAttempts,    \* max_attempts of every job
    Commands,       \* the operator commands in use
    Overlap,        \* TRUE: store calls of different processes may overlap
    Capturing,      \* TRUE: handlers record gaps, as capture sessions do
    MaxCommands,    \* bound: operator commands in a behaviour, sweeps not counted
    MaxCrashes,     \* bound: process crashes in a behaviour
    MaxClaims       \* bound: claims of one job in a behaviour

AllCommands == {"enqueue", "update", "cancel", "retry", "heartbeat", "stale"}

Clients == Workers \cup Operators

ASSUME JobsAssumption == Jobs \subseteq Nat /\ None \notin Jobs
ASSUME KindsAssumption == KindOf \in [Jobs -> Kinds]
ASSUME ClientsAssumption == None \notin Clients /\ Workers \cap Operators = {}
ASSUME AttemptsAssumption == MaxAttempts \in Nat \ {0}
ASSUME CommandsAssumption == Commands \subseteq AllCommands /\ Overlap \in BOOLEAN
                             /\ Capturing \in BOOLEAN
ASSUME BoundsAssumption == MaxCommands \in Nat /\ MaxCrashes \in Nat /\ MaxClaims \in Nat

VARIABLES
    jobs,           \* worker_jobs: the record of each job
    lastTo,         \* worker_transitions: to_status of the job's latest row
    claims,         \* worker_transitions: how many rows say queued -> claimed
    gapRows,        \* worker_gap_records: the jobs that have a row there
    txn,            \* per process: the call between its read and its commit
    run,            \* per worker: where it is in run_one_job, and on which job
    sweep,          \* per operator: what is left of its mark_stale_jobs sweep
    commands,       \* operator commands issued so far
    crashes         \* crashes so far

tables == <<jobs, lastTo, claims, gapRows>>
vars == <<jobs, lastTo, claims, gapRows, txn, run, sweep, commands, crashes>>

-----------------------------------------------------------------------------
(* Records.  Of a WorkerJobRecord the model keeps what the store's own     *)
(* control and its readers depend on.  "retrying" is written and replaced  *)
(* inside one transaction of fail_job and is never seen.                   *)
(*                                                                         *)
(* A Mut_ definition is the one that follows it with a plausible bug in    *)
(* it; no specification uses it.  Each property is shown to catch one.     *)

Statuses ==
    {"queued", "claimed", "running", "succeeded", "failed", "cancelled", "stale"}

TERMINAL_STATUSES == {"succeeded", "failed", "cancelled"}

Live == {"claimed", "running"}

Record ==
    [status : Statuses \cup {"absent"},
     attempts : Nat,
     owner : Clients \cup {None},   \* lock_owner
     terminal : BOOLEAN,            \* terminal_state
     fresh : BOOLEAN,               \* the last heartbeat is within stale_after
     gap : BOOLEAN,                 \* gap_record_ids names the gap row of the job
     bound : BOOLEAN]               \* input_spec has the refs its plan binds

NoRow ==
    [status |-> "absent", attempts |-> 0, owner |-> None, terminal |-> FALSE,
     fresh |-> FALSE, gap |-> FALSE, bound |-> FALSE]

\* WorkerJobRecord._validate_record, which runs on every load of a row and on
\* no write: model_copy does not validate.
Loadable(r) ==
    /\ r.terminal <=> r.status \in TERMINAL_STATUSES
    /\ r.attempts =< MaxAttempts
    /\ r.status \in Live => r.owner # None

\* The statuses each method accepts in the row it reads.
Mut_FailFrom == Statuses
FailFrom == Statuses \ TERMINAL_STATUSES
RetryFrom == {"failed", "stale", "cancelled"}
Mut_CancelFrom == Statuses
CancelFrom == Live \cup {"queued"}
Mut_StaleFrom == {"running"}
StaleFrom == Live
Mut_UpdateFrom == Live \cup {"queued"}
UpdateFrom == {"queued"}

AllowedFrom(op) ==
    CASE op = "enqueue"   -> {"absent"}
      [] op = "update"    -> UpdateFrom
      [] op = "start"     -> {"claimed"}
      [] op = "heartbeat" -> Live
      [] op = "gap"       -> Statuses
      [] op = "succeed"   -> Live
      [] op = "fail"      -> FailFrom
      [] op = "retry"     -> RetryFrom
      [] op = "cancel"    -> CancelFrom
      [] op = "stale"     -> StaleFrom

-----------------------------------------------------------------------------
(* What each method writes in place of the record r it read.               *)

Enqueued(r) == [r EXCEPT !.status = "queued"]

Respecified(r) == [r EXCEPT !.bound = TRUE]

Claimed(r, c) ==
    [r EXCEPT !.status = "claimed", !.attempts = @ + 1, !.owner = c,
              !.terminal = FALSE, !.fresh = TRUE]

Started(r, c) == [r EXCEPT !.status = "running", !.owner = c, !.fresh = TRUE]

Beaten(r, c) == [r EXCEPT !.owner = c, !.fresh = TRUE]

Gapped(r) == [r EXCEPT !.gap = TRUE]

Mut_Succeeded(r, gap) == [r EXCEPT !.status = "succeeded", !.terminal = TRUE, !.gap = FALSE]

\* The gap ids written are those loaded before the transaction began.
Succeeded(r, gap) ==
    [r EXCEPT !.status = "succeeded", !.terminal = TRUE, !.gap = gap]

Mut_RequeuedRetrying(r) == [r EXCEPT !.status = "retrying", !.terminal = FALSE]
Mut_RequeuedAfresh(r) ==
    [r EXCEPT !.status = "queued", !.attempts = 0, !.owner = None, !.fresh = FALSE]

Requeued(r) ==
    [r EXCEPT !.status = "queued", !.owner = None, !.terminal = FALSE, !.fresh = FALSE]

Mut_Failed(r, retryable) ==
    IF retryable /\ r.attempts < MaxAttempts THEN Requeued(r) ELSE [r EXCEPT !.status = "failed"]

Failed(r, retryable) ==
    IF retryable /\ r.attempts < MaxAttempts
    THEN Requeued(r)
    ELSE [r EXCEPT !.status = "failed", !.terminal = TRUE]

Retried(r) == Requeued(r)

Cancelled(r) == [r EXCEPT !.status = "cancelled", !.terminal = TRUE]

Staled(r) == [r EXCEPT !.status = "stale", !.terminal = FALSE]

Written(t, c) ==
    CASE t.op = "enqueue"   -> Enqueued(NoRow)
      [] t.op = "update"    -> Respecified(t.cur)
      [] t.op = "start"     -> Started(t.cur, c)
      [] t.op = "heartbeat" -> Beaten(t.cur, c)
      [] t.op = "gap"       -> Gapped(t.cur)
      [] t.op = "succeed"   -> Succeeded(t.cur, t.flag)
      [] t.op = "fail"      -> Failed(t.cur, t.flag)
      [] t.op = "retry"     -> Retried(t.cur)
      [] t.op = "cancel"    -> Cancelled(t.cur)
      [] t.op = "stale"     -> Staled(t.cur)

Mut_UnloggedCancel == {"heartbeat", "gap", "cancel"}

\* heartbeat and record_gap replace the row without a transition record.
Unlogged == {"heartbeat", "gap"}

-----------------------------------------------------------------------------
(* A store call: its read, and its commit.                                 *)

Ops == {"enqueue", "update", "start", "heartbeat", "gap", "succeed", "fail",
        "retry", "cancel", "stale"}

\* flag: the retryable argument of fail_job, the gap ids of succeed_job.
Txn == [op : Ops \cup {"none"}, job : Jobs \cup {None}, cur : Record, flag : BOOLEAN]

NoTxn == [op |-> "none", job |-> None, cur |-> NoRow, flag |-> FALSE]

\* Without Overlap a call starts only when no other process is inside one.
Quiet(c) ==
    Overlap \/ \A d \in Clients \ {c} :
                  /\ txn[d] = NoTxn
                  /\ d \in Operators => sweep[d] = {}
                  /\ d \in Workers => run[d].phase # "closing"

\* The read succeeds: the row exists, loads, and is in a status the method takes.
Accepts(op, j) == Loadable(jobs[j]) /\ jobs[j].status \in AllowedFrom(op)

Read(c, op, j, flag) ==
    /\ txn[c] = NoTxn
    /\ Quiet(c)
    /\ Accepts(op, j)
    /\ txn' = [txn EXCEPT ![c] = [op |-> op, job |-> j, cur |-> jobs[j], flag |-> flag]]
    /\ UNCHANGED tables

Write(c) ==
    /\ txn[c] # NoTxn
    /\ LET t == txn[c]
           new == Written(t, c)
       IN /\ jobs' = [jobs EXCEPT ![t.job] = new]
          /\ lastTo' = IF t.op \in Unlogged THEN lastTo
                       ELSE [lastTo EXCEPT ![t.job] = new.status]
          /\ gapRows' = IF t.op = "gap" THEN gapRows \cup {t.job} ELSE gapRows
    /\ txn' = [txn EXCEPT ![c] = NoTxn]
    /\ UNCHANGED claims

-----------------------------------------------------------------------------
(* run_one_job.  The phases of a worker name the call it makes next:       *)
(* start_job ("claimed"), heartbeat ("started"), the handler ("working"),  *)
(* succeed_job after its first load ("closing"), fail_job ("failing").     *)

Phases == {"idle", "claimed", "started", "working", "closing", "failing"}

\* attempts and bound are those of the record start_job returned; gap says
\* that the handler holds a gap id to name in succeed_job.
Run == [phase : Phases, job : Jobs \cup {None}, attempts : Nat, bound : BOOLEAN, gap : BOOLEAN]

Resting == [phase |-> "idle", job |-> None, attempts |-> 0, bound |-> FALSE, gap |-> FALSE]

Mut_QueuedLive(k) ==
    {j \in Jobs : KindOf[j] = k /\ jobs[j].status \in {"queued", "claimed", "running"}}

Queued(k) == {j \in Jobs : KindOf[j] = k /\ jobs[j].status = "queued"}

\* claim_next: read and write inside one BEGIN IMMEDIATE transaction.  A head
\* of the queue that does not load makes every claim of its kind raise.
ClaimNext(w) ==
    /\ run[w] = Resting
    /\ Quiet(w)
    /\ \E k \in Kinds : \E j \in Queued(k) :
          /\ \A i \in Queued(k) : j =< i
          /\ Loadable(jobs[j])
          /\ claims[j] < MaxClaims
          /\ jobs' = [jobs EXCEPT ![j] = Claimed(@, w)]
          /\ lastTo' = [lastTo EXCEPT ![j] = "claimed"]
          /\ claims' = [claims EXCEPT ![j] = @ + 1]
          /\ run' = [run EXCEPT ![w] = [Resting EXCEPT !.phase = "claimed", !.job = j]]
    /\ UNCHANGED <<gapRows, txn, sweep, commands, crashes>>

Call(w, phase, op, flag) ==
    /\ run[w].phase = phase
    /\ Read(w, op, run[w].job, flag)
    /\ UNCHANGED <<run, sweep, commands, crashes>>

StartJob(w) == Call(w, "claimed", "start", FALSE)

\* The runner's own heartbeat, then those of a capture session's handler.
Heartbeat(w) == \E phase \in {"started", "working"} : Call(w, phase, "heartbeat", FALSE)

RecordGap(w) == Capturing /\ ~run[w].gap /\ Call(w, "working", "gap", FALSE)

\* succeed_job loads the record on a connection of its own to learn its refs...
SucceedLoad(w) ==
    /\ run[w].phase = "working" /\ txn[w] = NoTxn
    /\ Quiet(w)
    /\ Loadable(jobs[run[w].job])
    /\ run' = [run EXCEPT ![w].phase = "closing",
                          ![w].gap = @ \/ jobs[run[w].job].gap]
    /\ UNCHANGED <<tables, txn, sweep, commands, crashes>>

\* ... and then moves the job as it finds it.
SucceedJob(w) == Call(w, "closing", "succeed", run[w].gap)

\* The handler raises, for a reason of its own.
HandlerRaises(w) ==
    /\ run[w].phase = "working" /\ txn[w] = NoTxn
    /\ run' = [run EXCEPT ![w].phase = "failing"]
    /\ UNCHANGED <<tables, txn, sweep, commands, crashes>>

FailJob(w) == Call(w, "failing", "fail", run[w].attempts < MaxAttempts)

NextOps(phase) ==
    CASE phase = "idle"    -> {}
      [] phase = "claimed" -> {"start"}
      [] phase = "started" -> {"heartbeat"}
      [] phase = "working" -> {"heartbeat", "gap", "succeed"}
      [] phase = "closing" -> {"succeed"}
      [] phase = "failing" -> {"fail"}

\* The store refuses a call: inside the handler the except clause answers with
\* fail_job; outside it the exception leaves run_one_job and the job stays.
Refused(w) ==
    /\ txn[w] = NoTxn
    /\ Quiet(w)
    /\ \E op \in NextOps(run[w].phase) :
          IF op = "succeed" /\ run[w].phase = "working"
          THEN ~Loadable(jobs[run[w].job])
          ELSE ~Accepts(op, run[w].job)
    /\ run' = [run EXCEPT ![w] =
                 IF @.phase \in {"working", "closing"}
                 THEN [@ EXCEPT !.phase = "failing"] ELSE Resting]
    /\ UNCHANGED <<tables, txn, sweep, commands, crashes>>

\* A worker's call commits and returns to run_one_job.
Commit(w) ==
    /\ Write(w)
    /\ \/ /\ txn[w].op = "start"
          /\ run' = [run EXCEPT ![w].phase = "started",
                                ![w].attempts = txn[w].cur.attempts,
                                ![w].bound = txn[w].cur.bound]
       \/ txn[w].op = "heartbeat" /\ run' = [run EXCEPT ![w].phase = "working"]
       \/ txn[w].op = "gap" /\ run' = [run EXCEPT ![w].gap = TRUE]
       \/ txn[w].op \in {"succeed", "fail"} /\ run' = [run EXCEPT ![w] = Resting]
    /\ UNCHANGED <<sweep, commands, crashes>>

-----------------------------------------------------------------------------
(* Operator commands, and the enqueue and update_queued_input_spec calls   *)
(* of the cycle planner and runner.  One that is refused changes nothing.  *)

Command(o, op, j) ==
    /\ op \in Commands
    /\ commands < MaxCommands
    /\ sweep[o] = {}
    /\ Read(o, op, j, FALSE)
    /\ commands' = commands + 1
    /\ UNCHANGED <<run, sweep, crashes>>

Enqueue(o) == \E j \in Jobs : Command(o, "enqueue", j)
UpdateQueuedInputSpec(o) == \E j \in Jobs : Command(o, "update", j)
CancelJob(o) == \E j \in Jobs : Command(o, "cancel", j)
RetryJob(o) == \E j \in Jobs : Command(o, "retry", j)
OperatorHeartbeat(o) == \E j \in Jobs : Command(o, "heartbeat", j)

CommitCommand(o) == Write(o) /\ UNCHANGED <<run, sweep, commands, crashes>>

Seen == [job : Jobs, status : Live]

\* mark_stale_jobs lists the jobs once (which raises if any row does not load)
\* and keeps those whose heartbeat was old in that listing ...
MarkStaleJobs(o) ==
    LET old == {j \in Jobs : jobs[j].status \in Live /\ ~jobs[j].fresh} IN
    /\ "stale" \in Commands
    /\ txn[o] = NoTxn /\ sweep[o] = {} /\ old # {}
    /\ Quiet(o)
    /\ \A j \in Jobs : Loadable(jobs[j])
    /\ sweep' = [sweep EXCEPT ![o] = {[job |-> j, status |-> jobs[j].status] : j \in old}]
    /\ UNCHANGED <<tables, txn, run, commands, crashes>>

\* ... then takes them one by one, each only from the status it was listed with.
\* The first that has moved on raises and ends the sweep.
MarkStaleNext(o) ==
    /\ txn[o] = NoTxn
    /\ \E s \in sweep[o] :
          /\ \A other \in sweep[o] : s.job =< other.job
          /\ IF Accepts("stale", s.job) /\ jobs[s.job].status = s.status
             THEN /\ Read(o, "stale", s.job, FALSE)
                  /\ sweep' = [sweep EXCEPT ![o] = @ \ {s}]
             ELSE /\ sweep' = [sweep EXCEPT ![o] = {}]
                  /\ UNCHANGED <<tables, txn>>
    /\ UNCHANGED <<run, commands, crashes>>

-----------------------------------------------------------------------------
(* The environment: time passes, processes die.                            *)

\* stale_after passes since the last heartbeat; a handler may be that slow.
HeartbeatAges(j) ==
    /\ jobs[j].status \in Live /\ jobs[j].fresh
    /\ jobs' = [jobs EXCEPT ![j].fresh = FALSE]
    /\ UNCHANGED <<lastTo, claims, gapRows, txn, run, sweep, commands, crashes>>

\* A worker process dies: an open transaction is rolled back, the job stays.
Crash(w) ==
    /\ crashes < MaxCrashes
    /\ run[w] # Resting
    /\ run' = [run EXCEPT ![w] = Resting]
    /\ txn' = [txn EXCEPT ![w] = NoTxn]
    /\ crashes' = crashes + 1
    /\ UNCHANGED <<tables, sweep, commands>>

\* A command dies between its read and its commit, or in the middle of a sweep.
CommandCrash(o) ==
    /\ crashes < MaxCrashes
    /\ txn[o] # NoTxn \/ sweep[o] # {}
    /\ txn' = [txn EXCEPT ![o] = NoTxn]
    /\ sweep' = [sweep EXCEPT ![o] = {}]
    /\ crashes' = crashes + 1
    /\ UNCHANGED <<tables, run, commands>>

-----------------------------------------------------------------------------
Init ==
    /\ jobs = [j \in Jobs |-> NoRow]
    /\ lastTo = [j \in Jobs |-> "absent"]
    /\ claims = [j \in Jobs |-> 0]
    /\ gapRows = {}
    /\ txn = [c \in Clients |-> NoTxn]
    /\ run = [w \in Workers |-> Resting]
    /\ sweep = [o \in Operators |-> {}]
    /\ commands = 0
    /\ crashes = 0

WorkerStep(w) ==
    \/ ClaimNext(w) \/ StartJob(w) \/ Heartbeat(w) \/ RecordGap(w)
    \/ SucceedLoad(w) \/ SucceedJob(w) \/ HandlerRaises(w) \/ FailJob(w)
    \/ Refused(w) \/ Commit(w)

OperatorStep(o) ==
    \/ Enqueue(o) \/ UpdateQueuedInputSpec(o) \/ CancelJob(o) \/ RetryJob(o)
    \/ OperatorHeartbeat(o) \/ CommitCommand(o)
    \/ MarkStaleJobs(o) \/ MarkStaleNext(o)

Next ==
    \/ \E w \in Workers : WorkerStep(w) \/ Crash(w)
    \/ \E o \in Operators : OperatorStep(o) \/ CommandCrash(o)
    \/ \E j \in Jobs : HeartbeatAges(j)

Spec == Init /\ [][Next]_vars

\* A store call that has read goes on to commit; a worker whose run is over
\* calls run_one_job again; a handler returns or raises, its loops being capped
\* (max_messages, max_rows, max_seconds); stale sweeps are run again and again.
Fairness ==
    /\ \A w \in Workers :
          /\ WF_vars(ClaimNext(w))
          /\ WF_vars(StartJob(w) \/ Heartbeat(w) \/ SucceedJob(w) \/ FailJob(w) \/ Refused(w))
          /\ WF_vars(Commit(w))
          /\ SF_vars(SucceedLoad(w) \/ HandlerRaises(w))
    /\ \A o \in Operators :
          /\ WF_vars(CommitCommand(o))
          /\ SF_vars(MarkStaleJobs(o))
          /\ WF_vars(MarkStaleNext(o))
    /\ \A j \in Jobs : WF_vars(HeartbeatAges(j))

FairSpec == Spec /\ Fairness

-----------------------------------------------------------------------------
(* Properties.                                                             *)

\* The type of every table and of every process's local state.
TypeOK ==
    /\ jobs \in [Jobs -> Record]
    /\ lastTo \in [Jobs -> Statuses \cup {"absent"}]
    /\ claims \in [Jobs -> Nat]
    /\ gapRows \in SUBSET Jobs
    /\ txn \in [Clients -> Txn]
    /\ run \in [Workers -> Run]
    /\ sweep \in [Operators -> SUBSET Seen]
    /\ commands \in Nat
    /\ crashes \in Nat

\* Every row the store holds can be loaded again.  One that cannot makes
\* list_jobs, mark_stale_jobs and start_job raise for good.
RowsLoad == \A j \in Jobs : Loadable(jobs[j])

\* While a worker is on a job the row is claimed or running and names that
\* worker, so that no job is ever executed by two: claim_next gives it to one,
\* and no stale copy written back hands it to a second or takes it away.
OneWorkerPerJob ==
    \A w \in Workers : run[w].job # None =>
        /\ jobs[run[w].job].status \in Live
        /\ jobs[run[w].job].owner = w

\* The transition records account for the row: the latest one ends in the
\* status the row has.
LogAgrees == \A j \in Jobs : lastTo[j] = jobs[j].status

\* attempts counts the claims on record, so that max_attempts bounds them.
AttemptsCountClaims == \A j \in Jobs : jobs[j].attempts = claims[j]

\* No gap record is orphaned: the job it was written for names it.
GapEvidenceKept == \A j \in gapRows : jobs[j].gap

\* A worker that owns a running job, and is on the attempt its row counts,
\* executes the input_spec the row records.
RunsRecordedSpec ==
    \A w \in Workers :
        LET row == jobs[run[w].job] IN
        run[w].phase \in {"started", "working", "closing"}
        /\ row.owner = w /\ row.attempts = run[w].attempts
            => run[w].bound = row.bound

CommitsTo(op, j) == \E c \in Clients : txn[c].op = op /\ txn[c].job = j /\ txn'[c] = NoTxn

\* Only a retry command takes a job out of a terminal status.
TerminalLeftOnlyByRetry ==
    [][\A j \in Jobs :
          jobs[j].status \in TERMINAL_STATUSES /\ jobs'[j].status # jobs[j].status
              => CommitsTo("retry", j)]_vars

\* attempts never exceeds max_attempts, as WorkerJobRecord demands of every row.
AttemptsWithinMax == \A j \in Jobs : jobs[j].attempts =< MaxAttempts

\* The records of the job store live as JobLifecycle promises.
Lifecycle ==
    INSTANCE JobLifecycle WITH
        status <- [j \in Jobs |-> jobs[j].status],
        attempts <- [j \in Jobs |-> jobs[j].attempts]

ImplementsLifecycle == Lifecycle!Spec

\* Every enqueued job ends, or is declared stale, whatever order the workers
\* take them in, however their handlers fail and whichever of them die.
EnqueuedJobsEnd ==
    \A j \in Jobs :
        jobs[j].status = "queued" ~> jobs[j].status \in TERMINAL_STATUSES \cup {"stale"}

\* No job is left claimed or running for ever by a worker that died.
NoJobStaysLive == \A j \in Jobs : jobs[j].status \in Live ~> jobs[j].status \notin Live
=============================================================================
