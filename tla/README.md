# Verification of ResearchEngineDeluxe

TLA+ modules, TLC runs and TLAPS proofs about the parts of this repository that
keep state across processes, tasks and crashes: the durable worker job store, the
experiment ledger, the bounded research cycle that drives both, the archive its
collectors write with the path backtests read it by, the Lead Book, and the
trading engine of the compatibility runtime. Paths
below are relative to `src/` of the repository; `v2/` stands for
`src/tradingbotsuite/v2/`. `PROJECT.json` has the machine-readable side: which
lines each definition models (`map`), the runs, one plausible bug for every
property that the property catches (`mutants`), the disagreements between code and
documents the runs show (`findings`), the hazards, and the theorems.

## 1. The system

The repository calls itself "a research-only, data-first, multi-instrument
perpetual-futures research platform ... not a live trading system"
(`README.md`). Its active part is `v2/`; beside it are an older operator runtime with a
trading engine, and a large body of numerical research code.

There is no server. Every actor is a process with a short life: a
worker that runs one job, a CLI command, a planner or a runner of a cycle, a
scheduler tick. They share a SQLite database (the job store) and a directory of
files (archive, ledger, Lead Book, reports, manifests). Everything hard in `v2/`
follows from this: two processes act on the same row or file at the same
time, and any process may die between two writes. The compatibility runtime is
the one server: signals, a monitor loop and the operator console's requests are tasks
of one event loop with one lock, which two of the engine's calls do not take,
and an exchange answers late, refuses, or is heard of through a stream that drops.

### Inventory

| Component | State | Operations | Talks to | Hard behaviour |
|---|---|---|---|---|
| **Job store** `v2/workers/job_store.py`, `models.py` | SQLite tables `worker_jobs` (one JSON record per job), `worker_transitions`, `worker_heartbeats`, `worker_gap_records` | `enqueue`, `update_queued_input_spec`, `claim_next`, `start_job`, `heartbeat`, `record_gap`, `succeed_job`, `fail_job`, `retry_job`, `cancel_job`, `mark_stale_jobs` | every other component | only `claim_next` reads inside its transaction; no method checks who owns the row; validation runs on load but not on write |
| **Job runner** `v2/workers/runner.py` | none of its own | `run_one_job`: claim, start, heartbeat, handler, succeed or fail | store, handlers | dies at any step; works on after its job was taken away |
| **Cycle planner** `v2/autonomy/cycle_planner.py` | `autopilot_cycle_plan.json` | plan, with or without enqueueing its jobs | store | dies between two enqueues, or before the manifest |
| **Cycle runner** `v2/autonomy/cycle_runner.py` | `autopilot_cycle_execution.json` | for each planned job: look, check it is next, apply its binding, `run_one_job`, report | store, runner, audit report | other workers take, cancel and retry the same jobs between any two calls |
| **Scheduler** `v2/autonomy/cycle_scheduler.py` | tick manifest | one cycle-runner call per plan manifest | cycle runner | one plan's failure ends the tick |
| **Experiment ledger** `v2/ledger/service.py`, `jobs.py` | canonical Parquet file, part files, `append_log.jsonl`, `ledger.index.json` | `append_run_to_ledger`, `compact_ledger_parts`, `read_ledger`, `export_ledger` | ledger worker job, CLI | five files, no lock; only the index is written atomically |
| **Audit and readiness** `v2/audit/` | audit report, readiness record | check a cycle, write its report | store, cycle runner | the report may be missing, old, or another execution's |
| **Archive** `v2/archive/`, **collectors** `v2/collectors/` | raw files written once, Parquet manifests rewritten as a whole, snapshots | write raw, append manifest rows, rebuild | collector worker jobs | crash between file and row; lost rows when two workers rewrite a manifest |
| **Universe store** `v2/universe/store.py` | three Parquet tables | write a snapshot | collectors, cycle | three files written one after the other |
| **Lead Book** `v2/lead_book/` | one Parquet file | `upsert`, `request_human_inspection`, `complete_human_inspection`, `approve_after_human_inspection`, `request_deep_validation` | validation, ledger | guards of the workflow; whole-file rewrite |
| **Validation, final hard test** `v2/validation/` | slots of the final hard test | gates on a record | ledger, Lead Book | sequential |
| **Backtest data and lockbox** `v2/backtest_data/` | panel files | window arithmetic, coverage gate, build | archive | month boundaries |
| **Backtest engine, costs, features, data quality, strategy specs, data sources, archive inventory, venues, UI** | artifacts | data processing | archive | none that a model checker reaches |
| **Trading engine** `src/tradingbotsuite/core/engine.py`, **adapters**, **SQLite state store**, **operator jobs** (compatibility runtime) | positions, orders, safety status, operator job queue | signals, supervision, reconciliation, safe mode | exchange, monitor loop, operator console | order fills against position rows, one safety status for all symbols, unlocked calls of monitor loop and console |
| **Legacy research stack**, **legacy signal package** | reports | batch pipelines | | sequential, numerical |

What makes each of the first parts correct:

- *Job store*: a job is executed by one worker at a time; the row names it;
  attempts count the claims and stay within `max_attempts`; ended jobs stay
  ended unless retried by command; every row can be loaded; the transition log
  accounts for the row; gap evidence is not lost; every enqueued job ends.
- *Ledger*: rows are neither lost, moved, changed nor written twice, or the
  ledger refuses to be read; it stays appendable.
- *Cycle*: jobs run in plan order, each with its binding; an execution is
  complete only when every job succeeded and the audit of *this* state passed.
- *Archive*: a row of the file manifest names a whole file of that content, and the
  files it came from; what a succeeded job refers to exists; an instrument of a
  universe snapshot is in the catalog and the contexts.
- *Backtest data*: what a panel was read from can be read again; no ordinary
  evidence panel has a bar of the lockbox, warmup included.
- *Lead Book*: an approval follows an inspection; no change is lost; every row
  can be loaded.
- *Trading engine*: one entry per signal; what opens is protected or safe mode is
  on; a position that is gone does not stay on record; store and exchange
  agree, or safe mode is on.

## 2. Modules

| Module | Models | Extends / instances |
|---|---|---|
| `JobLifecycle` | what a job row promises to its readers: the status graph and the attempts counter, no clients, transactions or locks | |
| `WorkerJobStore` | the store's methods as read and commit steps, `run_one_job`, CLI commands, stale sweeps, crashes | `Lifecycle == INSTANCE JobLifecycle WITH status <- ..., attempts <- ...` |
| `LedgerLog` | what the ledger promises: an append-only sequence with one row per run | |
| `Ledger` | append and compaction, file by file, with torn writes, crashes, overlapping calls | `AsLog == INSTANCE LedgerLog WITH log <- index.runs` |
| `CycleRunner` | planner and runner composed with the store's operations (one step each), other workers, operators, crashes | `Lifecycle == INSTANCE JobLifecycle` |
| `Archive` | the collector jobs of candles and of the universe: raw, bronze and silver files, the manifest tables, failures, crashes and retries | |
| `BacktestData` | `load_panel` beside the collectors: temporal policy, coverage gate, data manifests | `EXTENDS Archive` |
| `LeadBook` | get, operation and upsert of the Lead Book's commands and jobs, file write included | |
| `TradingEngine` | signals, reconciliation, closing, protective orders, the monitor loop, the safety status, an exchange, its event stream, crashes | |
| `MC*` | small instances for TLC | the module named |
| `*_proofs` | theorems and proofs | the module named, TLAPS |
| `WorkerJobStoreCalls_proofs` | what the job store guarantees when no commit goes over another | `EXTENDS WorkerJobStore_proofs` |

### Job store (`WorkerJobStore`)

`jobs[j]` is the record in `record_json`; `lastTo` and `claims` are what the
transition rows say of the job; `gapRows` is `worker_gap_records`. A method of
the store is two steps, because it is two steps of SQLite: `Read` (the
`_require_job` or `_load_job`, in autocommit; refuses if the row does not load
or has a status the method does not take) and `Write` (the whole row replaced by
what the method computed from what it *read*, with the transition record, in
one commit). `txn[c]` holds the copy in between. Only `ClaimNext` is a single
step: `claim_next` runs `BEGIN IMMEDIATE` first. `succeed_job` has one load more,
on a connection of its own, for the refs it writes (`SucceedLoad`). `fail_job`
goes failed -> retrying -> queued within one commit, so it is one write.

`run[w]` is the worker's place in `run_one_job`: a refused `start_job` or
first heartbeat leaves the function and the job as it is; an exception in the handler or in
`succeed_job` leads to `fail_job`. `sweep[o]` is the listing `mark_stale_jobs`
still has to go through; the first job that moved on ends it. Handlers record gaps only
where `Capturing` says so (the websocket captures do).

Left out: refs, hashes, payloads and timestamps; a heartbeat's age is one bit
that may turn old at any time. Transitions are kept as the latest one and a
count of claims. `queued_at` order is the order of job ids (a requeued
job keeps its `queued_at`).

`Overlap` says whether calls of different processes may overlap. With
`Overlap = FALSE` every method is atomic with respect to the others,
as SQLite users may expect; the difference between the two settings is exactly the
read-outside-the-transaction design, and each property is checked in the
strongest setting in which the code has it.

### Ledger (`Ledger`)

Rows are run ids. A Parquet file is missing, torn, or whole with its rows and
first ledger index; its SHA-256 is the file's value itself, since the bytes are a
function of the rows. Each file write is a step: `Open*` truncates
(`pq.write_table` on the path), `Fill*` completes, the log line is appended, the
index is replaced by a rename (`Replace`). An append finds out whether the last part
may be extended (`ChoosePart`), reads it (`ReadPart`) and truncates it (`OpenPart`) in
three steps, between which others may rewrite it. A process may die
between any two.

`_write_json_atomic` writes a temporary file whose name is the same for every caller, so
overlapping calls share it. `Replace` therefore says what a rename may bring to the
index's place: with the name in use by others at the same time, the document of any of
them, or half of one (`Renamed`, `TornIndex`). A call whose temporary file was
renamed under it (`temp`) still has it open, so it may finish the document in place, or
tear it; then it finds nothing to rename, and raises (`Overtaken`). `PartRefsHold`, `CompactedHolds`, `LogHolds` are
`_validate_ledger_part_refs` and its companions; `Readable` is the condition
under which `read_ledger` returns, `ReadRows` what it returns.

Left out: the fields of a row; the acceptance rules of
`append_run_to_ledger`, which only refuse; validation reads several files but is one step; a
log line is written whole, and so is a temporary file while no other call has it open. The canonical path, the default output
`compacted/current.parquet` and other outputs are three kinds of path.

### Research cycle (`CycleRunner`)

The store is `status`, `attempts`, the set of jobs whose binding is applied, and
what the source of a binding offers (`refs`: no value, one, several). A store
call is one step (its detail is `WorkerJobStore`), so between any two calls of the
runner other workers, operators and crashes act. `exec` is the call of
`run_autopilot_cycle_plan` with its budget, its `non_audit_blocked` and
its blockers; `planner` the place in the planner's enqueue loop; `plan`,
`report`, `execution` the three files. The plan, its bindings and which job is the
audit job are constants, with `_validate_bindings` and the plan's order as
their assumptions. `pool` is the set of jobs that a worker outside the cycle
is executing.

Left out: loading the report and writing the execution manifest is one step; the audit report is reduced
to pass or blockers, with a blocker for certain while a planned job has not
succeeded.

### Archive and backtest data (`Archive`, `BacktestData`)

`file[path]` is a data file and `table[t]` a Parquet table under `manifests/`.
A file's id is its SHA-256, so in the model the id *is* the content: a layer,
the file it was rebuilt from and the payload. `CandleSteps` and `UniverseSteps` are
the files and tables a collector job writes, in the order it does;
`worker[w].at` counts through them. A file is `OpenFile` (read the source, find the path free)
and `WriteFile`; a table is `LoadTable` (all rows) and `StoreTable` (rows
with the job's own upserted, written back whole and in place). `SkipTable` is
the job option that leaves out coverage or the snapshot. `Fail` is a step that raises; `Crash`
may leave the file or table being written `Torn`; `Retry` queues the job
again. The job store is reduced to status and attempts (its detail
is `WorkerJobStore`).

No lock is held between a load and the store, so two workers can lose each
other's rows. `raced` records that this happened: a write replaced what its
writer had not seen. The properties of the tables are promised only until then,
and the code gives no more; the lockbox property holds in any case.

A panel is two steps. `LoadPanel` reads tables that only grow: it checks the request
against the policy, the snapshot's window and the best coverage report of the
window, and reads the bars. `RecordPanel` then rewrites the table of data
manifests; a loader that dies (`DropPanel`) leaves no manifest, or a torn table that
makes later loads raise. `Panels` are those in use and those on record. Requests
range over every snapshot, window, mode and lockbox setting. Two loaders rewriting the
table of data manifests at once, where one's row may be lost, are left out.

Left out: funding, asset contexts, microstructure and derived timeframes
(the same files and rows in the same order), `rebuild` from the command
line, row contents other than bar timestamps. The universe refresh writes its tables
with a copy of `universe/store.py` in `universe/hyperliquid.py`; both write the three in
one order.

### Lead Book (`LeadBook`)

`book` is the Parquet file: a row per lead, or `Torn` while it is rewritten. A
change is four steps of a process: `Get` (read and validate all rows, apply the
operation to one), `Read` (upsert's own read of the whole book), `Open`
(truncates) and `Fill`; a process may die before any of them. `Outcomes` is
the operation, with its guard; `Valid` is `_validate_lead`, applied on read and
never on write. `Create` is `lead create` or a `lead_book_upsert` job, which
upsert without a get. `inspected`, `last` and `overlapped` are histories.

Left out: evidence, gates and scan fields of a row, which no guard of the
workflow reads.

### Trading engine (`TradingEngine`)

Live mode, one symbol, one unit per entry. `task["signal"]` is the handler of
`handle_signal`, `task["monitor"]` the monitor loop of `web/app.py`; each request of
the operator console is a task of its own, which calls what `Call` says: the `snapshot`
of `GET /api/operator/snapshot` (`collect_system_snapshot`), or the health, `reconcile` and
`supervise` commands of `operator_commands.py`. A task's frame says where it is and what
it has read. A step is one request to the exchange or one store call,
since the event loop switches at an await. `lock` is `_op_lock`. Signals, execution
health, supervision and `bootstrap_reconcile` hold it; `refresh_market_data_health` and
`sync_execution_events` do not, and loop and console call both. So a reconciliation
(`ReadRow`, `Query`, `Notice`, `WriteRow`, or `RaiseMismatch`) and a market check run in
the middle of a signal. Every check that reads the safety status and then clears it is
two steps (`ClearIf`, `Clear`): `clear_safe_mode` clears whatever is there by then.
A reconciliation reads the status before its row is written and clears it after
(`Notice`, `WriteRow`, `Clear`). `Loads` says which signals and console requests come
in one behaviour. `crossed` is a history: while a signal was in hand, the console
changed the safety status, or a check cleared a reason other than the one it had read.
`net`, `orders` and `late` are the exchange: position, resting protective
orders, and requests the engine gave up on that may still be carried out.
`sent` and `here` are the order stream. `safety` is the one safety status, which every
part of the engine overwrites. `heartbeat_loss` stands for
`basis_dislocation` too: one condition clears both.

`Fault` bounds what goes wrong: a request refused, late or raising, a lost event,
a crash. Vetoes, exit rules, prices and data health are free choices.

Left out: shadow and paper mode, mode switches and their preflight, the smoke test and the testnet
cleanup command, the operator's manual signal (one more signal), the manual shell
(`manual_cli.py`, a process of its own with the same loop), sizes other than the configured
one, several symbols (they share only the safety status). A health command ends with a
snapshot; in the model that is one more `snapshot` request.

## 3. Runs

All properties are checked by TLC on the instances below; every one has a
mutant in `PROJECT.json` that TLC rejects.

| Run | Instance | Shows |
|---|---|---|
| `jobstore_pool` | 2 jobs, 2 workers, 1 operator that enqueues, calls overlap, 1 crash | with workers alone nothing goes wrong although the store's methods are no transactions: rows load, one worker per job and the row names it, attempts count the claims |
| `jobstore_serial` | 1 job, 2 workers, 2 operators, all commands (4 issued), 1 crash, calls one at a time | with all commands: the transition log and the gap evidence stay right; only a retry takes a job out of an ended status; a worker runs the spec on record; the job lifecycle is implemented |
| `jobstore_live` | 2 jobs, 1 worker, any number of sweeps, calls overlap, 1 crash, fairness | every enqueued job ends or is declared stale; no job stays live for ever, although a sweep decides on a listing that may be old and ends at the first job that moved on |
| `jobstore_retry_exhausted` | 1 job, retry command | *violation*: attempts exceed `max_attempts` after a manual retry, and the row never loads again |
| `ledger_crash` | 3 runs, parts of 2 rows, 2 compactions to either output, 2 crashes | whatever crashes: what can be read has every returned row, grows, has no run twice, and implements `LedgerLog`; without crash or foreign output, the ledger is complete |
| `ledger_race` | 3 runs, 2 processes that overlap, 1 compaction, 1 crash | every lost update is caught, and every index that is torn or another call's: the ledger fails closed |
| `ledger_compact_twice` | 2 runs, default output | *violation*: the second compaction leaves a ledger nobody can read or append to |
| `cycle` | plan of 3 jobs of two kinds and the audit, one binding; one job outside the plan; a collector pool; 2 executions with budget 3 of 4 jobs, 1 crash, 1 command | order, bindings, the plan manifest, and that a complete cycle is done and audited |
| `panels` | 2 candle jobs and a universe refresh, 2 workers, one retry, 1 panel; payloads with all bars, with a gap, and with no row that parses | rows, refs, snapshots and panels stay backed by whole files through failures, crashes and retries, as long as no writers race; no lockbox bar in evidence, ever |
| `lead_book` | 2 leads, 2 processes that overlap and die, 5 calls | approvals follow inspections; only a repeated request spoils a row; without overlap nothing is lost |
| `engine` | a long and a short signal, or the long one and a snapshot of the console, or a reconciliation of the console alone; 1 fault or crash, fairness (1.2 million states) | one entry per signal; opened positions are protected or safe mode is on, unless the console or an overtaken check changes the status in between; phantom rows end; without a fault store and exchange agree |
| `engine_diverged` | the two signals without console, crashes or fairness | *violation*: a loss and return of the stream clears a reconciliation mismatch |

The bounds. Two workers are enough for every conflict over a job, since every
step involves at most one other process' commit; two attempts tell a retry
from an exhausted job. Three ledger runs with parts of two rows give a part that is reused,
one that is full, and one that begins after a compaction; two crashes give a crash
in the call that finds what the first left. In the cycle, a budget of 3 for 4 jobs
forces a second execution; the outside job comes before the plan in
the queue of one of its kinds, the pool works on that kind, and the binding's
source and target have a job of another kind between them. For panels, the
lockbox is the last of three bars, so a window may end before it, touch it or
contain it; the gap lies in the middle of the window; one candle job can be
claimed twice, which is what a crash and its retry need. States after a race
are checked and not expanded (the constraint `Unraced`): nothing but
`NoLockboxBars` is promised there, and that is proved. Five Lead Book calls take a
lead from its creation through inspection, approval and deep validation to a
repeated request. In the engine, a long and a short signal give a flip, a veto and a
second entry; a snapshot has both unlocked calls and the locked health check, with a signal and
the loop beside it. One fault is enough for every behaviour section 5 names. Several
faults, several console requests in one behaviour, the other commands, and a
reconciliation of the console beside signals are covered by the proofs, except for
`PhantomsEnd`.
Workers, and leads and processes of the Lead Book, are symmetric. The `MaxCommands`, `MaxCrashes`,
`MaxClaims`, `MaxPlans`, `MaxExecutions`, `MaxCompactions`, `MaxRows`,
`MaxAttempts` of a collector job, `MaxReads`, `MaxCalls` and `MaxFaults`
bounds are guards in the modules, like `Loads`; `MaxClaims` is set above what the others
allow, and `MaxCommands` does not count sweeps.
Deadlock checking is on for the engine, whose monitor loop must never hang on the
lock or in a reconciliation. It is off in the other runs because those systems may
stop: all jobs have ended or calls returned, and the bounds are spent.

Fairness of `jobstore_live`. Weak: a call that has read commits; a worker
goes on inside `run_one_job` and calls it again. Strong: a handler returns or
raises (their loops are capped by `max_messages`, `max_rows`, `max_seconds`),
although heartbeats in between may disable it again and again. Strong on the
sweep: nothing in the repository schedules `mark_stale_jobs`, so *an operator who
keeps running it* is an assumption of the result, not a fact about the code; the
contract demands "Stale heartbeats become explicit stale/failed evidence"
(`docs/contracts/worker_job_contract.md:25`) and only the sweep can do that.
Heartbeats get old by passing time.

Fairness of `engine`. Weak: the event loop goes on with the monitor loop, or with
the task that holds the lock the loop may be waiting for (nothing is assumed of the
others); a row's last reconcile gets old by passing time. Strong: the check of the stream at the start of the loop's
execution-health round finds it up again and again.
That is an assumption about the venue: while the stream is down the engine
does not reconcile stale rows (`core/engine.py`, `refresh_execution_health`), so a
phantom row then stays, with safe mode on. Signals, triggers and
deliveries are not assumed to happen.

## 4. Proofs

TLAPS checks these for all jobs, workers, operators, runs, plans and bounds that
satisfy the named assumptions of each module (for the archive and backtest data:
all payloads and bars; for the engine: all signals and directions, any console
requests, in any number, and any number of faults).
Every property of a passing run is stated by a theorem, except the three liveness
properties. A hypothesis beyond the modules' assumptions is named below, with what
happens outside it.

- **`WorkerJobStore_proofs`**. `TypeCorrect`. `TypeOK` is not inductive: a
  commit writes what was read, and a worker's step depends on what its phase
  promises. `IInv` adds that an open transaction has a row its method accepts
  (`WellFormedTxn`) and that a worker's transaction belongs to the calls of
  `run_one_job` (`WellFormedRun`). `RowsAlwaysLoad`: *if the retry command is not
  in use*, every row loads, overlapping calls or not. The point of the proof
  is lost updates: a stale copy may be written back at any time, so `SoundInv` asks of
  every copy that some process holds what it asks of the rows, that it loads
  and that a queued one has a claim left. The hypothesis is needed: `jobstore_retry_exhausted`.
- **`WorkerJobStoreCalls_proofs`**. `StoreImplementsLifecycle` (the refinement of
  `JobLifecycle`), `AttemptsAlwaysCountClaims`, `LogAlwaysAgrees`,
  `TerminalIsLeftOnlyByRetry`, `GapEvidenceIsKept`, `WorkersRunRecordedSpec`:
  *if calls do not overlap, or if one operator only enqueues beside overlapping
  workers* (`Undisturbed`; these are the settings of the runs `jobstore_serial` and
  `jobstore_pool`). `PoolHasOneWorkerPerJob`: if nothing but enqueue comes from outside,
  overlapping or not. One fact carries them all, `CallsInv`: the copy a call holds
  between its read and its commit still *is* the row, up to the age of its
  heartbeat (`Current`). Without overlap at most one call is in progress
  (`Exclusive`). In a pool a row has one writer at a time: the operator while the row
  is absent, then the worker the row names (`Pooled`), and calls of a worker are on the
  job of its run (`OnItsJob`). `StepKinds` shows once that every step
  is a read, a commit, a claim, or leaves the rows alone but for the age of a heartbeat, so each property
  is argued over four kinds of step. `GapInv` adds that a worker on its
  way to `succeed_job` has loaded the gap, `SpecInv` that as long as the row is at the
  attempt the worker claimed, its spec is the one claimed.
  Outside the hypothesis a heartbeat, a sweep or a cancel commits over what another call
  wrote, and most of these properties fail (section 5).
- **`LedgerLog_proofs`**. `LogHasOneRowPerRun`, `LogOnlyGrows`: what the abstract log gives its users.
- **`Ledger_proofs`**. `LedgerTypeCorrect` (any interleaving). *If calls do not
  overlap*: `SerialLedgerIsLog`, the rows of the index are the append-only log, through
  any number of compactions and crashes at any write. `LogInv`: at most one
  call is busy; what it works from is what the index still says, its run is not in
  the ledger yet, and nobody has touched its temporary file, so that a rename writes its
  own document (`Faithful`, `SerialReplace`); while no part index exists the canonical file
  has the index's rows (`InStep`). Each step then leaves the index's rows or adds one
  of a new run. `SerialDuplicatesFail`: no run is returned twice, since what
  was returned is in the index (`AckInv`). `SerialLedgerIsComplete`: while no call
  died and nothing else was compacted onto, a ledger at rest can be read and has
  exactly the rows returned. For this `SoundInv` says what lies on disk. At rest it
  is `Untouched`, or `Committed`: the canonical file and the parts, each
  as long and as whole as its reference says, tile the rows of the index (`SnapHolds`). Inside a
  call the same holds of what is about to be committed (`SoundCall`),
  and an append makes the last part longer or starts one behind it (`NewPart`).
  *If calls do not overlap, or none compacts onto the canonical file*:
  `NoRowIsLostToReaders`, `ReadersAlwaysSeeItGrow`. The append log is written
  before the index, so it has every row that the index, or any call's copy
  of it, names (`LoggedInv`), and so has whatever a shared temporary file can bring to the
  index's place (`LoggedDocuments`); an index that has lost a row disagrees with the log,
  a torn one is refused because the parts directory exists, and the ledger fails closed. The hypothesis is needed: a compaction onto the canonical file
  replaces the index of parts by a sidecar, which is not checked against the
  log; overlapping an append, it loses the row silently.
- **`CycleRunner_proofs`**. `CycleTypeCorrect`; `CompleteCyclesAreDone`;
  `PlannedJobsRunInOrder`. `Types` is the type with what each phase promises. `CycleInv`:
  a call with no blocker has left only succeeded jobs behind it; one that is
  not blocked has left only succeeded jobs but the audit; a job other than
  the audit is only run by a call that is not blocked. `SucceededStays` is the fact about the store they
  rest on: no step of anyone takes a job out of "succeeded" (`retry_job` does
  not accept it). `Progress` classifies what a step does to the call, so that
  the invariant is argued once per class and not once per action.
  `BoundJobsRunBound`: from the check of the source to the end of the run, a
  binding stays applied and its source keeps its one value (`BindingInv`).
  `CompleteCyclesAreAudited`: a report exists when the audit job
  has succeeded, and `completed` is written from one that passes (`AuditInv`).
  `ManifestIsBacked`: jobs the planner has passed have a row, and rows stay (`PlannerInv`).
  `CycleUsesLifecycle`, the refinement: every step moves at most one row, in one of the
  ways `StoreMove` lists, each a step of `JobLifecycle`.
- **`BacktestData_proofs`**. `EvidenceAvoidsLockbox`: `Admitted` says what every
  recorded request passed; a bar that lies in its window and in the lockbox
  would make the two overlap (`OverlapOfBar`). Nothing is assumed about the
  archive: races, torn tables and crashes are allowed. `ArchiveTypeOK`, likewise.
  `FilesHaveProvenance`, `JobRefsResolve`, `UniverseSnapshotsAreBacked`,
  `PanelsCanBeReplayed`, each *until two writers race* as the property says: `AllHold`
  is inductive. A worker that has come as far as it has left rows and files behind it:
  `WorkHolds` says which, by its step, the one place where the order of a
  job's writes enters. `SnapshotsHold`, `UniverseHolds` and `RefsHold` follow at the
  step that writes each, and stay because tables and files only
  grow while nobody races (`Grows`). Crashes, failures and retries
  are included; a torn table is read as an error, never as empty (`TornAssumption`).
- **`LeadBook_proofs`**. `LeadBookTypeCorrect`; `ApprovedLeadsWereInspected`;
  `OnlyRequestsSpoil`; `SerialWritesAreKept`. A row reaches the file through a
  call and through copies of the whole book, any of which may be written at any
  time. So `RowsSound` asks of every row held anywhere what the properties ask of
  the file. `Serial` adds that, while no calls overlapped, at most one is in
  progress and its copy is what was last written.
- **`TradingEngine_proofs`**. `EngineTypeCorrect`; `SignalsEnterOnce`. The invariant
  `Inv` has the types (`Typed`), that only reserved signals have entries (`Once`), that the
  signal in hand has none while its handler may still come to its entry order,
  wherever in a reconciliation it waits (`NotYet`), and which tasks hold `_op_lock` at
  which steps (`Locked`). One lemma per action says what it does to frames and
  lock (`Moves`); `MoveInv` concludes from that alone.
  `SignalsOpenProtectedOrSafe`, for any console requests and any number of faults. Safe
  mode, once on, stays on until the handler has written its row *unless `crossed`*: a
  console request changed the status meanwhile, or a check cleared a reason it had not
  read. Of the two, the loop alone cannot do the first: while a signal is in hand it
  writes the status once, from market data or a reconciliation, and must then wait for
  the lock; what it finds before that is clear or the signal's own reason, which no
  check of the loop clears (`Calm`). Outside the condition the property is false
  (section 5, with both ways).
  `CleanRunsAlwaysAgree`: `Unwritten` says that a row some task has read, or the store has, is
  of a reserved signal, and not of the one in hand before it writes its row; `Agreed` relates
  the position to the row at each step of the handler and of every task that
  reconciles or closes beside it.

Only model-checked: the liveness properties `EnqueuedJobsEnd`, `NoJobStaysLive` and
`PhantomsEnd` (out of the prover's reach, like ENABLED), and the three runs that
expect a violation. The properties of the cycle are proved with a store call as
one step and a store without heartbeat commands; the silent revival of an
ended job (section 5) is not in that model, and would break `CompletedMeansDone` and `RunsInOrder`.

## 5. What the runs show of the code

Three findings, each with the document or test it contradicts, are in
`PROJECT.json`: a retried job whose row no longer loads, a second compaction that
breaks the ledger, and a safe mode that a returning stream clears although the
exchange holds a position the store does not know. Further behaviour met while modelling:

Job store and cycle:

- A heartbeat that overlaps `succeed_job` writes its stale copy back: the job is
  RUNNING again with no transition record (`v2/workers/job_store.py:276`, against
  `docs/contracts/worker_job_contract.md:220`).
- A stale sweep or a cancel that overlaps `succeed_job` or `fail_job` may replace an ended
  row by `stale` or `cancelled`; the transition record is written, so the log agrees.
- A binding that overlaps a claim is applied to a claimed job, which then has the
  status `queued` again.
- Two overlapping `enqueue` calls of one job id both see no row.
- The cycle runner looks at one job and then claims by kind, so it may run
  another job than the one it checked (`v2/autonomy/cycle_runner.py:277` and `:309`, against
  `worker_job_contract.md:183`).
- An audit job that succeeds with blockers in its report is skipped by later
  executions, which read that report: the cycle can no longer be reported complete.
- A planning call without enqueue overwrites the manifest of an enqueued plan.
- A planned job that another worker ran before its binding was applied, and that succeeded, is
  skipped as done.

Ledger:

- The last part is rewritten in place, so a crash in the write takes rows with it
  whose append had returned (`v2/ledger/service.py:472`, against
  `docs/contracts/ledger_contract.md:9`); the ledger then fails closed.
- Two overlapping appends, or an append that overlaps a compaction, drop a row;
  the append log and the part hashes make every later call raise (`ledger_race`).
- Overlapping calls write the index through one temporary file
  (`v2/ledger/service.py:833`): one may put the other's half-written document in place, and
  the other's rename then raises. The next read refuses the index (`ledger_race`).
- A worker that dies between the append and `succeed_job` leaves a job whose
  retry fails as a duplicate, although the row is there.

Archive and backtest data:

- A worker that dies between a raw file and its manifest row leaves a file that
  makes every retry raise `FileExistsError`; no row ever names it.
- A second file with the same content takes over the manifest row of the first.
- A coverage report is found by instrument, family and timeframe. A panel of a
  gappy file passes the gate with the report of a complete one, whichever job wrote it.

Lead Book:

- Requesting the inspection of an approved lead again writes a row that its own
  schema rejects; from then on no command can read the book (`SpoiledOnlyByRequest`
  says that this is the only way to get there).
- Complete, approve, complete again, then deep validation: accepted, with an approval older than the inspection
  (against `docs/contracts/lead_book_contract.md:40`, "explicit agent approval after that inspection").
- A `lead_book_upsert` job that is run again resets a lead that was approved meanwhile.

Trading engine:

- Safe mode that a refused protective order raised (`core/engine.py:1170`) may be off again
  when the unprotected row is written (line 1877), and nothing says so later. `crossed`
  marks both ways. With the console: the loop's market check finds stale data and
  overwrites the reason (line 568), and the market check of `GET /api/operator/snapshot`, which
  takes no lock, finds the data healthy again and clears it (lines 555-557). Without it:
  a reconciliation of the loop reads `reconciliation_mismatch` (line 1733) and writes its
  row; a signal that reconciles the row itself clears that reason and passes the check, its
  protective order is refused, and the loop then clears what it finds (line 1774).
- The monitor's reconciliation, or one of the console, reads the row, asks the exchange, and
  writes the row it read: an entry in between is overwritten by a flat row, without any
  fault. `raced` marks it.
- `supervise_position_live` writes the row flat whatever became of its close order
  (line 1509). The events of the cancelled orders make a reconciliation find the position
  and raise safe mode; until then the status says nothing.
- The monitor may take a fill event off the queue while a signal is on its way; what it
  finds is older than the row the signal writes, and nobody looks again until the row ages.
- When one protective order fills, its sibling stays resting on the exchange.
- A confirmation query that raises after the entry filled ends the handler with no row and no safe mode.
- A second delivery of a signal enters nothing, and overwrites the stored
  decision of the first (`core/engine.py:919`).

## 6. Not modelled, and the plan

`PROJECT.json` lists every component with its status and reason. Numerical code
(backtests, features, statistics, gold panels), parsing and downloads have no interleaving
and data beyond model checking; the validation gates and the slots of the final
hard test are sequential checks of one record; shadow and paper mode of the
engine send nothing to an exchange. What a next step would model, in order:

1. **Operator jobs** (`operator_console.py`, `_recover_interrupted_running_jobs`,
   `_job_loop`, `queue_job`; `sqlite_store.py:916`): a crash between ending a
   stale job as failed and queueing its retry loses the retry; two processes may take
   one job; restart retries are bounded. Abstract specification: `JobLifecycle`.
2. **Scheduler tick** over several plans: a store error in one ends the tick for all.
3. **Market data adapter**: reconnects and the age of what it serves.
4. **Lockbox calendar** (`backtest_data/lockbox.py`): months as functions checked
   against a calendar definition; `BacktestData` takes the window as given.

Every safety property, action property and refinement of a passing run has its
theorem (section 4). What is left to prove, in order: that `WorkerJobStore`, with the
settings of `WorkerJobStoreCalls_proofs`, implements the one-step store that `CycleRunner`
works with; theorems for the parts listed above as they are modelled.
