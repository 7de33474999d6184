------------------------ MODULE WorkerJobStore_proofs ------------------------
(***************************************************************************)
(* Proofs about the job store, for any jobs, any number of workers and     *)
(* operators, overlapping calls or not, and any bounds.                    *)
(***************************************************************************)
EXTENDS WorkerJobStore, TLAPS

-----------------------------------------------------------------------------
(* The strengthened invariants.                                            *)

WorkerOps == {"start", "heartbeat", "gap", "succeed", "fail"}

\* A call in progress has read a row its method accepts.
WellFormedTxn(t) ==
    /\ t \in Txn
    /\ t.op # "none" =>
          /\ t.job \in Jobs
          /\ t.cur.status \in AllowedFrom(t.op)
    /\ t.op = "none" => t = NoTxn

\* A worker is inside the calls of run_one_job, on the job of its run.
WellFormedRun(w) ==
    /\ run[w].phase = "idle" => run[w] = Resting
    /\ run[w].phase # "idle" => run[w].job \in Jobs
    /\ txn[w].op # "none" =>
          /\ txn[w].op \in WorkerOps
          /\ run[w].phase # "idle"

IInv ==
    /\ TypeOK
    /\ \A c \in Clients : WellFormedTxn(txn[c])
    /\ \A w \in Workers : WellFormedRun(w)

\* A record that loads, and that has a claim left while it is queued.
Sound(r) ==
    /\ Loadable(r)
    /\ r.status = "queued" => r.attempts < MaxAttempts

\* Not only the rows are sound, but every copy of a row that some process has
\* read and may still write back.
SoundInv ==
    /\ \A j \in Jobs : Sound(jobs[j])
    /\ \A c \in Clients : txn[c].op # "none" => Sound(txn[c].cur) /\ txn[c].op # "retry"

-----------------------------------------------------------------------------
(* What the methods write.                                                 *)

\* The row every method writes has the type of a record, and never the status
\* of a missing one.
LEMMA WrittenType ==
    ASSUME NEW t \in Txn, NEW c \in Clients, t.op # "none",
           t.cur.status \in AllowedFrom(t.op)
    PROVE  Written(t, c) \in Record /\ Written(t, c).status \in Statuses
<1>. USE AttemptsAssumption DEF Record, Statuses, Clients
<1>1. t.cur \in Record /\ t.flag \in BOOLEAN /\ t.op \in Ops
  BY DEF Txn
<1>2. CASE t.op = "enqueue"
  BY <1>1, <1>2 DEF Written, Enqueued, NoRow
<1>3. CASE t.op = "update"
  BY <1>1, <1>3 DEF Written, Respecified, AllowedFrom, UpdateFrom
<1>4. CASE t.op = "start"
  BY <1>1, <1>4 DEF Written, Started
<1>5. CASE t.op = "heartbeat"
  BY <1>1, <1>5 DEF Written, Beaten, AllowedFrom, Live
<1>6. CASE t.op = "gap"
  BY <1>1, <1>6 DEF Written, Gapped, AllowedFrom
<1>7. CASE t.op = "succeed"
  BY <1>1, <1>7 DEF Written, Succeeded
<1>8. CASE t.op = "fail"
  BY <1>1, <1>8 DEF Written, Failed, Requeued
<1>9. CASE t.op = "retry"
  BY <1>1, <1>9 DEF Written, Retried, Requeued
<1>10. CASE t.op = "cancel"
  BY <1>1, <1>10 DEF Written, Cancelled
<1>11. CASE t.op = "stale"
  BY <1>1, <1>11 DEF Written, Staled
<1>. QED
  BY <1>1, <1>2, <1>3, <1>4, <1>5, <1>6, <1>7, <1>8, <1>9, <1>10, <1>11 DEF Ops

LEMMA ClaimedType ==
    ASSUME NEW r \in Record, NEW c \in Clients
    PROVE  Claimed(r, c) \in Record
<1>1. r.attempts + 1 \in Nat
  BY DEF Record
<1>. QED
  BY <1>1 DEF Claimed, Record, Statuses

\* From a sound record every method but retry_job writes a sound one.
LEMMA WrittenSound ==
    ASSUME NEW t \in Txn, NEW c \in Clients, t.op # "none", t.op # "retry",
           t.cur.status \in AllowedFrom(t.op), Sound(t.cur)
    PROVE  Sound(Written(t, c))
<1>. USE AttemptsAssumption, ClientsAssumption
     DEF Record, Statuses, TERMINAL_STATUSES, Live, Sound, Loadable
<1>1. t.cur \in Record /\ t.flag \in BOOLEAN /\ t.op \in Ops
  BY DEF Txn
<1>2. CASE t.op = "enqueue"
  BY <1>1, <1>2 DEF Written, Enqueued, NoRow
<1>3. CASE t.op = "update"
  BY <1>1, <1>3 DEF Written, Respecified, AllowedFrom
<1>4. CASE t.op = "start"
  BY <1>1, <1>4 DEF Written, Started, AllowedFrom
<1>5. CASE t.op = "heartbeat"
  BY <1>1, <1>5 DEF Written, Beaten, AllowedFrom
<1>6. CASE t.op = "gap"
  BY <1>1, <1>6 DEF Written, Gapped, AllowedFrom
<1>7. CASE t.op = "succeed"
  BY <1>1, <1>7 DEF Written, Succeeded, AllowedFrom
<1>8. CASE t.op = "fail"
  BY <1>1, <1>8 DEF Written, Failed, Requeued, AllowedFrom, FailFrom
<1>10. CASE t.op = "cancel"
  BY <1>1, <1>10 DEF Written, Cancelled, AllowedFrom
<1>11. CASE t.op = "stale"
  BY <1>1, <1>11 DEF Written, Staled, AllowedFrom, StaleFrom
<1>. QED
  BY <1>1, <1>2, <1>3, <1>4, <1>5, <1>6, <1>7, <1>8, <1>10, <1>11 DEF Ops

-----------------------------------------------------------------------------
(* Type correctness.                                                       *)

TablesOK ==
    /\ jobs \in [Jobs -> Record]
    /\ lastTo \in [Jobs -> Statuses \cup {"absent"}]
    /\ claims \in [Jobs -> Nat]
    /\ gapRows \in SUBSET Jobs

\* The read of a call leaves the tables alone and fills the caller's txn.
LEMMA ReadStep ==
    ASSUME IInv, NEW c \in Clients, NEW op \in Ops, NEW j \in Jobs, NEW flag \in BOOLEAN,
           Read(c, op, j, flag)
    PROVE  /\ TablesOK'
           /\ txn' \in [Clients -> Txn]
           /\ \A d \in Clients : WellFormedTxn(txn'[d])
           /\ txn'[c].op = op
           /\ \A d \in Clients \ {c} : txn'[d] = txn[d]
<1> DEFINE t == [op |-> op, job |-> j, cur |-> jobs[j], flag |-> flag]
<1>1. t \in Txn /\ t.cur.status \in AllowedFrom(op) /\ op # "none"
  BY DEF IInv, TypeOK, Txn, Read, Accepts, Ops
<1>2. txn' = [txn EXCEPT ![c] = t]
  BY DEF Read
<1>3. txn' \in [Clients -> Txn] /\ txn'[c] = t /\ \A d \in Clients \ {c} : txn'[d] = txn[d]
  BY <1>1, <1>2 DEF IInv, TypeOK
<1>4. WellFormedTxn(t)
  BY <1>1 DEF WellFormedTxn
<1>5. TablesOK'
  BY DEF Read, tables, TablesOK, IInv, TypeOK
<1>. QED
  BY <1>3, <1>4, <1>5 DEF IInv

\* The commit of a call replaces one row by one of the same type.
LEMMA WriteStep ==
    ASSUME IInv, NEW c \in Clients, Write(c)
    PROVE  /\ TablesOK'
           /\ txn' \in [Clients -> Txn]
           /\ \A d \in Clients : WellFormedTxn(txn'[d])
           /\ txn'[c] = NoTxn
           /\ \A d \in Clients \ {c} : txn'[d] = txn[d]
<1> DEFINE t == txn[c]
           new == Written(t, c)
<1>1. t \in Txn /\ t.op # "none" /\ t.job \in Jobs /\ t.cur.status \in AllowedFrom(t.op)
  BY DEF IInv, WellFormedTxn, Write
<1>2. new \in Record /\ new.status \in Statuses
  BY <1>1, WrittenType
<1>3. jobs' \in [Jobs -> Record]
  <2>1. jobs' = [jobs EXCEPT ![t.job] = new]
    BY DEF Write
  <2>. QED  BY <1>2, <2>1 DEF IInv, TypeOK
<1>4. lastTo' \in [Jobs -> Statuses \cup {"absent"}]
  <2>1. lastTo' = lastTo \/ lastTo' = [lastTo EXCEPT ![t.job] = new.status]
    BY DEF Write
  <2>. QED  BY <1>2, <2>1 DEF IInv, TypeOK
<1>5. gapRows' \in SUBSET Jobs
  <2>1. gapRows' = gapRows \/ gapRows' = gapRows \cup {t.job}
    BY DEF Write
  <2>. QED  BY <1>1, <2>1 DEF IInv, TypeOK
<1>6. claims' \in [Jobs -> Nat]
  BY DEF Write, IInv, TypeOK
<1>7. NoTxn \in Txn /\ WellFormedTxn(NoTxn)
  BY DEF NoTxn, Txn, WellFormedTxn, Record, NoRow
<1>8. txn' = [txn EXCEPT ![c] = NoTxn]
  BY DEF Write
<1>. QED
  BY <1>3, <1>4, <1>5, <1>6, <1>7, <1>8 DEF TablesOK, IInv, TypeOK

LEMMA InitInv == Init => IInv
<1>. SUFFICES ASSUME Init PROVE IInv
  OBVIOUS
<1>. USE DEF Init
<1>1. NoRow \in Record /\ NoTxn \in Txn /\ Resting \in Run
  BY DEF NoRow, Record, NoTxn, Txn, Resting, Run, Phases
<1>2. TypeOK
  BY <1>1 DEF TypeOK
<1>3. \A c \in Clients : WellFormedTxn(txn[c])
  BY <1>1 DEF WellFormedTxn, NoTxn
<1>4. \A w \in Workers : WellFormedRun(w)
  BY DEF WellFormedRun, Resting, NoTxn, Clients
<1>. QED
  BY <1>2, <1>3, <1>4 DEF IInv

\* A worker whose run and whose call both changed is well formed again if its
\* new run is idle with no call, or busy on a job with a call of run_one_job.
LEMMA WorkersKept ==
    ASSUME IInv, NEW w \in Workers, NEW r \in Run,
           run' = [run EXCEPT ![w] = r],
           \A d \in Clients \ {w} : txn'[d] = txn[d],
           r.phase = "idle" => r = Resting /\ txn'[w].op = "none",
           r.phase # "idle" => r.job \in Jobs,
           txn'[w].op # "none" => txn'[w].op \in WorkerOps
    PROVE  run' \in [Workers -> Run] /\ \A v \in Workers : WellFormedRun(v)'
<1>1. run' \in [Workers -> Run]
  BY DEF IInv, TypeOK
<1>2. WellFormedRun(w)'
  BY DEF IInv, TypeOK, WellFormedRun
<1>3. ASSUME NEW v \in Workers \ {w} PROVE WellFormedRun(v)'
  <2>1. run'[v] = run[v] /\ txn'[v] = txn[v]
    BY DEF IInv, TypeOK, Clients
  <2>. QED  BY <2>1 DEF IInv, WellFormedRun
<1>. QED
  BY <1>1, <1>2, <1>3

\* Steps that leave every worker's run alone, and every worker's call, too.
LEMMA WorkersUntouched ==
    ASSUME IInv, run' = run, \A w \in Workers : txn'[w] = txn[w]
    PROVE  run' \in [Workers -> Run] /\ \A v \in Workers : WellFormedRun(v)'
BY DEF IInv, TypeOK, WellFormedRun

LEMMA CallInv ==
    ASSUME IInv, NEW w \in Workers, NEW phase \in Phases \ {"idle"}, NEW op \in WorkerOps,
           NEW flag \in BOOLEAN, Call(w, phase, op, flag)
    PROVE  IInv'
<1>1. run[w].job \in Jobs /\ run[w].phase # "idle" /\ run[w] \in Run
  BY DEF Call, IInv, WellFormedRun, TypeOK
<1>2. w \in Clients /\ op \in Ops
  BY DEF Clients, WorkerOps, Ops
<1>3. Read(w, op, run[w].job, flag) /\ UNCHANGED <<run, sweep, commands, crashes>>
  BY DEF Call
<1>4. /\ TablesOK'
      /\ txn' \in [Clients -> Txn]
      /\ \A d \in Clients : WellFormedTxn(txn'[d])
      /\ txn'[w].op = op
      /\ \A d \in Clients \ {w} : txn'[d] = txn[d]
  BY <1>1, <1>2, <1>3, ReadStep
<1>5. run' = [run EXCEPT ![w] = run[w]]
  BY <1>3 DEF IInv, TypeOK
<1>6. run' \in [Workers -> Run] /\ \A v \in Workers : WellFormedRun(v)'
  BY <1>1, <1>4, <1>5, WorkersKept
<1>. QED
  BY <1>3, <1>4, <1>6 DEF IInv, TypeOK, TablesOK

LEMMA CommandInv ==
    ASSUME IInv, NEW o \in Operators, NEW op \in Ops, NEW j \in Jobs, Command(o, op, j)
    PROVE  IInv'
<1>1. o \in Clients
  BY DEF Clients
<1>2. /\ TablesOK'
      /\ txn' \in [Clients -> Txn]
      /\ \A d \in Clients : WellFormedTxn(txn'[d])
      /\ \A d \in Clients \ {o} : txn'[d] = txn[d]
  BY <1>1, ReadStep DEF Command
<1>3. run' \in [Workers -> Run] /\ \A v \in Workers : WellFormedRun(v)'
  BY <1>2, WorkersUntouched, ClientsAssumption DEF Command, Clients
<1>. QED
  BY <1>2, <1>3 DEF Command, IInv, TypeOK, TablesOK

LEMMA CommitInv ==
    ASSUME IInv, NEW w \in Workers, Commit(w)
    PROVE  IInv'
<1>1. w \in Clients /\ Write(w)
  BY DEF Clients, Commit
<1>2. /\ TablesOK'
      /\ txn' \in [Clients -> Txn]
      /\ \A d \in Clients : WellFormedTxn(txn'[d])
      /\ txn'[w] = NoTxn
      /\ \A d \in Clients \ {w} : txn'[d] = txn[d]
  BY <1>1, WriteStep
<1>3. run[w].phase # "idle" /\ run[w].job \in Jobs
  BY <1>1 DEF Write, IInv, WellFormedTxn, WellFormedRun
<1>4. run[w] \in Run /\ txn[w].cur \in Record
  BY <1>1 DEF IInv, TypeOK, Txn
<1>5. PICK r \in Run : /\ run' = [run EXCEPT ![w] = r]
                       /\ r.phase = "idle" => r = Resting
                       /\ r.phase # "idle" => r.job \in Jobs
  <2>1. CASE /\ txn[w].op = "start"
             /\ run' = [run EXCEPT ![w].phase = "started",
                                   ![w].attempts = txn[w].cur.attempts,
                                   ![w].bound = txn[w].cur.bound]
    <3> DEFINE r == [run[w] EXCEPT !.phase = "started", !.attempts = txn[w].cur.attempts,
                                   !.bound = txn[w].cur.bound]
    <3>1. r \in Run /\ r.phase = "started" /\ r.job \in Jobs
      BY <1>3, <1>4 DEF Run, Phases, Record
    <3>2. run' = [run EXCEPT ![w] = r]
      BY <2>1
    <3>. QED  BY <3>1, <3>2
  <2>2. CASE txn[w].op = "heartbeat" /\ run' = [run EXCEPT ![w].phase = "working"]
    <3> DEFINE r == [run[w] EXCEPT !.phase = "working"]
    <3>1. r \in Run /\ r.phase = "working" /\ r.job \in Jobs
      BY <1>3, <1>4 DEF Run, Phases
    <3>2. run' = [run EXCEPT ![w] = r]
      BY <2>2
    <3>. QED  BY <3>1, <3>2
  <2>3. CASE txn[w].op = "gap" /\ run' = [run EXCEPT ![w].gap = TRUE]
    <3> DEFINE r == [run[w] EXCEPT !.gap = TRUE]
    <3>1. r \in Run /\ r.phase # "idle" /\ r.job \in Jobs
      BY <1>3, <1>4 DEF Run, Phases
    <3>2. run' = [run EXCEPT ![w] = r]
      BY <2>3
    <3>. QED  BY <3>1, <3>2
  <2>4. CASE run' = [run EXCEPT ![w] = Resting]
    <3>1. Resting \in Run /\ Resting.phase = "idle"
      BY DEF Resting, Run, Phases
    <3>. QED  BY <2>4, <3>1
  <2>. QED
    BY <2>1, <2>2, <2>3, <2>4 DEF Commit
<1>6. run' \in [Workers -> Run] /\ \A v \in Workers : WellFormedRun(v)'
  <2>1. txn'[w].op = "none"
    BY <1>2 DEF NoTxn
  <2>. QED  BY <1>2, <1>5, <2>1, WorkersKept
<1>. QED
  BY <1>2, <1>6 DEF Commit, IInv, TypeOK, TablesOK

\* Steps of run_one_job between calls: the tables and every call stay.
LEMMA RunStepInv ==
    ASSUME IInv, NEW w \in Workers, NEW r \in Run,
           txn[w] = NoTxn,
           run' = [run EXCEPT ![w] = r],
           r.phase = "idle" => r = Resting,
           r.phase # "idle" => r.job \in Jobs,
           UNCHANGED <<tables, txn, sweep, commands, crashes>>
    PROVE  IInv'
<1>1. TablesOK' /\ txn' = txn /\ UNCHANGED <<sweep, commands, crashes>>
  BY DEF IInv, TypeOK, TablesOK, tables
<1>2. txn'[w].op = "none"
  BY <1>1 DEF NoTxn
<1>3. run' \in [Workers -> Run] /\ \A v \in Workers : WellFormedRun(v)'
  BY <1>1, <1>2, WorkersKept
<1>. QED
  BY <1>1, <1>3 DEF IInv, TypeOK, TablesOK

LEMMA ClaimInv ==
    ASSUME IInv, NEW w \in Workers, ClaimNext(w)
    PROVE  IInv'
<1>1. PICK j \in Jobs :
          /\ jobs' = [jobs EXCEPT ![j] = Claimed(@, w)]
          /\ lastTo' = [lastTo EXCEPT ![j] = "claimed"]
          /\ claims' = [claims EXCEPT ![j] = @ + 1]
          /\ run' = [run EXCEPT ![w] = [Resting EXCEPT !.phase = "claimed", !.job = j]]
  BY DEF ClaimNext, Queued
<1> DEFINE r == [Resting EXCEPT !.phase = "claimed", !.job = j]
<1>2. w \in Clients
  BY DEF Clients
<1>3. Claimed(jobs[j], w) \in Record
  BY <1>2, ClaimedType DEF IInv, TypeOK
<1>4. TablesOK'
  BY <1>1, <1>2, <1>3 DEF ClaimNext, IInv, TypeOK, TablesOK, Statuses
<1>5. r \in Run /\ r.phase = "claimed" /\ r.job = j
  BY <1>2 DEF Resting, Run, Phases
<1>6. txn' = txn /\ txn[w].op = "none"
  BY DEF ClaimNext, IInv, WellFormedRun, Resting, Ops
<1>7. run' \in [Workers -> Run] /\ \A v \in Workers : WellFormedRun(v)'
  <2>. HIDE DEF r
  <2>. QED  BY <1>1, <1>2, <1>5, <1>6, WorkersKept DEF r
<1>. QED
  BY <1>4, <1>6, <1>7 DEF ClaimNext, IInv, TypeOK, TablesOK

LEMMA WorkerStepInv ==
    ASSUME IInv, NEW w \in Workers, WorkerStep(w)
    PROVE  IInv'
<1>0. run[w] \in Run /\ Resting \in Run
  BY DEF IInv, TypeOK, Resting, Run, Phases
<1>1. CASE ClaimNext(w)
  BY <1>1, ClaimInv
<1>2. CASE StartJob(w)
  BY <1>2, CallInv DEF StartJob, Phases, WorkerOps
<1>3. CASE Heartbeat(w)
  BY <1>3, CallInv DEF Heartbeat, Phases, WorkerOps
<1>4. CASE RecordGap(w)
  BY <1>4, CallInv DEF RecordGap, Phases, WorkerOps
<1>5. CASE SucceedLoad(w)
  <2> DEFINE r == [run[w] EXCEPT !.phase = "closing", !.gap = @ \/ jobs[run[w].job].gap]
  <2>1. run[w].job \in Jobs
    BY <1>5 DEF SucceedLoad, IInv, WellFormedRun
  <2>2. jobs[run[w].job].gap \in BOOLEAN /\ run[w].gap \in BOOLEAN
    BY <1>0, <2>1 DEF IInv, TypeOK, Record, Run
  <2>3. r \in Run /\ r.phase = "closing" /\ r.job \in Jobs
    BY <1>0, <2>1, <2>2 DEF Run, Phases
  <2>4. run' = [run EXCEPT ![w] = r]
    BY <1>5 DEF SucceedLoad
  <2>. HIDE DEF r
  <2>. QED  BY <1>5, <2>3, <2>4, RunStepInv DEF SucceedLoad
<1>6. CASE SucceedJob(w)
  <2>1. run[w].gap \in BOOLEAN
    BY <1>0 DEF Run
  <2>. QED  BY <1>6, <2>1, CallInv DEF SucceedJob, Phases, WorkerOps
<1>7. CASE HandlerRaises(w)
  <2> DEFINE r == [run[w] EXCEPT !.phase = "failing"]
  <2>1. r \in Run /\ r.phase = "failing" /\ r.job \in Jobs
    BY <1>0, <1>7 DEF HandlerRaises, IInv, WellFormedRun, Run, Phases
  <2>2. run' = [run EXCEPT ![w] = r]
    BY <1>7 DEF HandlerRaises
  <2>. HIDE DEF r
  <2>. QED  BY <1>7, <2>1, <2>2, RunStepInv DEF HandlerRaises
<1>8. CASE FailJob(w)
  <2> DEFINE retryable == run[w].attempts < MaxAttempts
  <2>1. retryable \in BOOLEAN
    OBVIOUS
  <2>2. Call(w, "failing", "fail", retryable)
    BY <1>8 DEF FailJob
  <2>. HIDE DEF retryable
  <2>. QED  BY <2>1, <2>2, CallInv DEF Phases, WorkerOps
<1>9. CASE Refused(w)
  <2> DEFINE r == IF run[w].phase \in {"working", "closing"}
                  THEN [run[w] EXCEPT !.phase = "failing"] ELSE Resting
  <2>1. r \in Run /\ (r.phase = "idle" => r = Resting) /\ (r.phase # "idle" => r.job \in Jobs)
    BY <1>0 DEF IInv, WellFormedRun, Run, Phases, Resting
  <2>2. run' = [run EXCEPT ![w] = r]
    BY <1>9 DEF Refused
  <2>. HIDE DEF r
  <2>. QED  BY <1>9, <2>1, <2>2, RunStepInv DEF Refused
<1>10. CASE Commit(w)
  BY <1>10, CommitInv
<1>. QED
  BY <1>1, <1>2, <1>3, <1>4, <1>5, <1>6, <1>7, <1>8, <1>9, <1>10 DEF WorkerStep

LEMMA OperatorStepInv ==
    ASSUME IInv, NEW o \in Operators, OperatorStep(o)
    PROVE  IInv'
<1>0. o \in Clients
  BY DEF Clients
<1>1. CASE Enqueue(o)
  BY <1>1, CommandInv DEF Enqueue, Ops
<1>2. CASE UpdateQueuedInputSpec(o)
  BY <1>2, CommandInv DEF UpdateQueuedInputSpec, Ops
<1>3. CASE CancelJob(o)
  BY <1>3, CommandInv DEF CancelJob, Ops
<1>4. CASE RetryJob(o)
  BY <1>4, CommandInv DEF RetryJob, Ops
<1>5. CASE OperatorHeartbeat(o)
  BY <1>5, CommandInv DEF OperatorHeartbeat, Ops
<1>6. CASE CommitCommand(o)
  <2>1. /\ TablesOK'
        /\ txn' \in [Clients -> Txn]
        /\ \A d \in Clients : WellFormedTxn(txn'[d])
        /\ \A d \in Clients \ {o} : txn'[d] = txn[d]
    BY <1>0, <1>6, WriteStep DEF CommitCommand
  <2>2. run' \in [Workers -> Run] /\ \A v \in Workers : WellFormedRun(v)'
    BY <1>6, <2>1, WorkersUntouched, ClientsAssumption DEF CommitCommand, Clients
  <2>. QED
    BY <1>6, <2>1, <2>2 DEF CommitCommand, IInv, TypeOK, TablesOK
<1>7. CASE MarkStaleJobs(o)
  <2>1. TablesOK' /\ txn' = txn /\ run' = run /\ crashes' = crashes
    BY <1>7 DEF MarkStaleJobs, IInv, TypeOK, TablesOK, tables
  <2>2. sweep' \in [Operators -> SUBSET Seen]
    <3> DEFINE old == {j \in Jobs : jobs[j].status \in Live /\ ~jobs[j].fresh}
               listing == {[job |-> j, status |-> jobs[j].status] : j \in old}
    <3>1. listing \in SUBSET Seen
      BY DEF Seen
    <3>2. sweep' = [sweep EXCEPT ![o] = listing]
      BY <1>7 DEF MarkStaleJobs
    <3>. HIDE DEF listing
    <3>. QED  BY <3>1, <3>2 DEF IInv, TypeOK
  <2>3. \A v \in Workers : WellFormedRun(v)'
    BY <2>1, WorkersUntouched
  <2>. QED
    BY <1>7, <2>1, <2>2, <2>3 DEF MarkStaleJobs, IInv, TypeOK, TablesOK
<1>8. CASE MarkStaleNext(o)
  <2>1. PICK s \in sweep[o] :
          \/ /\ Read(o, "stale", s.job, FALSE)
             /\ sweep' = [sweep EXCEPT ![o] = @ \ {s}]
          \/ /\ sweep' = [sweep EXCEPT ![o] = {}]
             /\ UNCHANGED <<tables, txn>>
    BY <1>8 DEF MarkStaleNext
  <2>2. s \in Seen /\ s.job \in Jobs
    BY DEF IInv, TypeOK, Seen
  <2>3. sweep' \in [Operators -> SUBSET Seen]
    BY <2>1 DEF IInv, TypeOK
  <2>4. /\ TablesOK'
        /\ txn' \in [Clients -> Txn]
        /\ \A d \in Clients : WellFormedTxn(txn'[d])
        /\ \A d \in Clients \ {o} : txn'[d] = txn[d]
    <3>1. CASE Read(o, "stale", s.job, FALSE)
      BY <1>0, <2>2, <3>1, ReadStep DEF Ops
    <3>2. CASE UNCHANGED <<tables, txn>>
      BY <3>2 DEF IInv, TypeOK, TablesOK, tables
    <3>. QED  BY <2>1, <3>1, <3>2
  <2>5. run' \in [Workers -> Run] /\ \A v \in Workers : WellFormedRun(v)'
    BY <1>8, <2>4, WorkersUntouched, ClientsAssumption DEF MarkStaleNext, Clients
  <2>. QED
    BY <1>8, <2>3, <2>4, <2>5 DEF MarkStaleNext, IInv, TypeOK, TablesOK
<1>. QED
  BY <1>1, <1>2, <1>3, <1>4, <1>5, <1>6, <1>7, <1>8 DEF OperatorStep

LEMMA NextInv == IInv /\ [Next]_vars => IInv'
<1>. SUFFICES ASSUME IInv, [Next]_vars PROVE IInv'
  OBVIOUS
<1>0. NoTxn \in Txn /\ WellFormedTxn(NoTxn) /\ Resting \in Run
  BY DEF NoTxn, Txn, WellFormedTxn, Record, NoRow, Resting, Run, Phases
<1>1. ASSUME NEW w \in Workers, WorkerStep(w) PROVE IInv'
  BY <1>1, WorkerStepInv
<1>2. ASSUME NEW o \in Operators, OperatorStep(o) PROVE IInv'
  BY <1>2, OperatorStepInv
<1>3. ASSUME NEW w \in Workers, Crash(w) PROVE IInv'
  <2>1. TablesOK' /\ UNCHANGED <<sweep, commands>> /\ crashes' \in Nat
    BY <1>3 DEF Crash, IInv, TypeOK, TablesOK, tables
  <2>2. /\ txn' = [txn EXCEPT ![w] = NoTxn]
        /\ run' = [run EXCEPT ![w] = Resting]
        /\ w \in Clients
    BY <1>3 DEF Crash, Clients
  <2>3. /\ txn' \in [Clients -> Txn]
        /\ \A d \in Clients : WellFormedTxn(txn'[d])
        /\ txn'[w].op = "none"
        /\ \A d \in Clients \ {w} : txn'[d] = txn[d]
    BY <1>0, <2>2 DEF IInv, TypeOK, NoTxn
  <2>4. run' \in [Workers -> Run] /\ \A v \in Workers : WellFormedRun(v)'
    BY <1>0, <2>2, <2>3, WorkersKept DEF Resting
  <2>. QED
    BY <2>1, <2>3, <2>4 DEF IInv, TypeOK, TablesOK
<1>4. ASSUME NEW o \in Operators, CommandCrash(o) PROVE IInv'
  <2>1. TablesOK' /\ UNCHANGED <<run, commands>> /\ crashes' \in Nat
    BY <1>4 DEF CommandCrash, IInv, TypeOK, TablesOK, tables
  <2>2. /\ txn' = [txn EXCEPT ![o] = NoTxn]
        /\ sweep' = [sweep EXCEPT ![o] = {}]
        /\ o \in Clients
    BY <1>4 DEF CommandCrash, Clients
  <2>3. /\ txn' \in [Clients -> Txn]
        /\ \A d \in Clients : WellFormedTxn(txn'[d])
        /\ \A d \in Clients \ {o} : txn'[d] = txn[d]
        /\ sweep' \in [Operators -> SUBSET Seen]
    BY <1>0, <2>2 DEF IInv, TypeOK
  <2>4. run' \in [Workers -> Run] /\ \A v \in Workers : WellFormedRun(v)'
    BY <2>1, <2>3, WorkersUntouched, ClientsAssumption DEF Clients
  <2>. QED
    BY <2>1, <2>3, <2>4 DEF IInv, TypeOK, TablesOK
<1>5. ASSUME NEW j \in Jobs, HeartbeatAges(j) PROVE IInv'
  <2>1. jobs' \in [Jobs -> Record]
    <3>1. [jobs[j] EXCEPT !.fresh = FALSE] \in Record
      BY DEF IInv, TypeOK, Record
    <3>2. jobs' = [jobs EXCEPT ![j] = [jobs[j] EXCEPT !.fresh = FALSE]]
      BY <1>5 DEF HeartbeatAges
    <3>. QED  BY <3>1, <3>2 DEF IInv, TypeOK
  <2>. QED
    BY <1>5, <2>1 DEF HeartbeatAges, IInv, TypeOK, WellFormedRun
<1>6. CASE UNCHANGED vars
  BY <1>6 DEF vars, IInv, TypeOK, WellFormedRun
<1>. QED
  BY <1>1, <1>2, <1>3, <1>4, <1>5, <1>6 DEF Next

\* Every reachable state is well typed, and every process is where run_one_job
\* and the store's methods can put it.
THEOREM Invariance == Spec => []IInv
<1>. QED
  BY InitInv, NextInv, PTL DEF Spec

\* The tables and the processes always have the types the code gives them,
\* with any number of workers and operators and any overlap of their calls.
THEOREM TypeCorrect == Spec => []TypeOK
<1>1. IInv => TypeOK
  BY DEF IInv
<1>. QED
  BY <1>1, Invariance, PTL

-----------------------------------------------------------------------------
(* Rows load.  A commit writes back a row computed from a copy that other   *)
(* processes may have made stale in the meantime, so soundness has to hold *)
(* of every copy in flight, not only of the rows.                          *)

LEMMA ReadSound ==
    ASSUME IInv, SoundInv, NEW c \in Clients, NEW op \in Ops \ {"retry"}, NEW j \in Jobs,
           NEW flag \in BOOLEAN, Read(c, op, j, flag)
    PROVE  SoundInv'
<1> DEFINE t == [op |-> op, job |-> j, cur |-> jobs[j], flag |-> flag]
<1>1. jobs' = jobs /\ txn' = [txn EXCEPT ![c] = t]
  BY DEF Read, tables
<1>2. Sound(t.cur) /\ t.op # "retry"
  BY DEF SoundInv
<1>3. ASSUME NEW d \in Clients, txn'[d].op # "none"
      PROVE  Sound(txn'[d].cur) /\ txn'[d].op # "retry"
  <2>. HIDE DEF t
  <2>. QED  BY <1>1, <1>2, <1>3 DEF SoundInv, IInv, TypeOK
<1>. QED
  BY <1>1, <1>3 DEF SoundInv

LEMMA WriteSound ==
    ASSUME IInv, SoundInv, NEW c \in Clients, Write(c)
    PROVE  SoundInv'
<1> DEFINE new == Written(txn[c], c)
<1>1. /\ txn[c] \in Txn /\ txn[c].op # "none" /\ txn[c].op # "retry"
      /\ txn[c].cur.status \in AllowedFrom(txn[c].op)
      /\ Sound(txn[c].cur)
  BY DEF IInv, WellFormedTxn, Write, SoundInv
<1>2. Sound(new)
  BY <1>1, WrittenSound
<1>3. /\ jobs' = [jobs EXCEPT ![txn[c].job] = new]
      /\ txn' = [txn EXCEPT ![c] = NoTxn]
  BY DEF Write
<1>4. \A j \in Jobs : Sound(jobs'[j])
  <2>. HIDE DEF new
  <2>. QED  BY <1>2, <1>3 DEF SoundInv, IInv, TypeOK
<1>5. \A d \in Clients : txn'[d].op # "none" => txn'[d] = txn[d]
  BY <1>3 DEF IInv, TypeOK, NoTxn
<1>. QED
  BY <1>4, <1>5 DEF SoundInv

LEMMA ClaimSound ==
    ASSUME IInv, SoundInv, NEW w \in Workers, ClaimNext(w)
    PROVE  SoundInv'
<1>1. PICK j \in Jobs : /\ jobs[j].status = "queued"
                        /\ jobs' = [jobs EXCEPT ![j] = Claimed(@, w)]
  BY DEF ClaimNext, Queued
<1>2. jobs[j] \in Record /\ Sound(jobs[j]) /\ w # None
  BY ClientsAssumption DEF IInv, TypeOK, SoundInv, Clients
<1>3. jobs[j].attempts + 1 =< MaxAttempts
  BY <1>1, <1>2, AttemptsAssumption DEF Sound, Record
<1>4. Sound(Claimed(jobs[j], w))
  BY <1>2, <1>3 DEF Sound, Loadable, Claimed, Record, TERMINAL_STATUSES, Live
<1>5. txn' = txn
  BY DEF ClaimNext
<1>. QED
  BY <1>1, <1>4, <1>5 DEF SoundInv, IInv, TypeOK

\* Calls, commits, claims and the passing of time are all that touches a row
\* or a copy of one; any other step can only drop a copy.
LEMMA SoundNext ==
    ASSUME "retry" \notin Commands, IInv, SoundInv, [Next]_vars
    PROVE  SoundInv'
<1>1. ASSUME jobs' = jobs, \A c \in Clients : txn'[c] \in {txn[c], NoTxn}
      PROVE  SoundInv'
  BY <1>1 DEF SoundInv, NoTxn
<1>2. ASSUME NEW w \in Workers, WorkerStep(w) PROVE SoundInv'
  <2>0. w \in Clients /\ (run[w].phase # "idle" => run[w].job \in Jobs) /\ run[w] \in Run
    BY DEF Clients, IInv, WellFormedRun, TypeOK
  <2>1. CASE ClaimNext(w)
    BY <2>1, ClaimSound
  <2>2. CASE StartJob(w)
    BY <2>0, <2>2, ReadSound DEF StartJob, Call, Ops
  <2>3. CASE Heartbeat(w)
    BY <2>0, <2>3, ReadSound DEF Heartbeat, Call, Ops
  <2>4. CASE RecordGap(w)
    BY <2>0, <2>4, ReadSound DEF RecordGap, Call, Ops
  <2>5. CASE SucceedJob(w)
    BY <2>0, <2>5, ReadSound DEF SucceedJob, Call, Ops, Run
  <2>6. CASE FailJob(w)
    <3> DEFINE retryable == run[w].attempts < MaxAttempts
    <3>1. retryable \in BOOLEAN /\ Read(w, "fail", run[w].job, retryable)
          /\ run[w].phase = "failing"
      BY <2>6 DEF FailJob, Call
    <3>. HIDE DEF retryable
    <3>. QED  BY <2>0, <3>1, ReadSound DEF Ops
  <2>7. CASE Commit(w)
    BY <2>0, <2>7, WriteSound DEF Commit
  <2>8. CASE SucceedLoad(w) \/ HandlerRaises(w) \/ Refused(w)
    BY <1>1, <2>8 DEF SucceedLoad, HandlerRaises, Refused, tables
  <2>. QED
    BY <1>2, <2>1, <2>2, <2>3, <2>4, <2>5, <2>6, <2>7, <2>8 DEF WorkerStep
<1>3. ASSUME NEW o \in Operators, OperatorStep(o) PROVE SoundInv'
  <2>0. o \in Clients
    BY DEF Clients
  <2>1. ASSUME NEW op \in Ops, NEW j \in Jobs, Command(o, op, j) PROVE SoundInv'
    <3>1. op # "retry" /\ Read(o, op, j, FALSE)
      BY <2>1 DEF Command
    <3>. QED  BY <2>0, <3>1, ReadSound
  <2>2. CASE Enqueue(o) \/ UpdateQueuedInputSpec(o) \/ CancelJob(o) \/ RetryJob(o)
             \/ OperatorHeartbeat(o)
    BY <2>1, <2>2
       DEF Enqueue, UpdateQueuedInputSpec, CancelJob, RetryJob, OperatorHeartbeat, Ops
  <2>3. CASE CommitCommand(o)
    BY <2>0, <2>3, WriteSound DEF CommitCommand
  <2>4. CASE MarkStaleJobs(o)
    BY <1>1, <2>4 DEF MarkStaleJobs, tables
  <2>5. CASE MarkStaleNext(o)
    <3>1. PICK s \in sweep[o] : Read(o, "stale", s.job, FALSE) \/ UNCHANGED <<tables, txn>>
      BY <2>5 DEF MarkStaleNext
    <3>2. s.job \in Jobs
      BY DEF IInv, TypeOK, Seen
    <3>3. CASE Read(o, "stale", s.job, FALSE)
      BY <2>0, <3>2, <3>3, ReadSound DEF Ops
    <3>4. CASE UNCHANGED <<tables, txn>>
      BY <1>1, <3>4 DEF tables
    <3>. QED  BY <3>1, <3>3, <3>4
  <2>. QED
    BY <1>3, <2>2, <2>3, <2>4, <2>5 DEF OperatorStep
<1>4. ASSUME NEW w \in Workers, Crash(w) PROVE SoundInv'
  BY <1>1, <1>4 DEF Crash, tables, Clients, IInv, TypeOK
<1>5. ASSUME NEW o \in Operators, CommandCrash(o) PROVE SoundInv'
  BY <1>1, <1>5 DEF CommandCrash, tables, Clients, IInv, TypeOK
<1>6. ASSUME NEW j \in Jobs, HeartbeatAges(j) PROVE SoundInv'
  <2>1. Sound([jobs[j] EXCEPT !.fresh = FALSE])
    BY DEF SoundInv, IInv, TypeOK, Record, Sound, Loadable
  <2>2. jobs' = [jobs EXCEPT ![j] = [jobs[j] EXCEPT !.fresh = FALSE]] /\ txn' = txn
    BY <1>6 DEF HeartbeatAges
  <2>. QED  BY <2>1, <2>2 DEF SoundInv, IInv, TypeOK
<1>7. CASE UNCHANGED vars
  BY <1>1, <1>7 DEF vars
<1>. QED
  BY <1>2, <1>3, <1>4, <1>5, <1>6, <1>7 DEF Next

\* As long as nobody retries a job by hand, no interleaving of workers,
\* cancellations, sweeps, heartbeats, bindings and crashes makes the store hold
\* a row that WorkerJobRecord refuses to load.
THEOREM RowsAlwaysLoad ==
    ASSUME "retry" \notin Commands
    PROVE  Spec => []RowsLoad
<1>1. Init => SoundInv
  BY AttemptsAssumption
     DEF Init, SoundInv, Sound, Loadable, NoRow, NoTxn, TERMINAL_STATUSES, Live
<1>2. IInv /\ SoundInv /\ [Next]_vars => SoundInv'
  BY SoundNext
<1>3. SoundInv => RowsLoad
  BY DEF SoundInv, Sound, RowsLoad
<1>. QED
  BY <1>1, <1>2, <1>3, Invariance, PTL DEF Spec
=============================================================================
