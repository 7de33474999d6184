---------------------- MODULE WorkerJobStoreCalls_proofs ----------------------
(***************************************************************************)
(* What the job store guarantees when no commit goes over another: the     *)
(* log, the counter of attempts, the gap evidence, the spec a worker runs  *)
(* and the life of a row, for any jobs, workers, bounds and crashes.       *)
(*                                                                         *)
(* A commit writes what was read.  Each proof here rests on one fact, that *)
(* the copy a call holds still is the row (Current).  There are two        *)
(* settings in which it is: calls that do not overlap, with every command  *)
(* in use; and calls that do, when there are workers and one operator who  *)
(* only enqueues, because then a row has one writer at a time.             *)
(***************************************************************************)
EXTENDS WorkerJobStore_proofs

EnqueueOnly == Commands \subseteq {"enqueue"}
OneOperator == \A o, p \in Operators : o = p
Undisturbed == ~Overlap \/ (EnqueueOnly /\ OneOperator)

Busy(c) == txn[c].op # "none"

\* A process that without Overlap keeps the others from starting a call.
Inside(c) ==
    \/ Busy(c)
    \/ c \in Operators /\ sweep[c] # {}
    \/ c \in Workers /\ run[c].phase = "closing"

Exclusive == Overlap \/ \A c, d \in Clients : Inside(c) /\ Inside(d) => c = d

\* Two versions of a row that differ by the age of its heartbeat at most.
Agree(r, s) ==
    /\ r.status = s.status /\ r.attempts = s.attempts /\ r.owner = s.owner
    /\ r.terminal = s.terminal /\ r.gap = s.gap /\ r.bound = s.bound

Current == \A c \in Clients : Busy(c) => Agree(txn[c].cur, jobs[txn[c].job])

\* A row that was never written is empty.
Blank == \A j \in Jobs : jobs[j].status = "absent" => Agree(jobs[j], NoRow)

\* What an operator has in hand is a command in use.
InUse ==
    \A o \in Operators : /\ Busy(o) => txn[o].op \in Commands
                         /\ sweep[o] # {} => "stale" \in Commands

\* The calls of a worker are on the job of its run.
OnItsJob ==
    \A w \in Workers :
        /\ Busy(w) => txn[w].job = run[w].job
        /\ txn[w].op = "heartbeat" => run[w].phase \in {"started", "working"}

\* The row of the job a worker is on is its own.
Holds(w) ==
    run[w].job # None => /\ jobs[run[w].job].status \in Live
                         /\ jobs[run[w].job].owner = w

Pooled == EnqueueOnly => \A w \in Workers : Holds(w)

CallsInv == Exclusive /\ Current /\ Blank /\ InUse /\ OnItsJob /\ Pooled

-----------------------------------------------------------------------------
GapInv ==
    /\ GapEvidenceKept
    /\ \A w \in Workers :
          run[w].phase = "closing" /\ jobs[run[w].job].gap => run[w].gap
    /\ \A c \in Clients : txn[c].op = "succeed" /\ txn[c].cur.gap => txn[c].flag

-----------------------------------------------------------------------------
(* The kinds of step there are, and who takes them.                        *)

\* Only process c moves.
Apart(c) ==
    \A d \in Clients \ {c} : /\ txn'[d] = txn[d]
                             /\ d \in Workers => run'[d] = run[d]
                             /\ d \in Operators => sweep'[d] = sweep[d]

Enters(c) == Inside(c)' => Inside(c) \/ Quiet(c)

Reads(c) == \E op \in Ops, j \in Jobs, flag \in BOOLEAN :
    /\ Read(c, op, j, flag)
    /\ run' = run
    /\ c \in Workers => /\ op \in WorkerOps
                        /\ j = run[c].job
                        /\ op = "succeed" => run[c].phase = "closing" /\ flag = run[c].gap
                        /\ op = "heartbeat" => run[c].phase \in {"started", "working"}
    /\ c \in Operators => op \in Commands

Writes(c) ==
    /\ Write(c)
    /\ c \in Workers => Commit(c)
    /\ c \in Operators => run' = run

Claims(c) == c \in Workers /\ ClaimNext(c)

\* The tables stay, a call may be dropped, and a run goes on or ends.
Rests(c) ==
    /\ UNCHANGED tables
    /\ txn'[c] \in {txn[c], NoTxn}
    /\ c \in Operators => run' = run
    /\ c \in Workers =>
          \/ run'[c] = run[c]
          \/ /\ txn'[c] = NoTxn
             /\ \/ run'[c] = Resting
                \/ run'[c] = [run[c] EXCEPT !.phase = "failing"]
                \/ run'[c] = [run[c] EXCEPT !.phase = "closing",
                                            !.gap = @ \/ jobs[run[c].job].gap]
                   /\ run[c].phase = "working"

Moves(c) == Apart(c) /\ Enters(c) /\ (Reads(c) \/ Writes(c) \/ Claims(c) \/ Rests(c))

LEMMA BusyIsTxn ==
    ASSUME IInv, NEW c \in Clients
    PROVE  Busy(c) <=> txn[c] # NoTxn
<1>1. NoTxn.op = "none"
  BY DEF NoTxn
<1>. QED
  BY <1>1 DEF Busy, IInv, WellFormedTxn

LEMMA WorkerIsNoOperator ==
    ASSUME NEW w \in Workers
    PROVE  w \in Clients /\ w \notin Operators
BY ClientsAssumption DEF Clients

LEMMA OperatorIsNoWorker ==
    ASSUME NEW o \in Operators
    PROVE  o \in Clients /\ o \notin Workers
BY ClientsAssumption DEF Clients

\* A call of run_one_job.
LEMMA CallMoves ==
    ASSUME IInv, NEW w \in Workers, NEW phase \in Phases \ {"idle"}, NEW op \in WorkerOps,
           NEW flag \in BOOLEAN, Call(w, phase, op, flag),
           op = "succeed" => phase = "closing" /\ flag = run[w].gap,
           op = "heartbeat" => phase \in {"started", "working"}
    PROVE  Moves(w)
<1>1. w \in Clients /\ w \notin Operators
  BY WorkerIsNoOperator
<1>2. run[w].phase = phase /\ run[w].job \in Jobs
  BY DEF Call, IInv, WellFormedRun
<1>3. Read(w, op, run[w].job, flag) /\ run' = run /\ sweep' = sweep
  BY DEF Call
<1>4. Reads(w)
  BY <1>1, <1>2, <1>3 DEF Reads, WorkerOps, Ops
<1>5. Apart(w)
  BY <1>3 DEF Apart, Read, IInv, TypeOK
<1>6. Enters(w)
  BY <1>3 DEF Enters, Read
<1>. QED
  BY <1>4, <1>5, <1>6 DEF Moves

LEMMA CommandMoves ==
    ASSUME IInv, NEW o \in Operators, NEW op \in Ops, NEW j \in Jobs, Command(o, op, j)
    PROVE  Moves(o)
<1>1. o \in Clients /\ o \notin Workers
  BY OperatorIsNoWorker
<1>2. Read(o, op, j, FALSE) /\ run' = run /\ sweep' = sweep /\ op \in Commands
  BY DEF Command
<1>3. Reads(o)
  BY <1>1, <1>2 DEF Reads
<1>4. Apart(o)
  BY <1>2 DEF Apart, Read, IInv, TypeOK
<1>5. Enters(o)
  BY <1>2 DEF Enters, Read
<1>. QED
  BY <1>3, <1>4, <1>5 DEF Moves

LEMMA CommitMoves ==
    ASSUME IInv, NEW c \in Clients, Write(c), sweep' = sweep,
           c \in Workers => Commit(c),
           c \in Operators => run' = run
    PROVE  Moves(c)
<1>1. Writes(c)
  BY DEF Writes
<1>2. txn' = [txn EXCEPT ![c] = NoTxn] /\ Busy(c)
  BY BusyIsTxn DEF Write
<1>3. ASSUME NEW d \in Workers \ {c} PROVE run'[d] = run[d]
  BY ClientsAssumption DEF Commit, IInv, TypeOK, Clients
<1>4. Apart(c)
  BY <1>2, <1>3 DEF Apart, IInv, TypeOK
<1>5. Enters(c)
  BY <1>2 DEF Enters, Inside
<1>. QED
  BY <1>1, <1>4, <1>5 DEF Moves

LEMMA ClaimMoves ==
    ASSUME IInv, NEW w \in Workers, ClaimNext(w)
    PROVE  Moves(w)
<1>1. w \in Clients /\ Claims(w)
  BY DEF Clients, Claims
<1>2. txn' = txn /\ sweep' = sweep /\ Quiet(w)
  BY DEF ClaimNext
<1>3. ASSUME NEW d \in Workers \ {w} PROVE run'[d] = run[d]
  BY DEF ClaimNext, IInv, TypeOK
<1>4. Apart(w) /\ Enters(w)
  BY <1>2, <1>3 DEF Apart, Enters
<1>. QED
  BY <1>1, <1>4 DEF Moves

\* Steps of run_one_job between calls, and the death of a worker.
LEMMA RunMoves ==
    ASSUME IInv, NEW w \in Workers, NEW r,
           run' = [run EXCEPT ![w] = r],
           \/ r = Resting
           \/ r = [run[w] EXCEPT !.phase = "failing"]
           \/ /\ r = [run[w] EXCEPT !.phase = "closing", !.gap = @ \/ jobs[run[w].job].gap]
              /\ run[w].phase = "working" /\ Quiet(w),
           txn' = [txn EXCEPT ![w] = NoTxn],
           UNCHANGED <<tables, sweep>>
    PROVE  Moves(w)
<1>1. w \in Clients /\ w \notin Operators
  BY WorkerIsNoOperator
<1>2. run'[w] = r /\ txn'[w] = NoTxn /\ run[w] \in Run
  BY <1>1 DEF IInv, TypeOK
<1>3. Rests(w)
  BY <1>1, <1>2 DEF Rests
<1>4. Apart(w)
  BY <1>1 DEF Apart, IInv, TypeOK
<1>5. Enters(w)
  <2>1. ~Busy(w)'
    BY <1>2 DEF Busy, NoTxn
  <2>2. r.phase = "closing" => Quiet(w)
    BY <1>2 DEF Resting, Run
  <2>. QED
    BY <1>1, <1>2, <2>1, <2>2 DEF Enters, Inside
<1>. QED
  BY <1>3, <1>4, <1>5 DEF Moves

LEMMA WorkerMoves ==
    ASSUME IInv, NEW w \in Workers, WorkerStep(w)
    PROVE  Moves(w)
<1>0. w \in Clients /\ run[w] \in Run
  BY DEF Clients, IInv, TypeOK
<1>1. CASE ClaimNext(w)
  BY <1>1, ClaimMoves
<1>2. CASE StartJob(w)
  BY <1>2, CallMoves DEF StartJob, Phases, WorkerOps
<1>3. CASE Heartbeat(w)
  BY <1>3, CallMoves DEF Heartbeat, Phases, WorkerOps
<1>4. CASE RecordGap(w)
  BY <1>4, CallMoves DEF RecordGap, Phases, WorkerOps
<1>5. CASE SucceedLoad(w)
  <2>1. txn' = [txn EXCEPT ![w] = NoTxn]
    BY <1>0, <1>5 DEF SucceedLoad, IInv, TypeOK
  <2>. QED
    BY <1>5, <2>1, RunMoves DEF SucceedLoad
<1>6. CASE SucceedJob(w)
  BY <1>0, <1>6, CallMoves DEF SucceedJob, Phases, WorkerOps, Run
<1>7. CASE HandlerRaises(w)
  <2>1. txn' = [txn EXCEPT ![w] = NoTxn]
    BY <1>0, <1>7 DEF HandlerRaises, IInv, TypeOK
  <2>. QED
    BY <1>7, <2>1, RunMoves DEF HandlerRaises
<1>8. CASE FailJob(w)
  <2> DEFINE retryable == run[w].attempts < MaxAttempts
  <2>1. retryable \in BOOLEAN /\ Call(w, "failing", "fail", retryable)
    BY <1>8 DEF FailJob
  <2>. HIDE DEF retryable
  <2>. QED  BY <2>1, CallMoves DEF Phases, WorkerOps
<1>9. CASE Refused(w)
  <2> DEFINE r == IF run[w].phase \in {"working", "closing"}
                  THEN [run[w] EXCEPT !.phase = "failing"] ELSE Resting
  <2>1. run' = [run EXCEPT ![w] = r] /\ UNCHANGED <<tables, sweep>>
    BY <1>9 DEF Refused
  <2>2. txn' = [txn EXCEPT ![w] = NoTxn]
    BY <1>0, <1>9 DEF Refused, IInv, TypeOK
  <2>3. r = Resting \/ r = [run[w] EXCEPT !.phase = "failing"]
    OBVIOUS
  <2>. HIDE DEF r
  <2>. QED  BY <2>1, <2>2, <2>3, RunMoves
<1>10. CASE Commit(w)
  BY <1>0, <1>10, CommitMoves, WorkerIsNoOperator DEF Commit
<1>. QED
  BY <1>1, <1>2, <1>3, <1>4, <1>5, <1>6, <1>7, <1>8, <1>9, <1>10 DEF WorkerStep

LEMMA OperatorMoves ==
    ASSUME IInv, InUse, NEW o \in Operators, OperatorStep(o)
    PROVE  Moves(o)
<1>0. o \in Clients /\ o \notin Workers
  BY OperatorIsNoWorker
<1>1. CASE Enqueue(o) \/ UpdateQueuedInputSpec(o) \/ CancelJob(o) \/ RetryJob(o)
           \/ OperatorHeartbeat(o)
  BY <1>1, CommandMoves
     DEF Enqueue, UpdateQueuedInputSpec, CancelJob, RetryJob, OperatorHeartbeat, Ops
<1>2. CASE CommitCommand(o)
  BY <1>0, <1>2, CommitMoves DEF CommitCommand
<1>3. CASE MarkStaleJobs(o)
  <2>1. UNCHANGED <<tables, txn, run>> /\ Quiet(o)
    BY <1>3 DEF MarkStaleJobs
  <2>2. \A d \in Operators \ {o} : sweep'[d] = sweep[d]
    BY <1>3 DEF MarkStaleJobs, IInv, TypeOK
  <2>3. Rests(o) /\ Apart(o) /\ Enters(o)
    BY <1>0, <2>1, <2>2 DEF Rests, Apart, Enters
  <2>. QED
    BY <2>3 DEF Moves
<1>4. CASE MarkStaleNext(o)
  <2>1. PICK s \in sweep[o] :
          \/ Read(o, "stale", s.job, FALSE)
          \/ UNCHANGED <<tables, txn>>
    BY <1>4 DEF MarkStaleNext
  <2>2. s.job \in Jobs /\ sweep[o] # {} /\ "stale" \in Commands
    BY DEF IInv, TypeOK, Seen, InUse
  <2>3. run' = run /\ \A d \in Operators \ {o} : sweep'[d] = sweep[d]
    BY <1>4 DEF MarkStaleNext, IInv, TypeOK
  <2>4. Enters(o)
    BY <2>2 DEF Enters, Inside
  <2>5. CASE Read(o, "stale", s.job, FALSE)
    <3>1. Reads(o)
      BY <1>0, <2>2, <2>3, <2>5 DEF Reads, Ops
    <3>2. Apart(o)
      BY <2>3, <2>5 DEF Apart, Read, IInv, TypeOK
    <3>. QED
      BY <2>4, <3>1, <3>2 DEF Moves
  <2>6. CASE UNCHANGED <<tables, txn>>
    <3>1. Rests(o) /\ Apart(o)
      BY <1>0, <2>3, <2>6 DEF Rests, Apart
    <3>. QED
      BY <2>4, <3>1 DEF Moves
  <2>. QED
    BY <2>1, <2>5, <2>6
<1>. QED
  BY <1>1, <1>2, <1>3, <1>4 DEF OperatorStep

LEMMA CommandCrashMoves ==
    ASSUME IInv, NEW o \in Operators, CommandCrash(o)
    PROVE  Moves(o)
<1>1. o \in Clients /\ o \notin Workers
  BY OperatorIsNoWorker
<1>2. /\ UNCHANGED <<tables, run>>
      /\ txn' = [txn EXCEPT ![o] = NoTxn]
      /\ sweep' = [sweep EXCEPT ![o] = {}]
  BY DEF CommandCrash
<1>3. Apart(o) /\ Rests(o)
  BY <1>1, <1>2 DEF Apart, Rests, IInv, TypeOK
<1>4. Enters(o)
  BY <1>1, <1>2 DEF Enters, Inside, Busy, NoTxn, IInv, TypeOK
<1>. QED
  BY <1>3, <1>4 DEF Moves

\* Every step is one process' own, or time passing.
LEMMA StepKinds ==
    ASSUME IInv, InUse, [Next]_vars
    PROVE  \/ \E c \in Clients : Moves(c)
           \/ \E j \in Jobs : HeartbeatAges(j)
           \/ UNCHANGED vars
<1>1. ASSUME NEW w \in Workers, Crash(w) PROVE Moves(w)
  BY <1>1, RunMoves DEF Crash
<1>. QED
  BY <1>1, WorkerMoves, OperatorMoves, CommandCrashMoves DEF Next, Clients

-----------------------------------------------------------------------------
(* What the methods write, against the record they read.                   *)

LEMMA WrittenFields ==
    ASSUME NEW t \in Txn, NEW c \in Clients, t.op # "none",
           t.cur.status \in AllowedFrom(t.op)
    PROVE  /\ t.op # "enqueue" => Written(t, c).attempts = t.cur.attempts
           /\ t.op = "enqueue" => Agree(Written(t, c), Enqueued(NoRow))
           /\ t.op \notin {"enqueue", "update"} => Written(t, c).bound = t.cur.bound
           /\ t.op \notin {"enqueue", "succeed"} /\ t.cur.gap => Written(t, c).gap
           /\ t.op = "succeed" => Written(t, c).gap = t.flag
           /\ t.op = "gap" => Written(t, c).gap
           /\ t.op \in Unlogged => Written(t, c).status = t.cur.status
<1>. USE DEF Record, AllowedFrom, Statuses, Live, Unlogged, Agree
<1>1. t.cur \in Record /\ t.flag \in BOOLEAN /\ t.op \in Ops
  BY DEF Txn
<1>2. CASE t.op = "enqueue"
  BY <1>1, <1>2 DEF Written, Enqueued, NoRow
<1>3. CASE t.op = "update"
  BY <1>1, <1>3 DEF Written, Respecified
<1>4. CASE t.op = "start"
  BY <1>1, <1>4 DEF Written, Started
<1>5. CASE t.op = "heartbeat"
  BY <1>1, <1>5 DEF Written, Beaten
<1>6. CASE t.op = "gap"
  BY <1>1, <1>6 DEF Written, Gapped
<1>7. CASE t.op = "succeed"
  BY <1>1, <1>7 DEF Written, Succeeded
<1>8. CASE t.op = "fail"
  BY <1>1, <1>8 DEF Written, Failed, Requeued
<1>9. CASE t.op = "retry"
  BY <1>1, <1>9 DEF Written, Retried, Requeued
<1>10. CASE t.op = "cancel"
  BY <1>1, <1>10 DEF Written, Cancelled
<1>11. CASE t.op = "stale"
  BY <1>1, <1>11 DEF Written, Staled
<1>. QED
  BY <1>1, <1>2, <1>3, <1>4, <1>5, <1>6, <1>7, <1>8, <1>9, <1>10, <1>11 DEF Ops

\* Who owns the record: the caller of start_job and heartbeat, nobody once it
\* is queued, and else whoever did.
LEMMA WrittenOwner ==
    ASSUME NEW t \in Txn, NEW c \in Clients, t.op # "none",
           t.cur.status \in AllowedFrom(t.op)
    PROVE  \/ Written(t, c).owner = c /\ t.cur.status \in Live /\ Written(t, c).status \in Live
              /\ t.op \in {"start", "heartbeat"}
           \/ Written(t, c).owner = None /\ Written(t, c).status = "queued"
              /\ t.op \in {"enqueue", "fail", "retry"}
           \/ Written(t, c).owner = t.cur.owner /\ Written(t, c).status = t.cur.status
              /\ t.op \in {"update", "gap"}
           \/ Written(t, c).owner = t.cur.owner /\ Written(t, c).status \notin Live \cup {"queued", "absent"}
              /\ t.op \in {"fail", "succeed", "cancel", "stale"}
<1>. USE DEF Record, AllowedFrom, Statuses, Live
<1>1. t.cur \in Record /\ t.flag \in BOOLEAN /\ t.op \in Ops
  BY DEF Txn
<1>2. CASE t.op = "enqueue"
  BY <1>1, <1>2 DEF Written, Enqueued, NoRow
<1>3. CASE t.op = "update"
  BY <1>1, <1>3 DEF Written, Respecified
<1>4. CASE t.op = "start"
  BY <1>1, <1>4 DEF Written, Started
<1>5. CASE t.op = "heartbeat"
  BY <1>1, <1>5 DEF Written, Beaten
<1>6. CASE t.op = "gap"
  BY <1>1, <1>6 DEF Written, Gapped
<1>7. CASE t.op = "succeed"
  BY <1>1, <1>7 DEF Written, Succeeded
<1>8. CASE t.op = "fail"
  BY <1>1, <1>8 DEF Written, Failed, Requeued
<1>9. CASE t.op = "retry"
  BY <1>1, <1>9 DEF Written, Retried, Requeued
<1>10. CASE t.op = "cancel"
  BY <1>1, <1>10 DEF Written, Cancelled
<1>11. CASE t.op = "stale"
  BY <1>1, <1>11 DEF Written, Staled
<1>. QED
  BY <1>1, <1>2, <1>3, <1>4, <1>5, <1>6, <1>7, <1>8, <1>9, <1>10, <1>11 DEF Ops

\* What a commit does to the tables, in full.
LEMMA WriteEffect ==
    ASSUME IInv, NEW c \in Clients, Write(c)
    PROVE  /\ txn[c] \in Txn /\ Busy(c) /\ txn[c].job \in Jobs
           /\ txn[c].cur.status \in AllowedFrom(txn[c].op)
           /\ jobs' = [jobs EXCEPT ![txn[c].job] = Written(txn[c], c)]
           /\ jobs'[txn[c].job] = Written(txn[c], c)
           /\ \A j \in Jobs \ {txn[c].job} : jobs'[j] = jobs[j]
           /\ ~Busy(c)'
           /\ txn' = [txn EXCEPT ![c] = NoTxn]
           /\ \A d \in Clients \ {c} : txn'[d] = txn[d]
<1>1. Busy(c)
  BY BusyIsTxn DEF Write
<1>2. txn[c] \in Txn /\ txn[c].job \in Jobs /\ txn[c].cur.status \in AllowedFrom(txn[c].op)
  BY <1>1 DEF IInv, WellFormedTxn, Busy
<1>3. /\ jobs' = [jobs EXCEPT ![txn[c].job] = Written(txn[c], c)]
      /\ txn' = [txn EXCEPT ![c] = NoTxn]
  BY DEF Write
<1>4. NoTxn.op = "none"
  BY DEF NoTxn
<1>. QED
  BY <1>1, <1>2, <1>3, <1>4 DEF Busy, IInv, TypeOK

\* What a read does: the caller holds the row as it is.
LEMMA ReadEffect ==
    ASSUME IInv, NEW c \in Clients, NEW op \in Ops, NEW j \in Jobs, NEW flag \in BOOLEAN,
           Read(c, op, j, flag)
    PROVE  /\ jobs' = jobs /\ UNCHANGED tables
           /\ Busy(c)' /\ ~Busy(c)
           /\ txn'[c] = [op |-> op, job |-> j, cur |-> jobs[j], flag |-> flag]
           /\ \A d \in Clients \ {c} : txn'[d] = txn[d]
           /\ jobs[j].status \in AllowedFrom(op)
<1>1. ~Busy(c)
  BY BusyIsTxn DEF Read
<1>2. txn'[c] = [op |-> op, job |-> j, cur |-> jobs[j], flag |-> flag]
  BY DEF Read, IInv, TypeOK
<1>3. Busy(c)'
  BY <1>2 DEF Busy, Ops
<1>. QED
  BY <1>1, <1>2, <1>3 DEF Read, tables, Accepts, IInv, TypeOK

LEMMA ClaimEffect ==
    ASSUME IInv, NEW w \in Workers, ClaimNext(w)
    PROVE  \E j \in Jobs :
             /\ jobs[j].status = "queued"
             /\ jobs' = [jobs EXCEPT ![j] = Claimed(jobs[j], w)]
             /\ lastTo' = [lastTo EXCEPT ![j] = "claimed"]
             /\ claims' = [claims EXCEPT ![j] = @ + 1]
             /\ gapRows' = gapRows /\ txn' = txn /\ ~Busy(w) /\ Quiet(w)
             /\ run' = [run EXCEPT ![w] = [Resting EXCEPT !.phase = "claimed", !.job = j]]
             /\ run[w] = Resting
<1>1. ~Busy(w)
  BY DEF ClaimNext, Resting, IInv, WellFormedRun, Busy
<1>. QED
  BY <1>1 DEF ClaimNext, Queued

LEMMA ClaimedFields ==
    ASSUME NEW r \in Record, NEW w \in Clients
    PROVE  /\ Claimed(r, w).status = "claimed" /\ Claimed(r, w).owner = w
           /\ Claimed(r, w).attempts = r.attempts + 1
           /\ Claimed(r, w).gap = r.gap /\ Claimed(r, w).bound = r.bound
BY DEF Claimed, Record

\* A heartbeat gets old: nothing that Agree compares.
LEMMA AgeEffect ==
    ASSUME IInv, NEW j \in Jobs, HeartbeatAges(j)
    PROVE  /\ \A i \in Jobs : Agree(jobs'[i], jobs[i])
           /\ jobs[j].status \in Live
           /\ UNCHANGED <<lastTo, claims, gapRows, txn, run, sweep>>
<1>1. jobs' = [jobs EXCEPT ![j] = [jobs[j] EXCEPT !.fresh = FALSE]]
  BY DEF HeartbeatAges
<1>2. Agree([jobs[j] EXCEPT !.fresh = FALSE], jobs[j])
  BY DEF Agree, IInv, TypeOK, Record
<1>3. \A i \in Jobs : Agree(jobs'[i], jobs[i])
  BY <1>1, <1>2 DEF Agree, IInv, TypeOK
<1>. QED
  BY <1>3 DEF HeartbeatAges

-----------------------------------------------------------------------------
(* A call in progress holds the row as it is.                              *)

LEMMA BusyWorkerHasJob ==
    ASSUME IInv, NEW w \in Workers, Busy(w)
    PROVE  run[w].job \in Jobs /\ run[w].job # None
BY JobsAssumption DEF IInv, WellFormedRun, Busy

\* In a pool, the job another process writes is not the job of a worker's run.
LEMMA PoolRowsApart ==
    ASSUME IInv, CallsInv, EnqueueOnly, NEW c \in Clients, Busy(c),
           NEW v \in Workers, v # c, run[v].job # None
    PROVE  txn[c].job # run[v].job
<1>1. jobs[run[v].job].status \in Live /\ jobs[run[v].job].owner = v
  BY DEF CallsInv, OnItsJob, Pooled, Holds
<1>2. CASE c \in Workers
  BY <1>1, <1>2, BusyWorkerHasJob DEF CallsInv, OnItsJob, Pooled, Holds
<1>3. CASE c \in Operators
  <2>1. txn[c].op = "enqueue"
    BY <1>3 DEF CallsInv, InUse, EnqueueOnly
  <2>2. txn[c].cur.status = "absent"
    BY <2>1 DEF IInv, WellFormedTxn, AllowedFrom
  <2>3. jobs[txn[c].job].status = "absent"
    BY <2>2 DEF CallsInv, Current, Agree
  <2>. QED
    BY <1>1, <2>3 DEF Live
<1>. QED
  BY <1>2, <1>3 DEF Clients

\* No two calls in progress are on one row.
LEMMA RowsApart ==
    ASSUME IInv, CallsInv, Undisturbed, NEW c \in Clients, NEW d \in Clients, c # d,
           Busy(c), Busy(d)
    PROVE  txn[c].job # txn[d].job
<1>1. CASE ~Overlap
  BY <1>1 DEF CallsInv, Exclusive, Inside
<1>2. CASE EnqueueOnly /\ OneOperator
  <2>1. CASE d \in Workers
    BY <1>2, <2>1, PoolRowsApart, BusyWorkerHasJob DEF CallsInv, OnItsJob, Pooled, Holds
  <2>2. CASE c \in Workers
    BY <1>2, <2>2, PoolRowsApart, BusyWorkerHasJob DEF CallsInv, OnItsJob, Pooled, Holds
  <2>3. CASE c \in Operators /\ d \in Operators
    BY <1>2, <2>3 DEF OneOperator
  <2>. QED
    BY <2>1, <2>2, <2>3 DEF Clients
<1>. QED
  BY <1>1, <1>2 DEF Undisturbed

\* Nor is one on a row that can be claimed.
LEMMA ClaimApart ==
    ASSUME IInv, CallsInv, Undisturbed, NEW w \in Workers, Quiet(w), ~Busy(w),
           NEW d \in Clients, Busy(d)
    PROVE  jobs[txn[d].job].status # "queued"
<1>1. CASE ~Overlap
  BY <1>1, BusyIsTxn DEF Quiet
<1>2. CASE EnqueueOnly /\ OneOperator
  <2>1. CASE d \in Workers
    BY <1>2, <2>1, BusyWorkerHasJob DEF CallsInv, OnItsJob, Pooled, Holds, Live
  <2>2. CASE d \in Operators
    <3>1. txn[d].op = "enqueue"
      BY <1>2, <2>2 DEF CallsInv, InUse, EnqueueOnly
    <3>2. txn[d].cur.status = "absent"
      BY <3>1 DEF IInv, WellFormedTxn, AllowedFrom
    <3>. QED
      BY <3>2 DEF CallsInv, Current, Agree
  <2>. QED
    BY <2>1, <2>2 DEF Clients
<1>. QED
  BY <1>1, <1>2 DEF Undisturbed

LEMMA ExclusiveNext ==
    ASSUME IInv, Exclusive, NEW c \in Clients, Moves(c)
    PROVE  Exclusive'
<1>1. CASE Overlap
  BY <1>1 DEF Exclusive
<1>2. CASE ~Overlap
  <2>1. ASSUME NEW d \in Clients \ {c} PROVE Inside(d)' <=> Inside(d)
    BY DEF Moves, Apart, Inside, Busy
  <2>2. ASSUME Quiet(c), NEW d \in Clients \ {c} PROVE ~Inside(d)
    BY <1>2, <2>2, BusyIsTxn DEF Quiet, Inside
  <2>. QED
    BY <1>2, <2>1, <2>2 DEF Exclusive, Moves, Enters
<1>. QED
  BY <1>1, <1>2

LEMMA CurrentNext ==
    ASSUME IInv, CallsInv, Undisturbed, NEW c \in Clients, Moves(c)
    PROVE  Current'
<1>1. CASE Reads(c)
  <2>1. PICK op \in Ops, j \in Jobs, flag \in BOOLEAN : Read(c, op, j, flag)
    BY <1>1 DEF Reads
  <2>2. /\ jobs' = jobs
        /\ txn'[c] = [op |-> op, job |-> j, cur |-> jobs[j], flag |-> flag]
        /\ \A d \in Clients \ {c} : txn'[d] = txn[d]
    BY <2>1, ReadEffect
  <2>3. Agree(txn'[c].cur, jobs'[txn'[c].job])
    BY <2>2 DEF Agree
  <2>4. ASSUME NEW d \in Clients \ {c}, Busy(d)' PROVE Agree(txn'[d].cur, jobs'[txn'[d].job])
    BY <2>2, <2>4 DEF CallsInv, Current, Busy
  <2>. QED
    BY <2>3, <2>4 DEF Current
<1>2. CASE Writes(c)
  <2>1. Write(c)
    BY <1>2 DEF Writes
  <2>2. ASSUME NEW d \in Clients, Busy(d)' PROVE Agree(txn'[d].cur, jobs'[txn'[d].job])
    <3>1. d # c /\ txn'[d] = txn[d] /\ Busy(d) /\ Busy(c)
      BY <2>1, <2>2, WriteEffect DEF Busy
    <3>2. txn[d].job \in Jobs \ {txn[c].job}
      BY <3>1, RowsApart DEF IInv, WellFormedTxn, Busy
    <3>. QED
      BY <2>1, <3>1, <3>2, WriteEffect DEF CallsInv, Current
  <2>. QED
    BY <2>2 DEF Current
<1>3. CASE Claims(c)
  <2>1. c \in Workers
    BY <1>3 DEF Claims
  <2>2. PICK j \in Jobs :
          /\ jobs[j].status = "queued"
          /\ jobs' = [jobs EXCEPT ![j] = Claimed(jobs[j], c)]
          /\ txn' = txn /\ ~Busy(c) /\ Quiet(c)
    BY <1>3, ClaimEffect DEF Claims
  <2>3. ASSUME NEW d \in Clients, Busy(d) PROVE jobs'[txn[d].job] = jobs[txn[d].job]
    BY <2>1, <2>2, <2>3, ClaimApart DEF IInv, TypeOK, WellFormedTxn, Busy
  <2>. QED
    BY <2>2, <2>3 DEF CallsInv, Current, Busy
<1>4. CASE Rests(c)
  <2>1. jobs' = jobs /\ \A d \in Clients : txn'[d] \in {txn[d], NoTxn}
    BY <1>4 DEF Rests, tables, Moves, Apart
  <2>2. NoTxn.op = "none"
    BY DEF NoTxn
  <2>. QED
    BY <2>1, <2>2 DEF CallsInv, Current, Busy
<1>. QED
  BY <1>1, <1>2, <1>3, <1>4 DEF Moves

LEMMA BlankNext ==
    ASSUME IInv, Blank, NEW c \in Clients, Moves(c)
    PROVE  Blank'
<1>1. CASE Reads(c) \/ Rests(c)
  <2>1. jobs' = jobs
    BY <1>1, ReadEffect DEF Reads, Rests, tables
  <2>. QED
    BY <2>1 DEF Blank
<1>2. CASE Writes(c)
  <2>1. Write(c)
    BY <1>2 DEF Writes
  <2>2. Written(txn[c], c).status # "absent"
    BY <2>1, WriteEffect, WrittenType DEF Busy, Statuses
  <2>. QED
    BY <2>1, <2>2, WriteEffect DEF Blank
<1>3. CASE Claims(c)
  <2>1. c \in Clients /\ c \in Workers
    BY <1>3 DEF Claims
  <2>2. PICK j \in Jobs : jobs' = [jobs EXCEPT ![j] = Claimed(jobs[j], c)]
    BY <1>3, <2>1, ClaimEffect DEF Claims
  <2>3. jobs[j] \in Record /\ jobs \in [Jobs -> Record]
    BY DEF IInv, TypeOK
  <2>4. Claimed(jobs[j], c).status = "claimed"
    BY <2>1, <2>3, ClaimedFields
  <2>. QED
    BY <2>2, <2>3, <2>4 DEF Blank
<1>. QED
  BY <1>1, <1>2, <1>3 DEF Moves

LEMMA InUseNext ==
    ASSUME IInv, InUse, [Next]_vars
    PROVE  InUse'
<1>1. ASSUME NEW o \in Operators, sweep'[o] # {} PROVE "stale" \in Commands
  <2>1. CASE sweep[o] # {}
    BY <2>1 DEF InUse
  <2>2. CASE sweep[o] = {}
    <3>1. sweep' # sweep
      BY <1>1, <2>2
    <3>2. \/ \E p \in Operators : MarkStaleJobs(p) \/ MarkStaleNext(p) \/ CommandCrash(p)
      BY <3>1 DEF Next, vars, WorkerStep, ClaimNext, StartJob, Heartbeat, RecordGap, Call,
                  SucceedLoad, SucceedJob, HandlerRaises, FailJob, Refused, Commit, Crash,
                  OperatorStep, Enqueue, UpdateQueuedInputSpec, CancelJob, RetryJob,
                  OperatorHeartbeat, Command, CommitCommand, HeartbeatAges
    <3>3. ASSUME NEW p \in Operators, MarkStaleJobs(p) PROVE "stale" \in Commands
      BY <3>3 DEF MarkStaleJobs
    <3>4. ASSUME NEW p \in Operators, MarkStaleNext(p) PROVE FALSE
      <4>1. sweep[p] # {}
        BY <3>4 DEF MarkStaleNext
      <4>2. sweep'[o] = sweep[o]
        BY <2>2, <3>4, <4>1 DEF MarkStaleNext, IInv, TypeOK
      <4>. QED
        BY <1>1, <2>2, <4>2
    <3>5. ASSUME NEW p \in Operators, CommandCrash(p) PROVE FALSE
      BY <1>1, <2>2, <3>5 DEF CommandCrash, IInv, TypeOK
    <3>. QED
      BY <3>2, <3>3, <3>4, <3>5
  <2>. QED
    BY <2>1, <2>2
<1>2. ASSUME NEW o \in Operators, Busy(o)' PROVE txn'[o].op \in Commands
  <2>0. o \in Clients
    BY DEF Clients
  <2>1. CASE txn'[o] = txn[o]
    BY <1>2, <2>1 DEF InUse, Busy
  <2>2. CASE txn'[o] # txn[o]
    <3>1. PICK c \in Clients : Moves(c)
      BY <2>2, StepKinds DEF HeartbeatAges, vars
    <3>2. c = o
      BY <2>0, <2>2, <3>1 DEF Moves, Apart
    <3>3. ~(Writes(o) \/ Rests(o) \/ Claims(o))
      <4>1. NoTxn.op = "none"
        BY DEF NoTxn
      <4>2. ~Writes(o)
        BY <1>2, <2>0, WriteEffect DEF Writes
      <4>3. ~Rests(o)
        BY <1>2, <2>2, <4>1 DEF Rests, Busy
      <4>. QED
        BY <4>2, <4>3, OperatorIsNoWorker DEF Claims
    <3>4. Reads(o)
      BY <3>1, <3>2, <3>3 DEF Moves
    <3>5. PICK op \in Ops, j \in Jobs, flag \in BOOLEAN :
            Read(o, op, j, flag) /\ op \in Commands
      BY <3>4 DEF Reads
    <3>6. txn'[o] = [op |-> op, job |-> j, cur |-> jobs[j], flag |-> flag]
      BY <2>0, <3>5, ReadEffect
    <3>. QED
      BY <3>5, <3>6
  <2>. QED
    BY <2>1, <2>2
<1>. QED
  BY <1>1, <1>2 DEF InUse

LEMMA OnItsJobNext ==
    ASSUME IInv, OnItsJob, NEW c \in Clients, Moves(c)
    PROVE  OnItsJob'
<1>1. ASSUME NEW w \in Workers, w # c
      PROVE  w \in Clients /\ run'[w] = run[w] /\ txn'[w] = txn[w]
  BY <1>1 DEF Moves, Apart, Clients
<1>2. SUFFICES ASSUME c \in Workers, Busy(c)'
               PROVE  /\ txn'[c].job = run'[c].job
                      /\ txn'[c].op = "heartbeat" => run'[c].phase \in {"started", "working"}
  BY <1>1 DEF OnItsJob, Busy
<1>3. CASE Reads(c)
  <2>1. PICK op \in Ops, j \in Jobs, flag \in BOOLEAN :
          /\ Read(c, op, j, flag) /\ run' = run /\ j = run[c].job
          /\ op = "heartbeat" => run[c].phase \in {"started", "working"}
    BY <1>2, <1>3 DEF Reads
  <2>2. txn'[c] = [op |-> op, job |-> j, cur |-> jobs[j], flag |-> flag]
    BY <2>1, ReadEffect
  <2>. QED
    BY <2>1, <2>2
<1>4. CASE Writes(c)
  BY <1>2, <1>4, WriteEffect DEF Writes
<1>5. CASE Claims(c)
  BY <1>2, <1>5, ClaimEffect DEF Claims, Busy
<1>6. CASE Rests(c)
  <2>1. txn'[c] # NoTxn
    BY <1>2 DEF Busy, NoTxn
  <2>. QED
    BY <1>2, <1>6, <2>1 DEF Rests, OnItsJob, Busy
<1>. QED
  BY <1>3, <1>4, <1>5, <1>6 DEF Moves

LEMMA PooledNext ==
    ASSUME IInv, CallsInv, EnqueueOnly, NEW c \in Clients, Moves(c)
    PROVE  \A w \in Workers : Holds(w)'
<1>0. ASSUME NEW w \in Workers
      PROVE  /\ run[w].job # None => /\ run[w].job \in Jobs
                                     /\ jobs[run[w].job].status \in Live
                                     /\ jobs[run[w].job].owner = w
             /\ w \in Clients /\ run[w] \in Run
  BY DEF CallsInv, OnItsJob, Pooled, Holds, IInv, TypeOK, Run, Clients
<1>1. ASSUME NEW w \in Workers, w # c
      PROVE  run'[w] = run[w]
  BY <1>0, <1>1 DEF Moves, Apart
<1>2. CASE Reads(c)
  <2>1. PICK op \in Ops, j \in Jobs, flag \in BOOLEAN :
          Read(c, op, j, flag) /\ run' = run
    BY <1>2 DEF Reads
  <2>2. jobs' = jobs
    BY <2>1, ReadEffect
  <2>3. ASSUME NEW w \in Workers PROVE Holds(w)'
    BY <1>0, <1>1, <2>1, <2>2 DEF Holds
  <2>. QED
    BY <2>3
<1>3. CASE Writes(c)
  <2>1. Write(c)
    BY <1>3 DEF Writes
  <2>2. /\ txn[c] \in Txn /\ Busy(c) /\ txn[c].job \in Jobs /\ ~Busy(c)'
        /\ txn[c].cur.status \in AllowedFrom(txn[c].op)
        /\ jobs'[txn[c].job] = Written(txn[c], c)
        /\ \A j \in Jobs \ {txn[c].job} : jobs'[j] = jobs[j]
    BY <2>1, WriteEffect
  <2>3. ASSUME NEW w \in Workers, w # c PROVE Holds(w)'
    <3>1. run[w].job # None => txn[c].job # run[w].job
      BY <2>2, <2>3, PoolRowsApart
    <3>. QED
      BY <1>0, <1>1, <2>2, <2>3, <3>1 DEF Holds
  <2>4. ASSUME c \in Workers PROVE Holds(c)'
    <3>1. txn[c].job = run[c].job /\ run[c].job \in Jobs /\ run[c].job # None
      BY <2>2, <2>4, <1>0, BusyWorkerHasJob DEF CallsInv, OnItsJob
    <3>2. Agree(txn[c].cur, jobs[txn[c].job])
      BY <2>2 DEF CallsInv, Current
    <3>3. txn[c].cur.status \in Live /\ txn[c].cur.owner = c
      BY <1>0, <2>4, <3>1, <3>2 DEF Agree
    <3>4. Commit(c) /\ run \in [Workers -> Run]
      BY <1>3, <2>4 DEF Writes, IInv, TypeOK
    <3>5. CASE run'[c] = Resting
      BY <2>2, <3>5 DEF Resting, Holds
    <3>6. CASE txn[c].op \in {"start", "heartbeat", "gap"} /\ run'[c].job = run[c].job
      <4>1. Written(txn[c], c).status \in Live /\ Written(txn[c], c).owner = c
        BY <2>2, <3>3, <3>6, WrittenOwner, BusyIsTxn DEF Busy
      <4>. QED
        BY <2>2, <3>1, <3>6, <4>1 DEF Holds
    <3>7. \/ run'[c] = Resting
          \/ txn[c].op \in {"start", "heartbeat", "gap"} /\ run'[c].job = run[c].job
      BY <2>4, <3>4 DEF Commit, Run
    <3>. QED
      BY <3>5, <3>6, <3>7
  <2>. QED
    BY <2>3, <2>4
<1>4. CASE Claims(c)
  <2>1. c \in Workers
    BY <1>4 DEF Claims
  <2>2. PICK j \in Jobs :
          /\ jobs[j].status = "queued"
          /\ jobs' = [jobs EXCEPT ![j] = Claimed(jobs[j], c)]
          /\ ~Busy(c) /\ txn' = txn
          /\ run' = [run EXCEPT ![c] = [Resting EXCEPT !.phase = "claimed", !.job = j]]
    BY <1>4, <2>1, ClaimEffect DEF Claims
  <2>3. jobs \in [Jobs -> Record] /\ run \in [Workers -> Run]
    BY DEF IInv, TypeOK
  <2>4. Claimed(jobs[j], c).status = "claimed" /\ Claimed(jobs[j], c).owner = c
    BY <2>3, ClaimedFields
  <2>5. run'[c].job = j
    BY <2>1, <2>2, <2>3 DEF Resting
  <2>6. ASSUME NEW w \in Workers, w # c PROVE Holds(w)'
    <3>1. run[w].job # None => run[w].job # j
      BY <1>0, <2>2 DEF Live
    <3>. QED
      BY <1>0, <1>1, <2>2, <2>3, <2>6, <3>1 DEF Holds
  <2>7. Holds(c)'
    BY <2>1, <2>2, <2>3, <2>4, <2>5 DEF Live, Busy, Holds
  <2>. QED
    BY <2>6, <2>7
<1>5. CASE Rests(c)
  <2>1. jobs' = jobs
    BY <1>5 DEF Rests, tables
  <2>2. ASSUME NEW w \in Workers, w # c PROVE Holds(w)'
    BY <1>0, <1>1, <2>1, <2>2 DEF Holds
  <2>3. ASSUME c \in Workers PROVE Holds(c)'
    <3>1. run'[c].job \in {run[c].job, None}
      <4>. DEFINE gap == run[c].gap \/ jobs[run[c].job].gap
      <4>1. \/ run'[c] = run[c] \/ run'[c] = Resting
            \/ run'[c] = [run[c] EXCEPT !.phase = "failing"]
            \/ run'[c] = [run[c] EXCEPT !.phase = "closing", !.gap = gap]
        BY <1>5, <2>3 DEF Rests
      <4>2. run[c] \in Run
        BY <1>0, <2>3
      <4>. HIDE DEF gap
      <4>3. CASE run'[c] = Resting
        BY <4>3 DEF Resting
      <4>4. CASE run'[c] = [run[c] EXCEPT !.phase = "failing"]
        BY <4>2, <4>4 DEF Run
      <4>5. CASE run'[c] = [run[c] EXCEPT !.phase = "closing", !.gap = gap]
        BY <4>2, <4>5 DEF Run
      <4>. QED
        BY <4>1, <4>3, <4>4, <4>5
    <3>. QED
      BY <1>0, <2>1, <2>3, <3>1 DEF Holds
  <2>. QED
    BY <2>2, <2>3
<1>. QED
  BY <1>2, <1>3, <1>4, <1>5 DEF Moves

\* Time passing disturbs none of it.
LEMMA CallsAge ==
    ASSUME IInv, CallsInv, NEW j \in Jobs, HeartbeatAges(j)
    PROVE  CallsInv'
<1>1. /\ \A i \in Jobs : Agree(jobs'[i], jobs[i])
      /\ UNCHANGED <<txn, run, sweep>>
  BY AgeEffect
<1>2. Exclusive' /\ InUse'
  BY <1>1 DEF CallsInv, Exclusive, InUse, Inside, Busy
<1>3. Current'
  <2>1. ASSUME NEW c \in Clients, Busy(c) PROVE txn[c].job \in Jobs
    BY <2>1 DEF IInv, WellFormedTxn, Busy
  <2>. QED
    BY <1>1, <2>1 DEF CallsInv, Current, Agree, Busy
<1>4. Blank'
  BY <1>1 DEF CallsInv, Blank, Agree
<1>5. OnItsJob' /\ Pooled'
  <2>1. \A w \in Workers : run[w].job # None => run[w].job \in Jobs
    BY DEF IInv, TypeOK, Run
  <2>. QED
    BY <1>1, <2>1 DEF CallsInv, OnItsJob, Pooled, Holds, Agree, Busy, EnqueueOnly
<1>. QED
  BY <1>2, <1>3, <1>4, <1>5 DEF CallsInv

LEMMA CallsInit == Init => CallsInv
<1>. SUFFICES ASSUME Init PROVE CallsInv
  OBVIOUS
<1>1. /\ \A c \in Clients : txn[c] = NoTxn
      /\ \A w \in Workers : run[w] = Resting
      /\ \A o \in Operators : sweep[o] = {}
      /\ \A j \in Jobs : jobs[j] = NoRow
  BY DEF Init
<1>2. /\ \A c \in Clients : ~Busy(c)
      /\ \A w \in Workers : w \in Clients /\ run[w].phase = "idle" /\ run[w].job = None
      /\ \A o \in Operators : o \in Clients
  BY <1>1 DEF Busy, NoTxn, Resting, Clients
<1>3. \A c \in Clients : ~Inside(c)
  BY <1>1, <1>2 DEF Inside
<1>. QED
  BY <1>1, <1>2, <1>3
     DEF CallsInv, Exclusive, Current, Blank, InUse, OnItsJob, Pooled, Holds, Busy, Agree

LEMMA CallsNext ==
    ASSUME Undisturbed, IInv, CallsInv, [Next]_vars
    PROVE  CallsInv'
<1>1. InUse'
  BY InUseNext DEF CallsInv
<1>2. CASE \E c \in Clients : Moves(c)
  <2>1. PICK c \in Clients : Moves(c)
    BY <1>2
  <2>2. Exclusive' /\ Current' /\ Blank' /\ OnItsJob'
    BY <2>1, ExclusiveNext, CurrentNext, BlankNext, OnItsJobNext DEF CallsInv
  <2>3. Pooled'
    BY <2>1, PooledNext DEF Pooled, EnqueueOnly
  <2>. QED
    BY <1>1, <2>2, <2>3 DEF CallsInv
<1>3. CASE \E j \in Jobs : HeartbeatAges(j)
  BY <1>3, CallsAge
<1>4. CASE UNCHANGED vars
  BY <1>4 DEF vars, CallsInv, Exclusive, Inside, Current, Blank, InUse, OnItsJob, Pooled, Busy,
              Holds, EnqueueOnly
<1>. QED
  BY <1>2, <1>3, <1>4, StepKinds DEF CallsInv

\* Whenever a store call is between its read and its commit, the copy it holds
\* is the row: no commit of run_one_job, of a command or of a sweep goes over
\* another, if calls do not overlap, or if workers run a pool that one planner
\* enqueues for.
THEOREM CallsInvariance ==
    ASSUME Undisturbed
    PROVE  Spec => [](IInv /\ CallsInv)
<1>1. Init => IInv /\ CallsInv
  BY InitInv, CallsInit
<1>2. IInv /\ CallsInv /\ [Next]_vars => IInv' /\ CallsInv'
  BY NextInv, CallsNext
<1>. QED
  BY <1>1, <1>2, PTL DEF Spec

\* In such a pool no job is executed by two workers: the row of the job a
\* worker is on is claimed or running and names that worker, until its own
\* succeed_job or fail_job, whichever workers die and however calls overlap.
THEOREM PoolHasOneWorkerPerJob ==
    ASSUME EnqueueOnly, Undisturbed
    PROVE  Spec => []OneWorkerPerJob
<1>1. CallsInv => OneWorkerPerJob
  BY DEF CallsInv, OnItsJob, Pooled, Holds, OneWorkerPerJob
<1>. QED
  BY <1>1, CallsInvariance, PTL

-----------------------------------------------------------------------------
(* What a commit makes of the row it replaces.                             *)

LEMMA WriteOverRow ==
    ASSUME IInv, CallsInv, NEW c \in Clients, Write(c)
    PROVE  LET t == txn[c]
               row == jobs[t.job]
               new == Written(t, c) IN
           /\ new.attempts = row.attempts
           /\ t.op = "enqueue" => /\ row.status = "absent" /\ row.owner = None /\ ~row.gap
                                  /\ new.owner = None
           /\ t.op \in Unlogged => new.status = row.status
           /\ t.op \notin {"enqueue", "update"} => new.bound = row.bound
           /\ t.op # "succeed" /\ row.gap => new.gap
           /\ t.op = "succeed" => new.gap = t.flag
           /\ t.op = "gap" => new.gap
           /\ row.status \in AllowedFrom(t.op)
           /\ Agree(t.cur, row)
<1>. DEFINE t == txn[c]
            row == jobs[t.job]
            new == Written(t, c)
<1>1. t \in Txn /\ t.op # "none" /\ t.job \in Jobs /\ t.cur.status \in AllowedFrom(t.op)
  BY WriteEffect DEF Busy
<1>2. Agree(t.cur, row)
  BY <1>1 DEF CallsInv, Current, Busy
<1>3. row.status \in AllowedFrom(t.op) /\ row \in Record
  BY <1>1, <1>2 DEF Agree, IInv, TypeOK
<1>4. /\ t.op # "enqueue" => new.attempts = t.cur.attempts
      /\ t.op = "enqueue" => Agree(new, Enqueued(NoRow))
      /\ t.op \notin {"enqueue", "update"} => new.bound = t.cur.bound
      /\ t.op \notin {"enqueue", "succeed"} /\ t.cur.gap => new.gap
      /\ t.op = "succeed" => new.gap = t.flag
      /\ t.op = "gap" => new.gap
      /\ t.op \in Unlogged => new.status = t.cur.status
  BY <1>1, WrittenFields
<1>. HIDE DEF new
<1>5. CASE t.op = "enqueue"
  <2>1. row.status = "absent"
    BY <1>3, <1>5 DEF AllowedFrom
  <2>2. Agree(row, NoRow)
    BY <1>1, <2>1 DEF CallsInv, Blank
  <2>3. row.attempts = 0 /\ row.owner = None /\ ~row.gap
    BY <2>2 DEF Agree, NoRow
  <2>4. new.attempts = 0 /\ new.owner = None
    BY <1>4, <1>5 DEF Agree, Enqueued, NoRow
  <2>. QED
    BY <1>2, <1>3, <1>4, <1>5, <2>1, <2>3, <2>4 DEF Unlogged, new
<1>6. CASE t.op # "enqueue"
  BY <1>2, <1>3, <1>4, <1>6 DEF Agree, new
<1>. QED
  BY <1>5, <1>6

\* The log, the counter and the evidence: what a commit, a claim and time do.
LEMMA LogNext ==
    ASSUME IInv, CallsInv, LogAgrees, [Next]_vars
    PROVE  LogAgrees'
<1>1. ASSUME NEW c \in Clients, Moves(c) PROVE LogAgrees'
  <2>1. CASE Reads(c) \/ Rests(c)
    <3>1. UNCHANGED tables
      BY <2>1, ReadEffect DEF Reads, Rests
    <3>. QED
      BY <3>1 DEF tables, LogAgrees
  <2>2. CASE Writes(c)
    <3>1. Write(c)
      BY <2>2 DEF Writes
    <3>2. /\ txn[c].job \in Jobs
          /\ jobs'[txn[c].job] = Written(txn[c], c)
          /\ \A j \in Jobs \ {txn[c].job} : jobs'[j] = jobs[j]
      BY <3>1, WriteEffect
    <3>3. txn[c].op \in Unlogged => Written(txn[c], c).status = jobs[txn[c].job].status
      BY <3>1, WriteOverRow
    <3>4. lastTo' = IF txn[c].op \in Unlogged THEN lastTo
                    ELSE [lastTo EXCEPT ![txn[c].job] = Written(txn[c], c).status]
      BY <3>1 DEF Write
    <3>. QED
      BY <3>2, <3>3, <3>4 DEF LogAgrees, IInv, TypeOK
  <2>3. CASE Claims(c)
    <3>1. PICK j \in Jobs : /\ jobs' = [jobs EXCEPT ![j] = Claimed(jobs[j], c)]
                            /\ lastTo' = [lastTo EXCEPT ![j] = "claimed"]
      BY <2>3, ClaimEffect DEF Claims
    <3>2. Claimed(jobs[j], c).status = "claimed"
      BY ClaimedFields DEF IInv, TypeOK
    <3>. QED
      BY <3>1, <3>2 DEF LogAgrees, IInv, TypeOK
  <2>. QED
    BY <1>1, <2>1, <2>2, <2>3 DEF Moves
<1>2. ASSUME NEW j \in Jobs, HeartbeatAges(j) PROVE LogAgrees'
  BY <1>2, AgeEffect DEF LogAgrees, Agree
<1>3. CASE UNCHANGED vars
  BY <1>3 DEF vars, LogAgrees
<1>. QED
  BY <1>1, <1>2, <1>3, StepKinds DEF CallsInv

LEMMA AttemptsNext ==
    ASSUME IInv, CallsInv, AttemptsCountClaims, [Next]_vars
    PROVE  AttemptsCountClaims'
<1>1. ASSUME NEW c \in Clients, Moves(c) PROVE AttemptsCountClaims'
  <2>1. CASE Reads(c) \/ Rests(c)
    <3>1. UNCHANGED tables
      BY <2>1, ReadEffect DEF Reads, Rests
    <3>. QED
      BY <3>1 DEF tables, AttemptsCountClaims
  <2>2. CASE Writes(c)
    <3>1. Write(c)
      BY <2>2 DEF Writes
    <3>2. /\ txn[c].job \in Jobs
          /\ jobs'[txn[c].job] = Written(txn[c], c)
          /\ \A j \in Jobs \ {txn[c].job} : jobs'[j] = jobs[j]
      BY <3>1, WriteEffect
    <3>3. Written(txn[c], c).attempts = jobs[txn[c].job].attempts
      BY <3>1, WriteOverRow
    <3>4. claims' = claims
      BY <3>1 DEF Write
    <3>. QED
      BY <3>2, <3>3, <3>4 DEF AttemptsCountClaims
  <2>3. CASE Claims(c)
    <3>1. PICK j \in Jobs : /\ jobs' = [jobs EXCEPT ![j] = Claimed(jobs[j], c)]
                            /\ claims' = [claims EXCEPT ![j] = @ + 1]
      BY <2>3, ClaimEffect DEF Claims
    <3>2. Claimed(jobs[j], c).attempts = jobs[j].attempts + 1
      BY ClaimedFields DEF IInv, TypeOK
    <3>. QED
      BY <3>1, <3>2 DEF AttemptsCountClaims, IInv, TypeOK
  <2>. QED
    BY <1>1, <2>1, <2>2, <2>3 DEF Moves
<1>2. ASSUME NEW j \in Jobs, HeartbeatAges(j) PROVE AttemptsCountClaims'
  BY <1>2, AgeEffect DEF AttemptsCountClaims, Agree
<1>3. CASE UNCHANGED vars
  BY <1>3 DEF vars, AttemptsCountClaims
<1>. QED
  BY <1>1, <1>2, <1>3, StepKinds DEF CallsInv

\* The latest transition record of a job ends in the status of its row, though
\* the row and the copy a call writes back are read before the transaction.
THEOREM LogAlwaysAgrees ==
    ASSUME Undisturbed
    PROVE  Spec => []LogAgrees
<1>0. NoRow.status = "absent"
  BY DEF NoRow
<1>1. Init => LogAgrees
  BY <1>0 DEF Init, LogAgrees
<1>2. IInv /\ CallsInv /\ LogAgrees /\ [Next]_vars => LogAgrees'
  BY LogNext
<1>. QED
  BY <1>1, <1>2, CallsInvariance, PTL DEF Spec

\* attempts counts the claims on record: no requeue, retry or sweep takes it
\* back, and no commit loses an increment.
THEOREM AttemptsAlwaysCountClaims ==
    ASSUME Undisturbed
    PROVE  Spec => []AttemptsCountClaims
<1>0. NoRow.attempts = 0
  BY DEF NoRow
<1>1. Init => AttemptsCountClaims
  BY <1>0 DEF Init, AttemptsCountClaims
<1>2. IInv /\ CallsInv /\ AttemptsCountClaims /\ [Next]_vars => AttemptsCountClaims'
  BY AttemptsNext
<1>. QED
  BY <1>1, <1>2, CallsInvariance, PTL DEF Spec

\* Only a retry command takes a job out of a terminal status: every other
\* method that accepts one keeps it (record_gap), and what a method accepted
\* at its read is what its commit replaces.
THEOREM TerminalIsLeftOnlyByRetry ==
    ASSUME Undisturbed
    PROVE  Spec => TerminalLeftOnlyByRetry
<1>. DEFINE Step == \A j \in Jobs :
              jobs[j].status \in TERMINAL_STATUSES /\ jobs'[j].status # jobs[j].status
                  => CommitsTo("retry", j)
<1>1. ASSUME IInv, CallsInv, [Next]_vars PROVE Step
  <2>. SUFFICES ASSUME NEW j \in Jobs, jobs[j].status \in TERMINAL_STATUSES,
                       jobs'[j].status # jobs[j].status
                PROVE  CommitsTo("retry", j)
    OBVIOUS
  <2>1. ASSUME NEW i \in Jobs, HeartbeatAges(i) PROVE FALSE
    BY <2>1, <1>1, AgeEffect DEF Agree
  <2>2. PICK c \in Clients : Moves(c)
    BY <1>1, <2>1, StepKinds DEF CallsInv, vars
  <2>3. ~Reads(c) /\ ~Rests(c)
    BY <1>1, ReadEffect DEF Reads, Rests, tables
  <2>4. ~Claims(c)
    <3>1. ASSUME Claims(c) PROVE FALSE
      <4>1. PICK i \in Jobs : /\ jobs[i].status = "queued"
                              /\ jobs' = [jobs EXCEPT ![i] = Claimed(jobs[i], c)]
        BY <1>1, <3>1, ClaimEffect DEF Claims
      <4>. QED
        BY <1>1, <4>1 DEF TERMINAL_STATUSES, IInv, TypeOK
    <3>. QED
      BY <3>1
  <2>5. Write(c)
    BY <2>2, <2>3, <2>4 DEF Moves, Writes
  <2>6. /\ txn[c].job = j /\ txn[c].op \in Ops /\ txn'[c] = NoTxn
        /\ jobs'[j] = Written(txn[c], c)
    BY <1>1, <2>5, WriteEffect DEF Txn, Busy, IInv, TypeOK
  <2>7. jobs[j].status \in AllowedFrom(txn[c].op) /\ txn[c].op # "gap"
    BY <1>1, <2>5, <2>6, WriteOverRow DEF Unlogged
  <2>8. txn[c].op = "retry"
    BY <2>6, <2>7 DEF Ops, AllowedFrom, TERMINAL_STATUSES, UpdateFrom, Live, FailFrom,
                      CancelFrom, StaleFrom
  <2>. QED
    BY <2>6, <2>8 DEF CommitsTo
<1>2. IInv /\ CallsInv /\ [Next]_vars => [Step]_vars
  BY <1>1
<1>. QED
  BY <1>2, CallsInvariance, PTL DEF Spec, TerminalLeftOnlyByRetry

-----------------------------------------------------------------------------
(* Gap evidence.                                                           *)

\* Nobody else writes the row of a job whose worker is between the two reads
\* of succeed_job.
LEMMA ClosingApart ==
    ASSUME IInv, CallsInv, Undisturbed, NEW c \in Clients, Inside(c) \/ Quiet(c),
           NEW w \in Workers, w # c, run[w].phase = "closing",
           NEW j \in Jobs, \/ Busy(c) /\ txn[c].job = j
                           \/ jobs[j].status = "queued"
    PROVE  run[w].job # j
<1>1. w \in Clients /\ run[w].job # None
  BY JobsAssumption DEF Clients, IInv, WellFormedRun
<1>2. CASE ~Overlap
  BY <1>1, <1>2 DEF CallsInv, Exclusive, Inside, Quiet
<1>3. CASE EnqueueOnly
  <2>1. CASE Busy(c) /\ txn[c].job = j
    BY <1>1, <1>3, <2>1, PoolRowsApart
  <2>2. CASE jobs[j].status = "queued"
    BY <1>1, <1>3, <2>2 DEF CallsInv, Pooled, Holds, Live
  <2>. QED
    BY <2>1, <2>2
<1>. QED
  BY <1>2, <1>3 DEF Undisturbed

LEMMA GapReads ==
    ASSUME IInv, CallsInv, GapInv, NEW c \in Clients, Moves(c), Reads(c)
    PROVE  GapInv'
<1>1. PICK op \in Ops, j \in Jobs, flag \in BOOLEAN :
        /\ Read(c, op, j, flag) /\ run' = run
        /\ c \in Workers => /\ j = run[c].job
                            /\ op = "succeed" => run[c].phase = "closing" /\ flag = run[c].gap
        /\ c \in Operators => op \in Commands
  BY DEF Reads
<1>2. /\ UNCHANGED tables
      /\ txn'[c] = [op |-> op, job |-> j, cur |-> jobs[j], flag |-> flag]
      /\ \A d \in Clients \ {c} : txn'[d] = txn[d]
  BY <1>1, ReadEffect
<1>3. ASSUME op = "succeed", jobs[j].gap PROVE flag
  <2>1. c \in Workers
    BY <1>1, <1>3, CommandsAssumption DEF AllCommands, Clients
  <2>. QED
    BY <1>1, <1>3, <2>1 DEF GapInv
<1>4. \A d \in Clients : txn'[d].op = "succeed" /\ txn'[d].cur.gap => txn'[d].flag
  BY <1>2, <1>3 DEF GapInv
<1>5. GapEvidenceKept' /\ \A w \in Workers :
        run'[w].phase = "closing" /\ jobs'[run'[w].job].gap => run'[w].gap
  BY <1>1, <1>2 DEF GapInv, GapEvidenceKept, tables
<1>. QED
  BY <1>4, <1>5 DEF GapInv

LEMMA GapWrites ==
    ASSUME IInv, CallsInv, Undisturbed, GapInv, NEW c \in Clients, Moves(c), Writes(c)
    PROVE  GapInv'
<1>. DEFINE i == txn[c].job
            new == Written(txn[c], c)
<1>1. Write(c)
  BY DEF Writes
<1>2. /\ txn[c] \in Txn /\ Busy(c) /\ i \in Jobs
      /\ jobs'[i] = new /\ \A j \in Jobs \ {i} : jobs'[j] = jobs[j]
      /\ ~Busy(c)'
      /\ \A d \in Clients \ {c} : txn'[d] = txn[d]
  BY <1>1, WriteEffect
<1>3. /\ txn[c].op = "enqueue" => ~jobs[i].gap
      /\ txn[c].op # "succeed" /\ jobs[i].gap => new.gap
      /\ txn[c].op = "succeed" => new.gap = txn[c].flag
      /\ txn[c].op = "gap" => new.gap
      /\ Agree(txn[c].cur, jobs[i])
  BY <1>1, WriteOverRow
<1>4. jobs[i].gap => new.gap
  BY <1>3 DEF GapInv, Agree
<1>. HIDE DEF new
<1>5. gapRows' = IF txn[c].op = "gap" THEN gapRows \cup {i} ELSE gapRows
  BY <1>1 DEF Write
<1>6. GapEvidenceKept'
  BY <1>2, <1>3, <1>4, <1>5 DEF GapInv, GapEvidenceKept, IInv, TypeOK
<1>7. ASSUME NEW w \in Workers, run'[w].phase = "closing", jobs'[run'[w].job].gap
      PROVE  run'[w].gap
  <2>1. CASE w # c
    <3>1. run'[w] = run[w] /\ w \in Clients
      BY <2>1 DEF Moves, Apart, Clients
    <3>2. run[w].job \in Jobs /\ run[w].job # i
      BY <1>2, <1>7, <2>1, <3>1, ClosingApart DEF Inside, IInv, WellFormedRun
    <3>. QED
      BY <1>2, <1>7, <3>1, <3>2 DEF GapInv
  <2>2. CASE w = c
    <3>1. Commit(c) /\ run \in [Workers -> Run]
      BY <2>2 DEF Writes, IInv, TypeOK
    <3>. QED
      BY <1>7, <2>2, <3>1 DEF Commit, Run, Resting
  <2>. QED
    BY <2>1, <2>2
<1>8. \A d \in Clients : txn'[d].op = "succeed" /\ txn'[d].cur.gap => txn'[d].flag
  BY <1>2 DEF GapInv, Busy
<1>. QED
  BY <1>6, <1>7, <1>8 DEF GapInv

LEMMA GapClaims ==
    ASSUME IInv, CallsInv, Undisturbed, GapInv, NEW c \in Clients, Moves(c), Claims(c)
    PROVE  GapInv'
<1>1. c \in Workers
  BY DEF Claims
<1>2. PICK j \in Jobs :
        /\ jobs[j].status = "queued"
        /\ jobs' = [jobs EXCEPT ![j] = Claimed(jobs[j], c)]
        /\ gapRows' = gapRows /\ txn' = txn /\ Quiet(c)
        /\ run' = [run EXCEPT ![c] = [Resting EXCEPT !.phase = "claimed", !.job = j]]
  BY <1>1, ClaimEffect DEF Claims
<1>3. Claimed(jobs[j], c).gap = jobs[j].gap /\ jobs \in [Jobs -> Record] /\ run \in [Workers -> Run]
  BY ClaimedFields DEF IInv, TypeOK
<1>4. GapEvidenceKept'
  BY <1>2, <1>3 DEF GapInv, GapEvidenceKept, IInv, TypeOK
<1>5. ASSUME NEW w \in Workers, run'[w].phase = "closing", jobs'[run'[w].job].gap
      PROVE  run'[w].gap
  <2>1. w # c /\ run'[w] = run[w]
    BY <1>1, <1>2, <1>3, <1>5 DEF Resting
  <2>2. run[w].job \in Jobs /\ run[w].job # j
    BY <1>2, <1>5, <2>1, ClosingApart DEF IInv, WellFormedRun
  <2>. QED
    BY <1>2, <1>3, <1>5, <2>1, <2>2 DEF GapInv
<1>. QED
  BY <1>2, <1>4, <1>5 DEF GapInv

LEMMA GapRests ==
    ASSUME IInv, GapInv, NEW c \in Clients, Moves(c), Rests(c)
    PROVE  GapInv'
<1>1. UNCHANGED tables
  BY DEF Rests
<1>2. \A d \in Clients : txn'[d] = txn[d] \/ txn'[d].op = "none"
  BY DEF Moves, Apart, Rests, NoTxn
<1>3. ASSUME NEW w \in Workers, run'[w].phase = "closing", jobs'[run'[w].job].gap
      PROVE  run'[w].gap
  <2>1. CASE run'[w] = run[w]
    BY <1>1, <1>3, <2>1 DEF GapInv, tables
  <2>2. CASE run'[w] # run[w]
    <3>. DEFINE gap == run[w].gap \/ jobs[run[w].job].gap
    <3>1. w = c /\ run[w] \in Run
      BY <2>2 DEF Moves, Apart, IInv, TypeOK, Clients
    <3>2. \/ run'[w] = Resting
          \/ run'[w] = [run[w] EXCEPT !.phase = "failing"]
          \/ run'[w] = [run[w] EXCEPT !.phase = "closing", !.gap = gap]
      BY <2>2, <3>1 DEF Rests
    <3>. HIDE DEF gap
    <3>3. run'[w] = [run[w] EXCEPT !.phase = "closing", !.gap = gap]
      BY <1>3, <3>1, <3>2 DEF Resting, Run
    <3>4. run'[w].gap = gap /\ run'[w].job = run[w].job
      BY <3>1, <3>3 DEF Run
    <3>. QED
      BY <1>1, <1>3, <3>4 DEF gap, tables
  <2>. QED
    BY <2>1, <2>2
<1>. QED
  BY <1>1, <1>2, <1>3 DEF GapInv, GapEvidenceKept, tables

LEMMA GapNext ==
    ASSUME Undisturbed, IInv, CallsInv, GapInv, [Next]_vars
    PROVE  GapInv'
<1>1. ASSUME NEW c \in Clients, Moves(c) PROVE GapInv'
  BY <1>1, GapReads, GapWrites, GapClaims, GapRests DEF Moves
<1>2. ASSUME NEW j \in Jobs, HeartbeatAges(j) PROVE GapInv'
  <2>1. \A w \in Workers : run[w].phase = "closing" => run[w].job \in Jobs
    BY DEF IInv, WellFormedRun
  <2>2. gapRows \subseteq Jobs
    BY DEF IInv, TypeOK
  <2>. QED
    BY <1>2, <2>1, <2>2, AgeEffect DEF GapInv, GapEvidenceKept, Agree
<1>3. CASE UNCHANGED vars
  BY <1>3 DEF vars, GapInv, GapEvidenceKept
<1>. QED
  BY <1>1, <1>2, <1>3, StepKinds DEF CallsInv

\* No gap record is orphaned: record_gap writes the job's row and the gap row
\* together, and succeed_job, which writes gap ids it loaded before its own
\* read, loaded all there are.
THEOREM GapEvidenceIsKept ==
    ASSUME Undisturbed
    PROVE  Spec => []GapEvidenceKept
<1>1. Init => GapInv
  <2>1. NoTxn.op = "none" /\ Resting.phase = "idle"
    BY DEF NoTxn, Resting
  <2>. QED
    BY <2>1 DEF Init, GapInv, GapEvidenceKept
<1>2. IInv /\ CallsInv /\ GapInv /\ [Next]_vars => GapInv'
  BY GapNext
<1>3. GapInv => GapEvidenceKept
  BY DEF GapInv
<1>. QED
  BY <1>1, <1>2, <1>3, CallsInvariance, PTL DEF Spec

-----------------------------------------------------------------------------
(* The spec a worker runs.                                                 *)

OwnedRow(r) ==
    /\ r.status \in {"absent", "queued"} => r.owner = None
    /\ r.status \in Live => r.owner # None

\* Whoever commits: the row keeps its owner in step with its status, and its
\* bound as long as somebody owns it before and after.
LEMMA OwnedWrite ==
    ASSUME IInv, CallsInv, NEW c \in Clients, Write(c), OwnedRow(jobs[txn[c].job])
    PROVE  LET row == jobs[txn[c].job]
               new == Written(txn[c], c) IN
           /\ OwnedRow(new)
           /\ new.owner # None => row.owner # None /\ new.bound = row.bound
<1>. DEFINE t == txn[c]
            row == jobs[t.job]
            new == Written(t, c)
<1>1. t \in Txn /\ t.op # "none" /\ t.cur.status \in AllowedFrom(t.op)
  BY WriteEffect DEF Busy
<1>2. /\ t.op \notin {"enqueue", "update"} => new.bound = row.bound
      /\ Agree(t.cur, row)
      /\ t.op = "update" => row.status = "queued"
      /\ t.op = "enqueue" => new.owner = None
  BY WriteOverRow DEF AllowedFrom, UpdateFrom
<1>3. \/ new.owner = c /\ t.cur.status \in Live /\ new.status \in Live
         /\ t.op \in {"start", "heartbeat"}
      \/ new.owner = None /\ new.status = "queued"
      \/ new.owner = t.cur.owner /\ new.status = t.cur.status
      \/ new.owner = t.cur.owner /\ new.status \notin Live \cup {"queued", "absent"}
  BY <1>1, WrittenOwner
<1>. HIDE DEF new
<1>4. OwnedRow(new)
  BY <1>2, <1>3, ClientsAssumption DEF OwnedRow, Agree, Live
<1>5. new.owner # None => row.owner # None /\ new.bound = row.bound
  BY <1>2, <1>3, ClientsAssumption DEF OwnedRow, Agree, Live
<1>. QED
  BY <1>4, <1>5 DEF new

\* The attempt a worker started against its row.
SameAttempt(r, row) ==
    /\ r.attempts =< row.attempts
    /\ row.attempts = r.attempts /\ row.owner # None => r.bound = row.bound

InRun == {"started", "working", "closing"}

SpecInv ==
    /\ \A j \in Jobs : OwnedRow(jobs[j])
    /\ \A w \in Workers : run[w].phase \in InRun => SameAttempt(run[w], jobs[run[w].job])

LEMMA SpecWrites ==
    ASSUME IInv, CallsInv, SpecInv, NEW c \in Clients, Moves(c), Writes(c)
    PROVE  SpecInv'
<1>. DEFINE t == txn[c]
            row == jobs[t.job]
            new == Written(t, c)
<1>1. Write(c)
  BY DEF Writes
<1>2. /\ t \in Txn /\ Busy(c) /\ t.job \in Jobs /\ jobs'[t.job] = new
      /\ \A j \in Jobs \ {t.job} : jobs'[j] = jobs[j]
      /\ t.cur.status \in AllowedFrom(t.op)
  BY <1>1, WriteEffect
<1>3. OwnedRow(new) /\ (new.owner # None => row.owner # None /\ new.bound = row.bound)
  BY <1>1, <1>2, OwnedWrite DEF SpecInv
<1>4. new.attempts = row.attempts /\ Agree(t.cur, row)
  BY <1>1, WriteOverRow
<1>. HIDE DEF new
<1>5. \A j \in Jobs : OwnedRow(jobs'[j])
  BY <1>2, <1>3 DEF SpecInv
<1>6. ASSUME NEW r, NEW j \in Jobs, SameAttempt(r, jobs[j]) PROVE SameAttempt(r, jobs'[j])
  BY <1>2, <1>3, <1>4, <1>6 DEF SameAttempt
<1>7. ASSUME NEW w \in Workers, run'[w].phase \in InRun
      PROVE  SameAttempt(run'[w], jobs'[run'[w].job])
  <2>1. CASE w # c
    <3>1. run'[w] = run[w]
      BY <2>1 DEF Moves, Apart, Clients
    <3>2. run[w].job \in Jobs
      BY <1>7, <3>1 DEF IInv, WellFormedRun, InRun
    <3>. QED
      BY <1>6, <1>7, <3>1, <3>2 DEF SpecInv
  <2>2. CASE w = c
    <3>1. Commit(c) /\ run \in [Workers -> Run] /\ run[c] \in Run
      BY <2>2 DEF Writes, IInv, TypeOK
    <3>2. t.job = run[c].job
      BY <1>2, <2>2 DEF CallsInv, OnItsJob
    <3>3. CASE t.op = "start"
      <4>1. run' = [run EXCEPT ![c].phase = "started",
                               ![c].attempts = t.cur.attempts, ![c].bound = t.cur.bound]
        BY <3>1, <3>3 DEF Commit
      <4>2. /\ run'[c].job = run[c].job
            /\ run'[c].attempts = t.cur.attempts /\ run'[c].bound = t.cur.bound
        BY <2>2, <3>1, <4>1 DEF Run
      <4>3. row.attempts \in Nat
        BY <1>2 DEF IInv, TypeOK, Record
      <4>. QED
        BY <1>2, <1>3, <1>4, <2>2, <3>2, <4>2, <4>3 DEF SameAttempt, Agree
    <3>4. CASE t.op = "heartbeat"
      <4>1. run' = [run EXCEPT ![c].phase = "working"]
        BY <3>1, <3>4 DEF Commit
      <4>2. /\ run'[c].job = run[c].job
            /\ run'[c].attempts = run[c].attempts /\ run'[c].bound = run[c].bound
        BY <2>2, <3>1, <4>1 DEF Run
      <4>3. run[c].phase \in InRun
        BY <2>2, <3>4 DEF CallsInv, OnItsJob, InRun
      <4>4. SameAttempt(run[c], jobs'[t.job])
        BY <1>2, <1>6, <2>2, <3>2, <4>3 DEF SpecInv
      <4>. QED
        BY <2>2, <3>2, <4>2, <4>4 DEF SameAttempt
    <3>5. CASE t.op = "gap"
      <4>1. run' = [run EXCEPT ![c].gap = TRUE]
        BY <3>1, <3>5 DEF Commit
      <4>2. /\ run'[c].job = run[c].job /\ run'[c].phase = run[c].phase
            /\ run'[c].attempts = run[c].attempts /\ run'[c].bound = run[c].bound
        BY <2>2, <3>1, <4>1 DEF Run
      <4>3. SameAttempt(run[c], jobs'[t.job])
        BY <1>2, <1>6, <1>7, <2>2, <3>2, <4>2 DEF SpecInv
      <4>. QED
        BY <2>2, <3>2, <4>2, <4>3 DEF SameAttempt
    <3>6. CASE t.op \in {"succeed", "fail"}
      BY <1>7, <2>2, <3>1, <3>6 DEF Commit, Resting, InRun
    <3>. QED
      BY <3>1, <3>3, <3>4, <3>5, <3>6 DEF Commit
  <2>. QED
    BY <2>1, <2>2
<1>. QED
  BY <1>5, <1>7 DEF SpecInv

LEMMA SpecClaims ==
    ASSUME IInv, SpecInv, NEW c \in Clients, Moves(c), Claims(c)
    PROVE  SpecInv'
<1>1. c \in Workers
  BY DEF Claims
<1>2. PICK j \in Jobs :
        /\ jobs' = [jobs EXCEPT ![j] = Claimed(jobs[j], c)]
        /\ run' = [run EXCEPT ![c] = [Resting EXCEPT !.phase = "claimed", !.job = j]]
  BY <1>1, ClaimEffect DEF Claims
<1>3. /\ Claimed(jobs[j], c).status = "claimed" /\ Claimed(jobs[j], c).owner = c
      /\ Claimed(jobs[j], c).attempts = jobs[j].attempts + 1
      /\ jobs \in [Jobs -> Record] /\ run \in [Workers -> Run] /\ jobs[j].attempts \in Nat
  BY ClaimedFields DEF IInv, TypeOK, Record
<1>4. \A i \in Jobs : OwnedRow(jobs'[i])
  BY <1>2, <1>3, ClientsAssumption DEF SpecInv, OwnedRow, Live
<1>5. ASSUME NEW w \in Workers, run'[w].phase \in InRun
      PROVE  SameAttempt(run'[w], jobs'[run'[w].job])
  <2>1. w # c /\ run'[w] = run[w]
    BY <1>1, <1>2, <1>3, <1>5 DEF Resting, InRun
  <2>2. run[w].job \in Jobs /\ run[w].attempts \in Nat
    BY <1>5, <2>1, <1>3 DEF IInv, WellFormedRun, InRun, Run
  <2>3. SameAttempt(run[w], jobs[run[w].job])
    BY <1>5, <2>1 DEF SpecInv
  <2>4. CASE run[w].job = j
    BY <1>2, <1>3, <2>1, <2>2, <2>3, <2>4 DEF SameAttempt
  <2>5. CASE run[w].job # j
    BY <1>2, <1>3, <2>1, <2>2, <2>3, <2>5
  <2>. QED
    BY <2>4, <2>5
<1>. QED
  BY <1>4, <1>5 DEF SpecInv

LEMMA SpecRests ==
    ASSUME IInv, SpecInv, NEW c \in Clients, Moves(c), Reads(c) \/ Rests(c)
    PROVE  SpecInv'
<1>1. UNCHANGED tables
  BY ReadEffect DEF Reads, Rests
<1>2. ASSUME NEW w \in Workers, run'[w].phase \in InRun
      PROVE  SameAttempt(run'[w], jobs[run'[w].job])
  <2>1. CASE run'[w] = run[w]
    BY <1>2, <2>1 DEF SpecInv
  <2>2. CASE run'[w] # run[w]
    <3>. DEFINE gap == run[w].gap \/ jobs[run[w].job].gap
    <3>1. w = c /\ run[w] \in Run /\ Rests(c)
      BY <2>2 DEF Moves, Apart, IInv, TypeOK, Clients, Reads
    <3>2. \/ run'[w] = Resting
          \/ run'[w] = [run[w] EXCEPT !.phase = "failing"]
          \/ run'[w] = [run[w] EXCEPT !.phase = "closing", !.gap = gap]
             /\ run[w].phase = "working"
      BY <2>2, <3>1 DEF Rests
    <3>. HIDE DEF gap
    <3>3. run'[w] = [run[w] EXCEPT !.phase = "closing", !.gap = gap] /\ run[w].phase = "working"
      BY <1>2, <3>1, <3>2 DEF Resting, Run, InRun
    <3>4. /\ run'[w].job = run[w].job
          /\ run'[w].attempts = run[w].attempts /\ run'[w].bound = run[w].bound
      BY <3>1, <3>3 DEF Run
    <3>. QED
      BY <3>3, <3>4 DEF SpecInv, InRun, SameAttempt
  <2>. QED
    BY <2>1, <2>2
<1>. QED
  BY <1>1, <1>2 DEF SpecInv, tables

LEMMA SpecNext ==
    ASSUME IInv, CallsInv, SpecInv, [Next]_vars
    PROVE  SpecInv'
<1>1. ASSUME NEW c \in Clients, Moves(c) PROVE SpecInv'
  BY <1>1, SpecWrites, SpecClaims, SpecRests DEF Moves
<1>2. ASSUME NEW j \in Jobs, HeartbeatAges(j) PROVE SpecInv'
  <2>1. \A w \in Workers : run[w].phase \in InRun => run[w].job \in Jobs
    BY DEF IInv, WellFormedRun, InRun
  <2>. QED
    BY <1>2, <2>1, AgeEffect DEF SpecInv, OwnedRow, SameAttempt, Agree
<1>3. CASE UNCHANGED vars
  BY <1>3 DEF vars, SpecInv
<1>. QED
  BY <1>1, <1>2, <1>3, StepKinds DEF CallsInv

\* A worker that owns its job executes the input_spec the row records: only
\* update_queued_input_spec changes a spec, only of a queued row, and a row
\* that was queued again and claimed since counts another attempt.
THEOREM WorkersRunRecordedSpec ==
    ASSUME Undisturbed
    PROVE  Spec => []RunsRecordedSpec
<1>1. Init => SpecInv
  <2>1. NoRow.status = "absent" /\ NoRow.owner = None /\ Resting.phase = "idle"
    BY DEF NoRow, Resting
  <2>. QED
    BY <2>1 DEF Init, SpecInv, OwnedRow, InRun, Live
<1>2. IInv /\ CallsInv /\ SpecInv /\ [Next]_vars => SpecInv'
  BY SpecNext
<1>3. SpecInv => RunsRecordedSpec
  <2>1. \A w \in Workers : w # None
    BY ClientsAssumption DEF Clients
  <2>. QED
    BY <2>1 DEF SpecInv, RunsRecordedSpec, InRun, SameAttempt
<1>. QED
  BY <1>1, <1>2, <1>3, CallsInvariance, PTL DEF Spec

-----------------------------------------------------------------------------
(* The life of a row: what JobLifecycle promises.                          *)

rowStatus == [j \in Jobs |-> jobs[j].status]
rowAttempts == [j \in Jobs |-> jobs[j].attempts]

\* Replacing one row replaces one status and one counter.
LEMMA RowMapped ==
    ASSUME IInv, NEW i \in Jobs, NEW new, jobs' = [jobs EXCEPT ![i] = new]
    PROVE  /\ rowStatus' = [rowStatus EXCEPT ![i] = new.status]
           /\ rowAttempts' = [rowAttempts EXCEPT ![i] = new.attempts]
BY DEF rowStatus, rowAttempts, IInv, TypeOK

\* A counter that is written as it was is the counter it was.
LEMMA AttemptsKept ==
    ASSUME NEW i \in Jobs, NEW new, new.attempts = jobs[i].attempts,
           rowAttempts' = [rowAttempts EXCEPT ![i] = new.attempts]
    PROVE  rowAttempts' = rowAttempts
BY DEF rowAttempts

LEMMA WrittenStatus ==
    ASSUME NEW t \in Txn, NEW c \in Clients, t.op # "none",
           t.cur.status \in AllowedFrom(t.op)
    PROVE  /\ t.op = "enqueue" => Written(t, c).status = "queued"
           /\ t.op \in {"update", "heartbeat", "gap"} => Written(t, c).status = t.cur.status
           /\ t.op = "start" => Written(t, c).status = "running"
           /\ t.op = "succeed" => Written(t, c).status = "succeeded"
           /\ t.op = "fail" =>
                  \/ Written(t, c).status = "failed"
                  \/ Written(t, c).status = "queued" /\ t.cur.attempts < MaxAttempts
           /\ t.op = "retry" => Written(t, c).status = "queued"
           /\ t.op = "cancel" => Written(t, c).status = "cancelled"
           /\ t.op = "stale" => Written(t, c).status = "stale"
<1>1. t.cur \in Record /\ t.op \in Ops
  BY DEF Txn
<1>2. t.op = "enqueue" => Written(t, c).status = "queued"
  BY <1>1 DEF Written, Record, Enqueued, NoRow
<1>3. t.op \in {"update", "heartbeat", "gap"} => Written(t, c).status = t.cur.status
  BY <1>1 DEF Written, Record, Respecified, Beaten, Gapped
<1>4. t.op = "start" => Written(t, c).status = "running"
  BY <1>1 DEF Written, Record, Started
<1>5. t.op = "succeed" => Written(t, c).status = "succeeded"
  BY <1>1 DEF Written, Record, Succeeded
<1>6. t.op = "fail" =>
                  \/ Written(t, c).status = "failed"
                  \/ Written(t, c).status = "queued" /\ t.cur.attempts < MaxAttempts
  BY <1>1 DEF Written, Record, Failed, Requeued
<1>7. t.op = "retry" => Written(t, c).status = "queued"
  BY <1>1 DEF Written, Record, Retried, Requeued
<1>8. t.op = "cancel" => Written(t, c).status = "cancelled"
  BY <1>1 DEF Written, Record, Cancelled
<1>9. t.op = "stale" => Written(t, c).status = "stale"
  BY <1>1 DEF Written, Record, Staled
<1>. QED
  BY <1>2, <1>3, <1>4, <1>5, <1>6, <1>7, <1>8, <1>9

LEMMA CommitIsLifecycle ==
    ASSUME IInv, CallsInv, NEW c \in Clients, Write(c)
    PROVE  Lifecycle!Next \/ UNCHANGED <<rowStatus, rowAttempts>>
<1>. DEFINE t == txn[c]
            i == t.job
            new == Written(t, c)
<1>1. /\ t \in Txn /\ t.op # "none" /\ t.op \in Ops /\ i \in Jobs
      /\ t.cur.status \in AllowedFrom(t.op)
      /\ jobs' = [jobs EXCEPT ![i] = new]
  BY WriteEffect DEF Busy, Txn
<1>2. /\ Agree(t.cur, jobs[i]) /\ jobs[i].status \in AllowedFrom(t.op)
      /\ new.attempts = jobs[i].attempts
  BY WriteOverRow
<1>3. /\ rowStatus' = [rowStatus EXCEPT ![i] = new.status]
      /\ rowAttempts' = rowAttempts
  <2>1. /\ rowStatus' = [rowStatus EXCEPT ![i] = new.status]
        /\ rowAttempts' = [rowAttempts EXCEPT ![i] = new.attempts]
    BY <1>1, RowMapped
  <2>. QED
    BY <1>1, <1>2, <2>1, AttemptsKept
<1>4. rowStatus[i] = jobs[i].status /\ rowAttempts[i] = jobs[i].attempts
  BY <1>1 DEF rowStatus, rowAttempts
<1>5. t.op \in {"retry", "cancel", "stale"} => t.op \in Commands
  <2>1. ASSUME c \in Workers PROVE t.op \in WorkerOps
    BY <1>1, <2>1 DEF IInv, WellFormedRun
  <2>. QED
    BY <1>1, <2>1 DEF CallsInv, InUse, Busy, Clients, WorkerOps
<1>6. /\ t.op = "enqueue" => new.status = "queued"
      /\ t.op \in {"update", "heartbeat", "gap"} => new.status = t.cur.status
      /\ t.op = "start" => new.status = "running"
      /\ t.op = "succeed" => new.status = "succeeded"
      /\ t.op = "fail" =>
                  \/ new.status = "failed"
                  \/ new.status = "queued" /\ t.cur.attempts < MaxAttempts
      /\ t.op = "retry" => new.status = "queued"
      /\ t.op = "cancel" => new.status = "cancelled"
      /\ t.op = "stale" => new.status = "stale"
  BY <1>1, WrittenStatus
<1>. HIDE DEF new, t, i
<1>. USE <1>1, <1>2, <1>3, <1>4, <1>6
     DEF rowStatus, rowAttempts, Lifecycle!Next, Lifecycle!Moves, AllowedFrom
<1>7. CASE t.op = "enqueue"
  BY <1>7 DEF Lifecycle!Enqueue
<1>8. CASE t.op \in {"update", "heartbeat", "gap"}
  BY <1>8 DEF Agree
<1>9. CASE t.op = "start"
  BY <1>9 DEF Lifecycle!Start
<1>10. CASE t.op = "succeed"
  BY <1>10 DEF Lifecycle!Succeed, Live
<1>11. CASE t.op = "fail"
  BY <1>11 DEF Lifecycle!Fail, Lifecycle!Requeue, FailFrom, Statuses, TERMINAL_STATUSES,
               Lifecycle!Statuses, Lifecycle!TERMINAL_STATUSES, Agree
<1>12. CASE t.op = "retry"
  BY <1>5, <1>12 DEF Lifecycle!Retry, RetryFrom
<1>13. CASE t.op = "cancel"
  BY <1>5, <1>13 DEF Lifecycle!Cancel, CancelFrom, Live
<1>14. CASE t.op = "stale"
  BY <1>5, <1>14 DEF Lifecycle!MarkStale, StaleFrom, Live
<1>. QED
  BY <1>7, <1>8, <1>9, <1>10, <1>11, <1>12, <1>13, <1>14 DEF Ops

LEMMA ClaimIsLifecycle ==
    ASSUME IInv, NEW w \in Workers, ClaimNext(w)
    PROVE  Lifecycle!Next
<1>1. PICK i \in Jobs : /\ jobs[i].status = "queued"
                        /\ jobs' = [jobs EXCEPT ![i] = Claimed(jobs[i], w)]
  BY ClaimEffect
<1>. DEFINE new == Claimed(jobs[i], w)
<1>2. new.status = "claimed" /\ new.attempts = jobs[i].attempts + 1
  BY ClaimedFields DEF IInv, TypeOK, Clients
<1>3. /\ rowStatus' = [rowStatus EXCEPT ![i] = new.status]
      /\ rowAttempts' = [rowAttempts EXCEPT ![i] = new.attempts]
  BY <1>1, RowMapped
<1>. HIDE DEF new
<1>4. Lifecycle!Claim(i)
  BY <1>1, <1>2, <1>3 DEF Lifecycle!Claim, Lifecycle!Moves, rowStatus, rowAttempts
<1>. QED
  BY <1>4 DEF Lifecycle!Next

LEMMA StepIsLifecycle ==
    ASSUME IInv, CallsInv, [Next]_vars
    PROVE  Lifecycle!Next \/ UNCHANGED <<rowStatus, rowAttempts>>
<1>1. ASSUME NEW c \in Clients, Moves(c)
      PROVE  Lifecycle!Next \/ UNCHANGED <<rowStatus, rowAttempts>>
  <2>1. CASE Reads(c) \/ Rests(c)
    <3>1. UNCHANGED tables
      BY <2>1, ReadEffect DEF Reads, Rests
    <3>. QED
      BY <3>1 DEF tables, rowStatus, rowAttempts
  <2>2. CASE Writes(c)
    BY <2>2, CommitIsLifecycle DEF Writes
  <2>3. CASE Claims(c)
    BY <2>3, ClaimIsLifecycle DEF Claims
  <2>. QED
    BY <1>1, <2>1, <2>2, <2>3 DEF Moves
<1>2. ASSUME NEW j \in Jobs, HeartbeatAges(j)
      PROVE  UNCHANGED <<rowStatus, rowAttempts>>
  BY <1>2, AgeEffect DEF rowStatus, rowAttempts, Agree
<1>3. CASE UNCHANGED vars
  BY <1>3 DEF vars, rowStatus, rowAttempts
<1>. QED
  BY <1>1, <1>2, <1>3, StepKinds DEF CallsInv

\* The job store implements the life of a job that JobLifecycle promises to
\* every reader of a row: each commit and each claim is one step of it, reads,
\* heartbeats, gap records, spec updates, crashes and the runner's own steps
\* are none.
THEOREM StoreImplementsLifecycle ==
    ASSUME Undisturbed
    PROVE  Spec => ImplementsLifecycle
<1>1. Init => Lifecycle!Init
  <2>1. NoRow.status = "absent" /\ NoRow.attempts = 0
    BY DEF NoRow
  <2>. QED
    BY <2>1 DEF Init, Lifecycle!Init
<1>2. IInv /\ CallsInv /\ [Next]_vars => [Lifecycle!Next]_(Lifecycle!vars)
  BY StepIsLifecycle DEF Lifecycle!vars, rowStatus, rowAttempts
<1>. QED
  BY <1>1, <1>2, CallsInvariance, PTL DEF Spec, ImplementsLifecycle, Lifecycle!Spec
=============================================================================
