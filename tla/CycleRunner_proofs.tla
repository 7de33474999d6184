-------------------------- MODULE CycleRunner_proofs --------------------------
(***************************************************************************)
(* Theorems about CycleRunner, for any jobs, plan, bindings, other workers *)
(* and bounds: types, and what an execution may be reported complete on.   *)
(***************************************************************************)
EXTENDS CycleRunner, TLAPS

LEMMA PlanFacts ==
    /\ Len(Plan) \in Nat \ {0}
    /\ \A i \in Places : Plan[i] \in Jobs
    /\ Planned \subseteq Jobs /\ Audit \in Planned /\ Len(Plan) \in Places
    /\ Targets \subseteq Jobs
    /\ \A j \in Targets : SourceOf[j] \in Jobs
    /\ None \notin Jobs
<1>1. Len(Plan) \in Nat \ {0} /\ \A i \in Places : Plan[i] \in Jobs
  BY PlanAssumption DEF Places
<1>2. Planned \subseteq Jobs /\ Audit \in Planned /\ Len(Plan) \in Places
  BY <1>1 DEF Planned, Audit, Places
<1>. QED
  BY <1>1, <1>2, BindingsAssumption, CycleJobsAssumption

LEMMA AdvancedType ==
    ASSUME exec \in Execution, exec.at \in Places
    PROVE  /\ Advanced \in Execution
           /\ Advanced.at = exec.at + 1 /\ Advanced.mine = None /\ ~Advanced.ok
           /\ \/ Advanced.phase = "write" /\ exec.at = Len(Plan)
              \/ Advanced.phase = "look" /\ Advanced.at \in Places
           /\ Advanced.blocked = exec.blocked /\ Advanced.blockers = exec.blockers
           /\ Advanced.left = exec.left
<1>. DEFINE p == IF exec.at = Len(Plan) THEN "write" ELSE "look"
<1>1. exec.at + 1 \in Nat /\ p \in Phases
  BY PlanFacts DEF Places, Phases
<1>2. exec.at # Len(Plan) => exec.at + 1 \in Places
  BY PlanFacts DEF Places
<1>3. Advanced = [exec EXCEPT !.phase = p, !.at = exec.at + 1, !.mine = None, !.ok = FALSE]
  BY DEF Advanced
<1>4. \/ p = "write" /\ exec.at = Len(Plan)
      \/ p = "look" /\ exec.at # Len(Plan)
  OBVIOUS
<1>. HIDE DEF p
<1>5. /\ Advanced \in Execution /\ Advanced.phase = p /\ Advanced.at = exec.at + 1
      /\ Advanced.mine = None /\ ~Advanced.ok
      /\ Advanced.blocked = exec.blocked /\ Advanced.blockers = exec.blockers
      /\ Advanced.left = exec.left
  BY <1>1, <1>3 DEF Execution
<1>. QED
  BY <1>2, <1>4, <1>5

\* The part of the type that is about the runner's call.
ExecType ==
    /\ exec \in Execution
    /\ exec.phase \notin {"idle", "write"} => exec.at \in Places
    /\ exec.phase \in {"start", "heartbeat", "work", "succeed", "fail"} => exec.mine \in Jobs
    /\ exec.phase \in {"look", "next", "bind", "update", "claim"} => exec.mine = None
    /\ exec.phase \in {"bind", "update"} => Job \in Targets
    /\ exec.phase \notin {"idle", "look", "write"} => exec.left # 0

\* The part that is about the store and the audit report.
StoreType ==
    /\ status \in [Jobs -> Statuses \cup {"absent"}]
    /\ attempts \in [Jobs -> Nat]
    /\ bound \in SUBSET Targets
    /\ refs \in [Jobs -> {"none", "one", "many"}]

\* The files and the other processes.
FilesType ==
    /\ plan \in {"none", "planned", "enqueued"}
    /\ report \in {"none", "pass", "blockers"}
    /\ execution \in {"none", "completed", "completed_with_blockers"}

OthersType ==
    /\ planner \in 0 .. Len(Plan) + 1
    /\ pool \in SUBSET Jobs
    /\ used \in [commands : Nat, plans : Nat, executions : Nat, crashes : Nat]

Types == StoreType /\ ExecType /\ FilesType /\ OthersType

LEMMA StoreMoves ==
    ASSUME StoreType, NEW j \in Jobs
    PROVE  /\ Insert(j) => StoreType'
           /\ \A k : Claim(k, j) => StoreType'
           /\ Succeed(j) => StoreType'
           /\ Fail(j) => StoreType'
           /\ (Becomes(j, "running") /\ UNCHANGED <<attempts, bound, refs>>) => StoreType'
           /\ (Becomes(j, "cancelled") /\ UNCHANGED <<attempts, bound, refs>>) => StoreType'
           /\ (Becomes(j, "queued") /\ UNCHANGED <<attempts, bound, refs>>) => StoreType'
           /\ (Becomes(j, "stale") /\ UNCHANGED <<attempts, bound, refs>>) => StoreType'
<1>1. Insert(j) => StoreType'
  BY DEF StoreType, Insert, Becomes, Statuses
<1>2. ASSUME NEW k, Claim(k, j) PROVE StoreType'
  BY <1>2 DEF StoreType, Claim, Becomes, Statuses
<1>3. Succeed(j) => StoreType'
  BY DEF StoreType, Succeed, Becomes, Statuses
<1>4. Fail(j) => StoreType'
  BY DEF StoreType, Fail, Becomes, Statuses
<1>5. ASSUME NEW s \in Statuses, Becomes(j, s), UNCHANGED <<attempts, bound, refs>> PROVE StoreType'
  BY <1>5 DEF StoreType, Becomes
<1>. QED
  BY <1>1, <1>2, <1>3, <1>4, <1>5 DEF Statuses

LEMMA NoExecutionType ==
    /\ NoExecution \in Execution /\ NoExecution.phase = "idle"
BY DEF NoExecution, Execution, Phases

LEMMA TurnsTypes ==
    ASSUME ExecType,
           NEW phase \in Phases \ {"idle", "write"},
           exec.phase \notin {"idle", "write"}, Turns(phase),
           phase \in {"start", "heartbeat", "work", "succeed", "fail"} => exec.mine \in Jobs,
           phase \in {"look", "next", "bind", "update", "claim"} => exec.mine = None,
           phase \in {"bind", "update"} => Job \in Targets,
           phase # "look" => exec.left # 0
    PROVE  ExecType'
BY DEF ExecType, Turns, Execution, Job

LEMMA OtherTypes ==
    ASSUME ExecType
    PROVE  /\ Aborts => ExecType'
           /\ (exec.phase \notin {"idle", "write"} /\ Skips) => ExecType'
           /\ (exec.phase \notin {"idle", "write"} /\ Blocks) => ExecType'
           /\ UNCHANGED exec => ExecType'
<1>1. Aborts => ExecType'
  BY NoExecutionType DEF Aborts, ExecType
<1>2. (exec.phase \notin {"idle", "write"} /\ Skips) => ExecType'
  BY AdvancedType DEF Skips, ExecType
<1>3. (exec.phase \notin {"idle", "write"} /\ Blocks) => ExecType'
  <2>. SUFFICES ASSUME exec.phase \notin {"idle", "write"}, Blocks PROVE ExecType'
    OBVIOUS
  <2>. DEFINE adv == Advanced
  <2>1. /\ adv \in Execution /\ adv.phase \in {"look", "write"}
        /\ adv.phase = "look" => adv.at \in Places
        /\ adv.mine = None
    BY AdvancedType DEF ExecType
  <2>2. exec' = [adv EXCEPT !.blockers = TRUE, !.blocked = @ \/ Job # Audit]
    BY DEF Blocks
  <2>. HIDE DEF adv
  <2>. QED
    BY <2>1, <2>2 DEF ExecType, Execution
<1>. QED
  BY <1>1, <1>2, <1>3 DEF ExecType, Job

\* The call of run_one_job: it has a job, and it is over.
LEMMA EndedTypes ==
    ASSUME exec \in Execution, exec.at \in Places, exec.left # 0,
           NEW j \in Jobs, NEW ok \in BOOLEAN
    PROVE  /\ exec' = [exec EXCEPT !.phase = "start", !.mine = j] => ExecType'
           /\ exec' = [exec EXCEPT !.phase = "after", !.ok = ok] => ExecType'
<1>1. "start" \in Phases /\ "after" \in Phases
  BY DEF Phases
<1>. QED
  BY <1>1 DEF ExecType, Execution

LEMMA ReportTypes ==
    ASSUME ExecType, exec.phase = "after"
    PROVE  /\ exec' = [Advanced EXCEPT !.left = @ - 1] => ExecType'
           /\ exec' = [Advanced EXCEPT !.left = @ - 1, !.blockers = TRUE,
                                      !.blocked = @ \/ Job # Audit] => ExecType'
<1>. DEFINE adv == Advanced
<1>1. /\ adv \in Execution /\ adv.phase \in {"look", "write"}
      /\ adv.phase = "look" => adv.at \in Places
      /\ adv.mine = None /\ adv.left # 0
  BY AdvancedType DEF ExecType
<1>2. adv.left - 1 \in Nat
  BY <1>1 DEF Execution
<1>. HIDE DEF adv
<1>3. ASSUME exec' = [adv EXCEPT !.left = @ - 1] PROVE ExecType'
  BY <1>1, <1>2, <1>3 DEF ExecType, Execution, Job
<1>4. ASSUME exec' = [adv EXCEPT !.left = @ - 1, !.blockers = TRUE, !.blocked = @ \/ Job # Audit]
      PROVE  ExecType'
  BY <1>1, <1>2, <1>4 DEF ExecType, Execution
<1>. QED
  BY <1>3, <1>4 DEF adv

LEMMA PlannerTypes == Types /\ PlannerStep => Types'
<1>. SUFFICES ASSUME Types, PlannerStep PROVE Types'
  OBVIOUS
<1>1. ASSUME DryPlan PROVE Types'
  <2>1. OthersType'
    BY <1>1 DEF DryPlan, Types, OthersType
  <2>2. FilesType'
    BY <1>1 DEF DryPlan, Types, FilesType
  <2>3. StoreType' /\ ExecType'
    BY <1>1, OtherTypes DEF DryPlan, Types, StoreType, store
  <2>. QED
    BY <2>1, <2>2, <2>3 DEF Types
<1>2. ASSUME BeginEnqueue PROVE Types'
  BY <1>2, OtherTypes, PlanFacts
     DEF BeginEnqueue, Types, FilesType, OthersType, StoreType, store, disk
<1>3. ASSUME EnqueueNext PROVE Types'
  <2>1. Plan[planner] \in Jobs /\ planner + 1 \in 0 .. Len(Plan) + 1
    BY <1>3, PlanFacts DEF EnqueueNext, Places
  <2>2. StoreType'
    BY <1>3, <2>1, StoreMoves DEF EnqueueNext, Types
  <2>. QED
    BY <1>3, <2>1, <2>2, OtherTypes DEF EnqueueNext, Types, FilesType, OthersType, disk
<1>4. ASSUME WritePlan PROVE Types'
  BY <1>4, OtherTypes, PlanFacts
     DEF WritePlan, Types, FilesType, OthersType, StoreType, store
<1>. QED
  BY <1>1, <1>2, <1>3, <1>4 DEF PlannerStep

\* A step of the runner that leaves the rest of the state as it is.
LEMMA RunnerTypes == Types /\ RunnerStep => Types'
<1>. SUFFICES ASSUME Types, RunnerStep PROVE Types'
  OBVIOUS
<1>. USE DEF Types
<1>1. ASSUME Begin PROVE Types'
  <2>1. ExecType'
    <3>1. PICK limit \in Limits, anyway \in BOOLEAN :
            exec' = [NoExecution EXCEPT !.phase = "look", !.at = 1, !.left = limit,
                                        !.auditAnyway = anyway]
      BY <1>1 DEF Begin
    <3>2. limit \in Nat /\ "look" \in Phases /\ NoExecution.mine = None /\ 1 \in Places
      BY CycleBoundsAssumption, PlanFacts DEF Phases, NoExecution, Places
    <3>3. /\ exec' \in Execution /\ exec'.phase = "look" /\ exec'.at = 1
          /\ exec'.mine = NoExecution.mine
      BY <3>1, <3>2, NoExecutionType DEF Execution
    <3>. QED
      BY <3>2, <3>3 DEF ExecType
  <2>2. OthersType'
    <3>1. used' = [used EXCEPT !.executions = @ + 1] /\ UNCHANGED <<planner, pool>>
      BY <1>1 DEF Begin
    <3>. QED
      BY <3>1 DEF OthersType
  <2>3. UNCHANGED <<store, disk>>
    BY <1>1 DEF Begin
  <2>. QED
    BY <2>1, <2>2, <2>3 DEF StoreType, FilesType, store, disk
<1>2. ASSUME LookAtJob PROVE Types'
  <2>1. ExecType'
    BY <1>2, OtherTypes, TurnsTypes DEF LookAtJob, ExecType, Phases, NotRun
  <2>. QED
    BY <1>2, <2>1 DEF LookAtJob, StoreType, FilesType, OthersType, store, disk
<1>3. ASSUME CheckNext PROVE Types'
  <2>1. ExecType'
    BY <1>3, OtherTypes, TurnsTypes DEF CheckNext, ExecType, Phases
  <2>. QED
    BY <1>3, <2>1 DEF CheckNext, StoreType, FilesType, OthersType, store, disk
<1>4. ASSUME LoadSource PROVE Types'
  <2>1. ExecType'
    BY <1>4, OtherTypes, TurnsTypes DEF LoadSource, ExecType, Phases
  <2>. QED
    BY <1>4, <2>1 DEF LoadSource, StoreType, FilesType, OthersType, store, disk
<1>5. ASSUME UpdateQueued PROVE Types'
  <2>1. ExecType'
    BY <1>5, OtherTypes, TurnsTypes DEF UpdateQueued, ExecType, Phases
  <2>2. StoreType'
    <3>1. Job \in Targets
      BY <1>5 DEF UpdateQueued, ExecType
    <3>. QED
      BY <1>5, <3>1 DEF UpdateQueued, StoreType
  <2>. QED
    BY <1>5, <2>1, <2>2 DEF UpdateQueued, FilesType, OthersType, disk
<1>6. ASSUME ClaimNext PROVE Types'
  <2>1. exec \in Execution /\ exec.at \in Places /\ exec.left # 0
    BY <1>6 DEF ClaimNext, ExecType
  <2>2. ASSUME NEW j \in Jobs, Claim(KindOf[Job], j),
               exec' = [exec EXCEPT !.phase = "start", !.mine = j]
        PROVE  StoreType' /\ ExecType'
    BY <2>1, <2>2, StoreMoves, EndedTypes
  <2>3. ASSUME exec' = [exec EXCEPT !.phase = "after"], UNCHANGED store
        PROVE  StoreType' /\ ExecType'
    <3>1. Turns("after") /\ exec.phase = "claim"
      BY <1>6, <2>3 DEF Turns, ClaimNext
    <3>. QED
      BY <2>1, <2>3, <3>1, TurnsTypes DEF StoreType, store, Phases
  <2>4. StoreType' /\ ExecType'
    BY <1>6, <2>2, <2>3 DEF ClaimNext
  <2>. QED
    BY <1>6, <2>4 DEF ClaimNext, FilesType, OthersType, disk
<1>7. ASSUME StartJob PROVE Types'
  <2>. DEFINE mine == exec.mine
  <2>1. mine \in Jobs
    BY <1>7 DEF StartJob, ExecType
  <2>2. StoreType'
    BY <1>7, <2>1 DEF StartJob, StoreType, Becomes, Statuses
  <2>3. ExecType'
    BY <1>7, <2>1, OtherTypes, TurnsTypes DEF StartJob, ExecType, Phases
  <2>. QED
    BY <1>7, <2>2, <2>3 DEF StartJob, FilesType, OthersType, disk
<1>8. ASSUME Heartbeat PROVE Types'
  <2>1. ExecType'
    BY <1>8, OtherTypes, TurnsTypes DEF Heartbeat, ExecType, Phases
  <2>. QED
    BY <1>8, <2>1 DEF Heartbeat, StoreType, FilesType, OthersType, store, disk
<1>9. ASSUME Handle PROVE Types'
  <2>1. ExecType'
    BY <1>9, OtherTypes, TurnsTypes DEF Handle, ExecType, Phases
  <2>2. FilesType'
    BY <1>9 DEF Handle, Audited, FilesType
  <2>. QED
    BY <1>9, <2>1, <2>2 DEF Handle, StoreType, OthersType, store
<1>10. ASSUME SucceedJob PROVE Types'
  <2>1. exec.mine \in Jobs /\ exec.at \in Places /\ exec \in Execution /\ exec.left # 0
    BY <1>10 DEF SucceedJob, ExecType
  <2>2. StoreType'
    BY <1>10, <2>1, StoreMoves DEF SucceedJob, StoreType, store
  <2>3. ASSUME exec' = [exec EXCEPT !.phase = "after", !.ok = TRUE] PROVE ExecType'
    BY <2>1, <2>3, EndedTypes DEF ExecType
  <2>4. ExecType'
    BY <1>10, <2>1, <2>3, TurnsTypes DEF SucceedJob, ExecType, Phases
  <2>. QED
    BY <1>10, <2>2, <2>4 DEF SucceedJob, FilesType, OthersType, disk
<1>11. ASSUME FailJob PROVE Types'
  <2>1. exec.mine \in Jobs
    BY <1>11 DEF FailJob, ExecType
  <2>2. StoreType'
    BY <1>11, <2>1, StoreMoves DEF FailJob, StoreType, store
  <2>3. ExecType'
    BY <1>11, OtherTypes, TurnsTypes DEF FailJob, ExecType, Phases
  <2>. QED
    BY <1>11, <2>2, <2>3 DEF FailJob, FilesType, OthersType, disk
<1>12. ASSUME Report PROVE Types'
  <2>1. ExecType'
    BY <1>12, OtherTypes, ReportTypes DEF Report, ExecType
  <2>. QED
    BY <1>12, <2>1 DEF Report, StoreType, FilesType, OthersType, store, disk
<1>13. ASSUME WriteExecution PROVE Types'
  <2>1. ExecType'
    BY <1>13, OtherTypes DEF WriteExecution, Aborts
  <2>. QED
    BY <1>13, <2>1 DEF WriteExecution, StoreType, FilesType, OthersType, store
<1>. QED
  BY <1>1, <1>2, <1>3, <1>4, <1>5, <1>6, <1>7, <1>8, <1>9, <1>10, <1>11, <1>12, <1>13
     DEF RunnerStep

LEMMA OthersTypes == Types /\ (OthersStep \/ Crash) => Types'
<1>. SUFFICES ASSUME Types, OthersStep \/ Crash PROVE Types'
  OBVIOUS
<1>. USE DEF Types
<1>1. ASSUME UNCHANGED exec PROVE ExecType'
  BY <1>1, OtherTypes
<1>2. ASSUME PoolClaim PROVE Types'
  <2>1. PICK k \in PoolKinds, j \in Jobs \ pool : Claim(k, j) /\ pool' = pool \cup {j}
    BY <1>2 DEF PoolClaim
  <2>. QED
    BY <1>1, <1>2, <2>1, StoreMoves DEF PoolClaim, FilesType, OthersType, disk
<1>3. ASSUME NEW j \in Jobs, PoolStart(j) PROVE Types'
  BY <1>1, <1>3, StoreMoves DEF PoolStart, FilesType, OthersType, disk
<1>4. ASSUME NEW j \in Jobs, PoolSucceed(j) PROVE Types'
  BY <1>1, <1>4, StoreMoves DEF PoolSucceed, Audited, FilesType, OthersType
<1>5. ASSUME NEW j \in Jobs, PoolFail(j) PROVE Types'
  BY <1>1, <1>5, StoreMoves DEF PoolFail, FilesType, OthersType, disk
<1>6. ASSUME NEW j \in Jobs, PoolGone(j) PROVE Types'
  BY <1>1, <1>6 DEF PoolGone, StoreType, FilesType, OthersType, store, disk
<1>7. ASSUME NEW op, Command(op) PROVE ExecType' /\ FilesType' /\ OthersType'
  BY <1>1, <1>7 DEF Command, FilesType, OthersType, disk
<1>8. ASSUME NEW j \in Jobs, EnqueueOther(j) PROVE Types'
  BY <1>7, <1>8, StoreMoves DEF EnqueueOther
<1>9. ASSUME NEW j \in Jobs, CancelJob(j) \/ RetryJob(j) \/ MarkStale(j) PROVE Types'
  BY <1>7, <1>9, StoreMoves DEF CancelJob, RetryJob, MarkStale, Moves
<1>10. ASSUME Crash PROVE Types'
  <2>1. ExecType' /\ OthersType'
    BY <1>10, OtherTypes DEF Crash, OthersType
  <2>. QED
    BY <1>10, <2>1 DEF Crash, StoreType, FilesType, store, disk
<1>. QED
  BY <1>2, <1>3, <1>4, <1>5, <1>6, <1>8, <1>9, <1>10 DEF OthersStep

LEMMA TypesInit == Init => Types
<1>. SUFFICES ASSUME Init PROVE Types
  OBVIOUS
<1>1. StoreType
  BY DEF Init, StoreType, Statuses
<1>2. ExecType
  BY NoExecutionType DEF Init, ExecType
<1>. QED
  BY <1>1, <1>2, PlanFacts DEF Init, Types, FilesType, OthersType

LEMMA TypesStep == Types /\ [Next]_vars => Types'
<1>1. ASSUME Types, UNCHANGED vars PROVE Types'
  BY <1>1, OtherTypes
     DEF Types, StoreType, FilesType, OthersType, vars, store, disk
<1>. QED
  BY <1>1, PlannerTypes, RunnerTypes, OthersTypes DEF Next

\* In every reachable state of the cycle, for any plan, bindings and limits,
\* the store, the files and the processes' local states have their types.
THEOREM CycleTypeCorrect == Spec => []TypeOK
<1>1. Types => TypeOK
  BY DEF Types, StoreType, ExecType, FilesType, OthersType, TypeOK
<1>. QED
  BY <1>1, TypesInit, TypesStep, PTL DEF Spec

-----------------------------------------------------------------------------
(* What an execution has seen stays true: no step takes a job out of       *)
(* "succeeded", and every step of the runner either leaves its place, or   *)
(* leaves a job behind that succeeded, or records a blocker.               *)

Done(i) == status[Plan[i]] = "succeeded"

LEMMA StoreKeeps ==
    ASSUME StoreType, NEW i \in Jobs, status[i] = "succeeded", NEW j \in Jobs
    PROVE  /\ Insert(j) => status'[i] = "succeeded"
           /\ \A k : Claim(k, j) => status'[i] = "succeeded"
           /\ Succeed(j) => status'[i] = "succeeded"
           /\ Fail(j) => status'[i] = "succeeded"
           /\ \A s : status[j] # "succeeded" /\ Becomes(j, s) => status'[i] = "succeeded"
<1>1. Insert(j) => status'[i] = "succeeded"
  <2>. SUFFICES ASSUME Insert(j) PROVE status'[i] = "succeeded"
    OBVIOUS
  <2>1. status[j] = "absent"
    BY CycleJobsAssumption DEF Insert
  <2>. QED
    BY <2>1 DEF Insert, Becomes, StoreType
<1>2. ASSUME NEW k, Claim(k, j) PROVE status'[i] = "succeeded"
  BY <1>2 DEF Claim, NextFor, Queue, Becomes, StoreType
<1>3. Succeed(j) => status'[i] = "succeeded"
  BY DEF Succeed, Live, Becomes, StoreType
<1>4. Fail(j) => status'[i] = "succeeded"
  BY DEF Fail, Open, Live, Becomes, StoreType
<1>5. ASSUME NEW s, status[j] # "succeeded", Becomes(j, s) PROVE status'[i] = "succeeded"
  BY <1>5 DEF Becomes, StoreType
<1>. QED
  BY <1>1, <1>2, <1>3, <1>4, <1>5

LEMMA SucceededStays ==
    ASSUME Types, Next, NEW i \in Jobs, status[i] = "succeeded"
    PROVE  status'[i] = "succeeded"
<1>. USE DEF Types
<1>2. ASSUME PlannerStep PROVE status'[i] = "succeeded"
  <2>1. ASSUME EnqueueNext PROVE Plan[planner] \in Jobs /\ Insert(Plan[planner])
    BY <2>1, PlanFacts DEF EnqueueNext
  <2>. QED
    BY <1>2, <2>1, StoreKeeps
       DEF PlannerStep, DryPlan, BeginEnqueue, WritePlan, store
<1>3. ASSUME RunnerStep PROVE status'[i] = "succeeded"
  <2>1. ASSUME StartJob, status[exec.mine] = "claimed", Becomes(exec.mine, "running")
        PROVE  status'[i] = "succeeded"
    BY <2>1, StoreKeeps DEF StartJob, ExecType
  <2>2. StartJob => status'[i] = "succeeded"
    BY <2>1 DEF StartJob
  <2>3. ClaimNext => status'[i] = "succeeded"
    BY StoreKeeps DEF ClaimNext, store
  <2>4. SucceedJob => status'[i] = "succeeded"
    BY StoreKeeps DEF SucceedJob, ExecType, store
  <2>5. FailJob => status'[i] = "succeeded"
    BY StoreKeeps DEF FailJob, ExecType, store
  <2>. QED
    BY <1>3, <2>2, <2>3, <2>4, <2>5
       DEF RunnerStep, Begin, LookAtJob, CheckNext, LoadSource, UpdateQueued,
           Heartbeat, Handle, Report, WriteExecution, store
<1>4. ASSUME OthersStep PROVE status'[i] = "succeeded"
  <2>1. PoolClaim => status'[i] = "succeeded"
    BY StoreKeeps DEF PoolClaim
  <2>2. ASSUME NEW j \in Jobs PROVE PoolStart(j) => status'[i] = "succeeded"
    BY StoreKeeps DEF PoolStart
  <2>3. ASSUME NEW j \in Jobs
        PROVE  PoolSucceed(j) \/ PoolFail(j) \/ PoolGone(j) => status'[i] = "succeeded"
    BY StoreKeeps DEF PoolSucceed, PoolFail, PoolGone, store
  <2>4. ASSUME NEW j \in Jobs
        PROVE  EnqueueOther(j) \/ CancelJob(j) \/ RetryJob(j) \/ MarkStale(j)
                  => status'[i] = "succeeded"
    BY StoreKeeps DEF EnqueueOther, CancelJob, RetryJob, MarkStale, Moves, Live
  <2>. QED
    BY <1>4, <2>1, <2>2, <2>3, <2>4 DEF OthersStep
<1>5. ASSUME Crash PROVE status'[i] = "succeeded"
  BY <1>5 DEF Crash, store
<1>. QED
  BY <1>2, <1>3, <1>4, <1>5 DEF Next

InCall == exec.phase \notin {"idle", "look", "write"}

\* The strengthening: before the place of a call that has no blocker all is
\* done, before the place of one that is not blocked all but the audit is, and
\* a job that is not the audit job is only run by a call that is not blocked.
CycleInv ==
    /\ exec.phase = "write" => exec.at = Len(Plan) + 1
    /\ exec.phase # "idle" /\ ~exec.blockers => \A i \in 1 .. exec.at - 1 : Done(i)
    /\ exec.phase # "idle" /\ ~exec.blocked =>
          \A i \in 1 .. exec.at - 1 : Plan[i] = Audit \/ Done(i)
    /\ InCall /\ Job # Audit => ~exec.blocked
    /\ exec.ok => /\ exec.phase = "after"
                  /\ exec.mine \in Jobs /\ status[exec.mine] = "succeeded"
    /\ CompletedMeansDone

\* What a step does to the call, in the terms of the invariant.
Stays == UNCHANGED exec

Ends == exec' = NoExecution

Starts ==
    /\ exec'.phase = "look" /\ exec'.at = 1 /\ ~exec'.ok
    /\ ~exec'.blockers /\ ~exec'.blocked

Goes ==
    /\ exec.phase \notin {"idle", "write"} /\ exec'.phase \notin {"idle", "look", "write"}
    /\ exec'.at = exec.at /\ exec'.blockers = exec.blockers /\ exec'.blocked = exec.blocked
    /\ exec.phase = "look" /\ Job # Audit => ~exec.blocked
    /\ exec'.ok => /\ exec'.phase = "after" /\ exec'.mine = exec.mine
                   /\ exec.mine \in Jobs /\ status'[exec.mine] = "succeeded"

Leaves ==
    /\ exec.phase \notin {"idle", "write"} /\ exec'.phase \in {"look", "write"}
    /\ exec.at \in Places /\ exec'.at = exec.at + 1 /\ ~exec'.ok
    /\ exec'.phase = "write" => exec.at = Len(Plan)
    /\ \/ /\ exec'.blockers = exec.blockers /\ exec'.blocked = exec.blocked
          /\ Done(exec.at) \/ (exec.ok /\ exec.mine = Job)
       \/ /\ exec'.blockers
          /\ exec'.blocked = (exec.blocked \/ Job # Audit)

LEMMA LeavesBy ==
    ASSUME ExecType, exec.phase \notin {"idle", "write"}
    PROVE  /\ Blocks => Leaves
           /\ Skips /\ Done(exec.at) => Leaves
           /\ exec' = [Advanced EXCEPT !.left = @ - 1] /\ exec.ok /\ exec.mine = Job => Leaves
           /\ exec' = [Advanced EXCEPT !.left = @ - 1, !.blockers = TRUE,
                                      !.blocked = @ \/ Job # Audit] => Leaves
<1>. DEFINE adv == Advanced
<1>1. exec.at \in Places /\ exec \in Execution
  BY DEF ExecType
<1>2. /\ adv \in Execution /\ adv.phase \in {"look", "write"}
      /\ adv.phase = "write" => exec.at = Len(Plan)
      /\ adv.at = exec.at + 1 /\ ~adv.ok
      /\ adv.blockers = exec.blockers /\ adv.blocked = exec.blocked
  BY <1>1, AdvancedType
<1>. HIDE DEF adv
<1>3. ASSUME exec' = [adv EXCEPT !.blockers = TRUE, !.blocked = @ \/ Job # Audit] PROVE Leaves
  BY <1>1, <1>2, <1>3 DEF Leaves, Execution
<1>4. ASSUME exec' = adv, Done(exec.at) PROVE Leaves
  BY <1>1, <1>2, <1>4 DEF Leaves
<1>5. ASSUME exec' = [adv EXCEPT !.left = @ - 1], exec.ok, exec.mine = Job PROVE Leaves
  BY <1>1, <1>2, <1>5 DEF Leaves, Execution
<1>6. ASSUME exec' = [adv EXCEPT !.left = @ - 1, !.blockers = TRUE, !.blocked = @ \/ Job # Audit]
      PROVE  Leaves
  BY <1>1, <1>2, <1>6 DEF Leaves, Execution
<1>. QED
  BY <1>3, <1>4, <1>5, <1>6 DEF adv, Blocks, Skips

\* Turning to another phase of the same call, with no result yet.
LEMMA GoesBy ==
    ASSUME ExecType, exec.phase \notin {"idle", "write"}, ~exec.ok,
           exec.phase = "look" /\ Job # Audit => ~exec.blocked,
           NEW phase \in Phases \ {"idle", "look", "write"}, Turns(phase)
    PROVE  Goes
BY DEF Goes, Turns, ExecType, Execution

Progress == Stays \/ Ends \/ Starts \/ Goes \/ Leaves

LEMMA RunnerProgress == Types /\ CycleInv /\ RunnerStep => Progress
<1>. SUFFICES ASSUME Types, CycleInv, RunnerStep PROVE Progress
  OBVIOUS
<1>. USE DEF Progress
<1>0. ExecType /\ (exec.phase # "after" => ~exec.ok)
  BY DEF Types, CycleInv
<1>1. ASSUME Begin PROVE Starts
  <2>1. PICK limit \in Limits, anyway \in BOOLEAN :
          exec' = [NoExecution EXCEPT !.phase = "look", !.at = 1, !.left = limit,
                                      !.auditAnyway = anyway]
    BY <1>1 DEF Begin
  <2>. QED
    BY <2>1, NoExecutionType DEF Starts, Execution, NoExecution
<1>2. ASSUME LookAtJob PROVE Progress
  <2>1. Done(exec.at) <=> status[Job] = "succeeded"
    BY DEF Done, Job
  <2>2. "next" \in Phases
    BY DEF Phases
  <2>3. ~NotRun /\ Job # Audit => ~exec.blocked
    BY DEF NotRun
  <2>. QED
    BY <1>0, <1>2, <2>1, <2>2, <2>3, LeavesBy, GoesBy DEF LookAtJob, Ends, Aborts
<1>3. ASSUME CheckNext PROVE Progress
  BY <1>0, <1>3, LeavesBy, GoesBy DEF CheckNext, Phases
<1>4. ASSUME LoadSource PROVE Progress
  BY <1>0, <1>4, LeavesBy, GoesBy DEF LoadSource, Phases, Ends, Aborts
<1>5. ASSUME UpdateQueued PROVE Progress
  BY <1>0, <1>5, LeavesBy, GoesBy DEF UpdateQueued, Phases
<1>6. ASSUME ClaimNext PROVE Goes
  <2>1. exec.phase = "claim" /\ exec \in Execution /\ ~exec.ok
    BY <1>0, <1>6 DEF ClaimNext, ExecType
  <2>2. ASSUME NEW j \in Jobs, exec' = [exec EXCEPT !.phase = "start", !.mine = j] PROVE Goes
    BY <2>1, <2>2 DEF Goes, Execution
  <2>3. ASSUME exec' = [exec EXCEPT !.phase = "after"] PROVE Goes
    BY <2>1, <2>3 DEF Goes, Execution
  <2>. QED
    BY <1>6, <2>2, <2>3 DEF ClaimNext
<1>7. ASSUME StartJob PROVE Progress
  BY <1>0, <1>7, GoesBy DEF StartJob, Phases, Ends, Aborts
<1>8. ASSUME Heartbeat PROVE Progress
  BY <1>0, <1>8, GoesBy DEF Heartbeat, Phases, Ends, Aborts
<1>9. ASSUME Handle PROVE Progress
  BY <1>0, <1>9, GoesBy DEF Handle, Phases
<1>10. ASSUME SucceedJob PROVE Progress
  <2>1. ASSUME Succeed(exec.mine), exec' = [exec EXCEPT !.phase = "after", !.ok = TRUE]
        PROVE  Goes
    <3>1. exec.phase = "succeed" /\ exec \in Execution /\ exec.mine \in Jobs
      BY <1>0, <1>10 DEF SucceedJob, ExecType
    <3>2. status'[exec.mine] = "succeeded"
      BY <2>1, <3>1 DEF Succeed, Becomes, Types, StoreType
    <3>. QED
      BY <2>1, <3>1, <3>2 DEF Goes, Execution
  <2>. QED
    BY <1>0, <1>10, <2>1, GoesBy DEF SucceedJob, Phases
<1>11. ASSUME FailJob PROVE Progress
  BY <1>0, <1>11, GoesBy DEF FailJob, Phases, Ends, Aborts
<1>12. ASSUME Report PROVE Progress
  BY <1>0, <1>12, LeavesBy DEF Report, Ran, Ends, Aborts
<1>13. ASSUME WriteExecution PROVE Ends
  BY <1>13 DEF WriteExecution, Ends
<1>. QED
  BY <1>1, <1>2, <1>3, <1>4, <1>5, <1>6, <1>7, <1>8, <1>9, <1>10, <1>11, <1>12, <1>13
     DEF RunnerStep

LEMMA StepProgress ==
    ASSUME Types, CycleInv, Next
    PROVE  /\ Progress
           /\ execution' # execution =>
                 execution' # "completed" \/ (exec.phase = "write" /\ ~exec.blockers)
<1>1. Progress
  <2>1. PlannerStep => Stays
    BY DEF PlannerStep, DryPlan, BeginEnqueue, EnqueueNext, WritePlan, Stays
  <2>2. OthersStep => Stays
    BY DEF OthersStep, PoolClaim, PoolStart, PoolSucceed, PoolFail, PoolGone,
           EnqueueOther, CancelJob, RetryJob, MarkStale, Moves, Command, Stays
  <2>3. Crash => Stays \/ Ends
    BY DEF Crash, Aborts, Stays, Ends
  <2>. QED
    BY <2>1, <2>2, <2>3, RunnerProgress DEF Next, Progress
<1>2. ASSUME execution' # execution PROVE WriteExecution
  <2>1. ~PlannerStep
    BY <1>2 DEF PlannerStep, DryPlan, BeginEnqueue, EnqueueNext, WritePlan, disk
  <2>2. ~OthersStep /\ ~Crash
    BY <1>2 DEF OthersStep, PoolClaim, PoolStart, PoolSucceed, PoolFail, PoolGone,
           EnqueueOther, CancelJob, RetryJob, MarkStale, Moves, Command, Crash, disk
  <2>. QED
    BY <1>2, <2>1, <2>2
       DEF Next, RunnerStep, Begin, LookAtJob, CheckNext, LoadSource, UpdateQueued, ClaimNext,
           StartJob, Heartbeat, Handle, SucceedJob, FailJob, Report, disk
<1>. QED
  BY <1>1, <1>2 DEF WriteExecution, Clean

LEMMA CycleInvInit == Init => CycleInv
BY NoExecutionType DEF Init, CycleInv, InCall, CompletedMeansDone, NoExecution

LEMMA CycleInvStep == Types /\ CycleInv /\ [Next]_vars => CycleInv'
<1>1. ASSUME Types, CycleInv, UNCHANGED vars PROVE CycleInv'
  BY <1>1 DEF CycleInv, InCall, Done, Job, CompletedMeansDone, vars, store, disk
<1>2. ASSUME Types, CycleInv, Next PROVE CycleInv'
  <2>0. ExecType /\ Progress
    BY <1>2, StepProgress DEF Types
  <2>1. \A j \in Jobs : status[j] = "succeeded" => status'[j] = "succeeded"
    BY <1>2, SucceededStays
  <2>2. \A i \in Places : Done(i) => Done(i)'
    BY <2>1, PlanFacts DEF Done
  <2>3. CompletedMeansDone'
    <3>1. CASE execution' = execution
      BY <1>2, <2>1, <3>1, PlanFacts DEF CycleInv, CompletedMeansDone
    <3>2. CASE execution' # execution
      <4>1. CASE execution' # "completed"
        BY <4>1 DEF CompletedMeansDone
      <4>2. CASE exec.phase = "write" /\ ~exec.blockers
        <5>1. \A i \in Places : Done(i)
          BY <1>2, <4>2, PlanFacts DEF CycleInv, Places
        <5>. QED
          BY <2>2, <5>1 DEF CompletedMeansDone, Done, Planned
      <4>. QED
        BY <1>2, <3>2, <4>1, <4>2, StepProgress
    <3>. QED
      BY <3>1, <3>2
  <2>4. CASE Stays
    <3>1. Job' = Job
      BY <2>4 DEF Stays, Job
    <3>2. exec.at \in Nat /\ (exec.phase = "write" => exec.at = Len(Plan) + 1)
          /\ (exec.phase \notin {"idle", "write"} => exec.at \in Places)
      BY <1>2, <2>0 DEF ExecType, Execution, CycleInv
    <3>3. exec.phase # "idle" => \A i \in 1 .. exec.at - 1 : i \in Places
      BY <3>2, PlanFacts DEF Places
    <3>4. exec.ok => exec.mine \in Jobs
      BY <1>2 DEF CycleInv
    <3>. QED
      BY <1>2, <2>1, <2>2, <2>3, <2>4, <3>1, <3>3, <3>4 DEF CycleInv, InCall, Stays
  <2>5. CASE Ends
    BY <2>3, <2>5, NoExecutionType DEF Ends, CycleInv, InCall, NoExecution
  <2>6. CASE Starts
    BY <2>3, <2>6 DEF Starts, CycleInv, InCall
  <2>7. CASE Goes
    <3>1. Job' = Job /\ exec.at \in Places
      BY <2>0, <2>7 DEF Goes, Job, ExecType
    <3>2. \A i \in 1 .. exec.at - 1 : i \in Places
      BY <3>1, PlanFacts DEF Places
    <3>. QED
      BY <1>2, <2>2, <2>3, <2>7, <3>1, <3>2 DEF CycleInv, InCall, Goes
  <2>8. CASE Leaves
    <3>1. \A i \in 1 .. exec'.at - 1 : i \in Places /\ (i = exec.at \/ i \in 1 .. exec.at - 1)
      BY <2>8, PlanFacts DEF Leaves, Places
    <3>2. /\ exec'.at = exec.at + 1 /\ exec.at \in Places /\ Plan[exec.at] = Job
          /\ exec'.phase # "idle" /\ ~exec'.ok /\ ~InCall'
          /\ exec'.phase = "write" => exec'.at = Len(Plan) + 1
      BY <2>8 DEF Leaves, Job, InCall
    <3>3. CASE /\ exec'.blockers = exec.blockers /\ exec'.blocked = exec.blocked
               /\ Done(exec.at) \/ (exec.ok /\ exec.mine = Job)
      <4>1. status[Job] = "succeeded"
        BY <1>2, <3>2, <3>3 DEF CycleInv, Done
      <4>2. status'[Plan[exec.at]] = "succeeded"
        BY <2>1, <3>2, <4>1, PlanFacts
      <4>3. \A i \in 1 .. exec'.at - 1 : i \in 1 .. exec.at - 1 \/ Done(i)'
        BY <3>1, <4>2 DEF Done
      <4>4. ~exec'.blockers => \A i \in 1 .. exec'.at - 1 : Done(i)'
        BY <1>2, <2>2, <2>8, <3>1, <3>3, <4>3 DEF CycleInv, Leaves
      <4>5. ~exec'.blocked => \A i \in 1 .. exec'.at - 1 : Plan[i] = Audit \/ Done(i)'
        BY <1>2, <2>2, <2>8, <3>1, <3>3, <4>3 DEF CycleInv, Leaves
      <4>. QED
        BY <2>3, <3>2, <4>4, <4>5 DEF CycleInv
    <3>4. CASE exec'.blockers /\ exec'.blocked = (exec.blocked \/ Job # Audit)
      <4>1. ~exec'.blocked => \A i \in 1 .. exec'.at - 1 : Plan[i] = Audit \/ Done(i)'
        BY <1>2, <2>2, <2>8, <3>1, <3>2, <3>4 DEF CycleInv, Leaves
      <4>. QED
        BY <2>3, <3>2, <3>4, <4>1 DEF CycleInv
    <3>. QED
      BY <2>8, <3>3, <3>4 DEF Leaves
  <2>. QED
    BY <2>0, <2>4, <2>5, <2>6, <2>7, <2>8 DEF Progress
<1>. QED
  BY <1>1, <1>2

LEMMA CycleInvariant == Spec => [](Types /\ CycleInv)
<1>1. Init => Types /\ CycleInv
  BY TypesInit, CycleInvInit
<1>2. (Types /\ CycleInv) /\ [Next]_vars => (Types /\ CycleInv)'
  BY TypesStep, CycleInvStep
<1>. QED
  BY <1>1, <1>2, PTL DEF Spec

\* An execution is only reported complete when every planned job has
\* succeeded, whatever other workers, operators and crashes do meanwhile.
THEOREM CompleteCyclesAreDone == Spec => []CompletedMeansDone
<1>1. CycleInv => CompletedMeansDone
  BY DEF CycleInv
<1>. QED
  BY <1>1, CycleInvariant, PTL

\* A planned job that is not the audit job is only run by the runner as the
\* planned one when all planned jobs before it have succeeded.
THEOREM PlannedJobsRunInOrder == Spec => []RunsInOrder
<1>1. Types /\ CycleInv => RunsInOrder
  <2>. SUFFICES ASSUME Types, CycleInv, Running, exec.mine = Job, Job # Audit,
                       NEW i \in 1 .. exec.at - 1
                PROVE  Done(i)
    BY DEF RunsInOrder, Done
  <2>1. InCall /\ exec.phase # "idle" /\ exec.at \in Places
    BY DEF Running, InCall, Types, ExecType
  <2>2. Plan[i] = Audit \/ Done(i)
    BY <2>1 DEF CycleInv
  <2>3. Plan[i] # Audit
    <3>1. i \in Places /\ i < Len(Plan) /\ Len(Plan) \in Places
      BY <2>1, PlanFacts DEF Places
    <3>2. Plan[i] < Plan[Len(Plan)] /\ Plan[i] \in Nat
      BY <3>1, PlanFacts, PlanAssumption, CycleJobsAssumption
    <3>. QED
      BY <3>2 DEF Audit
  <2>. QED
    BY <2>2, <2>3
<1>. QED
  BY <1>1, CycleInvariant, PTL

-----------------------------------------------------------------------------
(* The store under the cycle: every step that moves a row is one of these. *)

StoreMove(j) ==
    \/ Insert(j)
    \/ \E k : Claim(k, j)
    \/ Succeed(j)
    \/ Fail(j)
    \/ /\ status[j] = "claimed" /\ Becomes(j, "running")
       /\ UNCHANGED <<attempts, refs>>
    \/ \E op \in Commands :
          /\ \/ op = "cancel" /\ status[j] \in Live \cup {"queued"} /\ Becomes(j, "cancelled")
             \/ op = "retry" /\ status[j] \in {"failed", "stale", "cancelled"} /\ Becomes(j, "queued")
             \/ op = "stale" /\ status[j] \in Live /\ Becomes(j, "stale")
          /\ UNCHANGED <<attempts, refs>>

LEMMA StoreSteps ==
    ASSUME Types, [Next]_vars
    PROVE  \/ UNCHANGED <<status, attempts, refs>>
           \/ \E j \in Jobs : StoreMove(j)
<1>. DEFINE P == UNCHANGED <<status, attempts, refs>> \/ \E j \in Jobs : StoreMove(j)
<1>0. exec.phase \in {"start", "heartbeat", "work", "succeed", "fail"} => exec.mine \in Jobs
  BY DEF Types, ExecType
<1>1. CASE UNCHANGED vars
  BY <1>1 DEF vars, store
<1>2. CASE PlannerStep
  <2>1. ASSUME EnqueueNext PROVE Plan[planner] \in Jobs /\ Insert(Plan[planner])
    BY <2>1, PlanFacts DEF EnqueueNext
  <2>. QED
    BY <1>2, <2>1 DEF PlannerStep, DryPlan, BeginEnqueue, WritePlan, store, StoreMove
<1>3. CASE RunnerStep
  <2>1. StartJob => P
    BY <1>0 DEF StartJob, StoreMove
  <2>2. ClaimNext => P
    BY DEF ClaimNext, store, StoreMove
  <2>3. SucceedJob => P
    BY <1>0 DEF SucceedJob, store, StoreMove
  <2>4. FailJob => P
    BY <1>0 DEF FailJob, store, StoreMove
  <2>. QED
    BY <1>3, <2>1, <2>2, <2>3, <2>4
       DEF RunnerStep, Begin, LookAtJob, CheckNext, LoadSource, UpdateQueued,
           Heartbeat, Handle, Report, WriteExecution, store
<1>4. CASE OthersStep
  <2>1. PoolClaim => P
    BY DEF PoolClaim, StoreMove
  <2>2. ASSUME NEW j \in Jobs, PoolStart(j) \/ PoolSucceed(j) \/ PoolFail(j) \/ PoolGone(j)
        PROVE  P
    BY <2>2 DEF PoolStart, PoolSucceed, PoolFail, PoolGone, store, StoreMove
  <2>3. ASSUME NEW j \in Jobs, EnqueueOther(j) \/ CancelJob(j) \/ RetryJob(j) \/ MarkStale(j)
        PROVE  P
    <3>1. StoreMove(j)
      BY <2>3 DEF EnqueueOther, CancelJob, RetryJob, MarkStale, Moves, Command, StoreMove
    <3>. QED
      BY <3>1
  <2>. QED
    BY <1>4, <2>1, <2>2, <2>3 DEF OthersStep
<1>5. CASE Crash
  BY <1>5 DEF Crash, store
<1>. QED
  BY <1>1, <1>2, <1>3, <1>4, <1>5 DEF Next

LEMMA MoveIsLifecycle ==
    ASSUME StoreType, NEW j \in Jobs, StoreMove(j)
    PROVE  Lifecycle!Next
<1>. USE DEF Lifecycle!Next, Lifecycle!Moves, Becomes
<1>1. CASE Insert(j)
  <2>1. status[j] = "absent"
    BY <1>1, CycleJobsAssumption DEF Insert
  <2>. QED
    BY <1>1, <2>1 DEF Insert, Lifecycle!Enqueue
<1>2. ASSUME NEW k, Claim(k, j) PROVE Lifecycle!Claim(j)
  BY <1>2 DEF Claim, NextFor, Queue, Lifecycle!Claim
<1>3. CASE Succeed(j)
  BY <1>3 DEF Succeed, Live, Lifecycle!Succeed
<1>4. CASE Fail(j)
  <2>1. status[j] \in Lifecycle!Statuses \ Lifecycle!TERMINAL_STATUSES
    BY <1>4 DEF Fail, Open, Live, Lifecycle!Statuses, Lifecycle!TERMINAL_STATUSES
  <2>2. attempts[j] < AttemptsOf(j) => attempts[j] < MaxAttempts
    BY CycleBoundsAssumption DEF AttemptsOf, StoreType
  <2>3. Lifecycle!Requeue(j) \/ Lifecycle!Fail(j)
    BY <1>4, <2>1, <2>2 DEF Fail, Lifecycle!Requeue, Lifecycle!Fail
  <2>. QED
    BY <2>3
<1>5. CASE status[j] = "claimed" /\ Becomes(j, "running") /\ UNCHANGED <<attempts, refs>>
  BY <1>5 DEF Lifecycle!Start
<1>6. ASSUME NEW op \in Commands, UNCHANGED <<attempts, refs>>,
             \/ op = "cancel" /\ status[j] \in Live \cup {"queued"} /\ Becomes(j, "cancelled")
             \/ op = "retry" /\ status[j] \in {"failed", "stale", "cancelled"} /\ Becomes(j, "queued")
             \/ op = "stale" /\ status[j] \in Live /\ Becomes(j, "stale")
      PROVE  Lifecycle!Cancel(j) \/ Lifecycle!Retry(j) \/ Lifecycle!MarkStale(j)
  BY <1>6 DEF Live, Lifecycle!Cancel, Lifecycle!Retry, Lifecycle!MarkStale
<1>. QED
  BY <1>1, <1>2, <1>3, <1>4, <1>5, <1>6 DEF StoreMove

\* Planner, runner, pool workers, operators and crashes move the rows of the
\* store only along the life of a job that JobLifecycle states.
THEOREM CycleUsesLifecycle == Spec => UsesLifecycle
<1>1. Init => Lifecycle!Init
  BY DEF Init, Lifecycle!Init
<1>2. Types /\ [Next]_vars => [Lifecycle!Next]_(Lifecycle!vars)
  BY StoreSteps, MoveIsLifecycle DEF Types, Lifecycle!vars
<1>. QED
  BY <1>1, <1>2, TypesInit, TypesStep, PTL DEF Spec, UsesLifecycle, Lifecycle!Spec

\* A row that is there stays there; what a succeeded job holds stays as it is.
LEMMA RowsStay ==
    ASSUME Types, [Next]_vars, NEW i \in Jobs
    PROVE  /\ status[i] # "absent" => status'[i] # "absent"
           /\ status[i] = "succeeded" => status'[i] = "succeeded" /\ refs'[i] = refs[i]
<1>1. ASSUME NEW j \in Jobs, StoreMove(j), status[i] # "absent" PROVE status'[i] # "absent"
  BY <1>1, MoveIsLifecycle
     DEF Types, StoreType, Lifecycle!Next, Lifecycle!Moves, Lifecycle!Enqueue, Lifecycle!Claim,
         Lifecycle!Start, Lifecycle!Succeed, Lifecycle!Fail, Lifecycle!Requeue,
         Lifecycle!Cancel, Lifecycle!MarkStale, Lifecycle!Retry
<1>2. status[i] = "succeeded" => status'[i] = "succeeded"
  BY SucceededStays DEF vars, store
<1>3. ASSUME NEW j \in Jobs, StoreMove(j), status[i] = "succeeded" PROVE refs'[i] = refs[i]
  BY <1>3 DEF StoreMove, Insert, Claim, Succeed, Fail, Live, Types, StoreType
<1>. QED
  BY <1>1, <1>2, <1>3, StoreSteps

-----------------------------------------------------------------------------
(* The manifest of an enqueued plan.                                       *)

PlannerInv ==
    /\ PlanIsEnqueued
    /\ \A i \in Places : i < planner => status[Plan[i]] # "absent"

LEMMA PlannerInvStep == Types /\ PlannerInv /\ [Next]_vars => PlannerInv'
<1>. SUFFICES ASSUME Types, PlannerInv, [Next]_vars PROVE PlannerInv'
  OBVIOUS
<1>1. \A j \in Planned : j \in Jobs
  BY PlanFacts
<1>2. \A j \in Jobs : status[j] # "absent" => status'[j] # "absent"
  BY RowsStay
<1>3. planner \in Nat /\ planner \in 0 .. Len(Plan) + 1
  BY PlanFacts DEF Types, OthersType
<1>4. CASE EnqueueNext
  <2>1. planner \in Places /\ planner' = planner + 1 /\ plan' = plan
    BY <1>4 DEF EnqueueNext, disk
  <2>2. status'[Plan[planner]] = "queued"
    BY <1>4, <2>1, PlanFacts DEF EnqueueNext, Insert, Becomes, Types, StoreType
  <2>3. \A i \in Places : i < planner + 1 => i < planner \/ i = planner
    BY <1>3 DEF Places
  <2>. QED
    BY <1>1, <1>2, <2>1, <2>2, <2>3, PlanFacts DEF PlannerInv, PlanIsEnqueued
<1>5. CASE WritePlan
  <2>1. \A i \in Places : i < planner /\ ~(i < planner')
    BY <1>5, PlanFacts DEF WritePlan, Places
  <2>2. \A j \in Planned : status[j] # "absent"
    BY <2>1 DEF PlannerInv, Planned
  <2>. QED
    BY <1>1, <1>2, <2>1, <2>2 DEF PlannerInv, PlanIsEnqueued
<1>6. CASE ~EnqueueNext /\ ~WritePlan
  <2>1. planner' \in {planner, 0, 1}
    BY <1>6 DEF Next, PlannerStep, DryPlan, BeginEnqueue, RunnerStep, Begin, LookAtJob, CheckNext,
                LoadSource, UpdateQueued, ClaimNext, StartJob, Heartbeat, Handle, SucceedJob,
                FailJob, Report, WriteExecution, OthersStep, PoolClaim, PoolStart, PoolSucceed,
                PoolFail, PoolGone, EnqueueOther, CancelJob, RetryJob, MarkStale, Moves, Command,
                Crash, vars
  <2>2. plan' \in {plan, "planned"}
    BY <1>6 DEF Next, PlannerStep, DryPlan, BeginEnqueue, RunnerStep, Begin, LookAtJob, CheckNext,
                LoadSource, UpdateQueued, ClaimNext, StartJob, Heartbeat, Handle, SucceedJob,
                FailJob, Report, WriteExecution, OthersStep, PoolClaim, PoolStart, PoolSucceed,
                PoolFail, PoolGone, EnqueueOther, CancelJob, RetryJob, MarkStale, Moves, Command,
                Crash, vars, disk
  <2>3. \A i \in Places : ~(i < 0) /\ ~(i < 1)
    BY PlanFacts DEF Places
  <2>. QED
    BY <1>1, <1>2, <2>1, <2>2, <2>3, PlanFacts DEF PlannerInv, PlanIsEnqueued
<1>. QED
  BY <1>4, <1>5, <1>6

\* A manifest that says enqueued has all its jobs in the store: the planner
\* writes it after its last enqueue call, and a row never goes away.
THEOREM ManifestIsBacked == Spec => []PlanIsEnqueued
<1>1. Init => PlannerInv
  BY PlanFacts DEF Init, PlannerInv, PlanIsEnqueued, Places
<1>2. PlannerInv => PlanIsEnqueued
  BY DEF PlannerInv
<1>. QED
  BY <1>1, <1>2, PlannerInvStep, TypesInit, TypesStep, PTL DEF Spec

-----------------------------------------------------------------------------
(* What the runner may take for granted in a call of run_one_job.          *)

\* How a step takes the runner's call to update_queued_input_spec, to
\* claim_next, or into or through run_one_job.
CallSteps ==
    \/ exec' = exec
    \/ exec'.phase \notin {"update", "claim", "start", "heartbeat", "work", "succeed", "fail"}
    \/ /\ exec'.at = exec.at
       /\ \/ exec.phase = "bind" /\ exec'.phase = "update" /\ SourceHasRef /\ store' = store
          \/ /\ exec.phase = "update" /\ exec'.phase = "claim"
             /\ bound' = bound \cup {Job} /\ UNCHANGED <<status, refs>>
          \/ exec.phase = "next" /\ exec'.phase = "claim" /\ Job \notin Targets
          \/ /\ exec.phase = "claim" \/ Running
             /\ exec'.phase \in {"start", "heartbeat", "work", "succeed", "fail"}
             /\ \/ Running /\ exec'.mine = exec.mine
                \/ status[exec'.mine] = "queued"
             /\ exec'.phase = "succeed" => Audited(exec.mine) /\ exec'.mine = exec.mine

LEMMA AdvancedLeaves ==
    ASSUME ExecType, exec.phase \notin {"idle", "write"}
    PROVE  /\ Skips => CallSteps
           /\ Blocks => CallSteps
           /\ exec' = [Advanced EXCEPT !.left = @ - 1] => CallSteps
           /\ exec' = [Advanced EXCEPT !.left = @ - 1, !.blockers = TRUE,
                                      !.blocked = @ \/ Job # Audit] => CallSteps
<1>. DEFINE adv == Advanced
<1>1. adv \in Execution /\ adv.phase \in {"look", "write"}
  BY AdvancedType DEF ExecType
<1>. HIDE DEF adv
<1>2. ASSUME exec' = adv PROVE CallSteps
  BY <1>1, <1>2 DEF CallSteps
<1>3. ASSUME exec' = [adv EXCEPT !.blockers = TRUE, !.blocked = @ \/ Job # Audit] PROVE CallSteps
  BY <1>1, <1>3 DEF CallSteps, Execution
<1>4. ASSUME exec' = [adv EXCEPT !.left = @ - 1] PROVE CallSteps
  BY <1>1, <1>4 DEF CallSteps, Execution
<1>5. ASSUME exec' = [adv EXCEPT !.left = @ - 1, !.blockers = TRUE, !.blocked = @ \/ Job # Audit]
      PROVE  CallSteps
  BY <1>1, <1>5 DEF CallSteps, Execution
<1>. QED
  BY <1>2, <1>3, <1>4, <1>5 DEF adv, Skips, Blocks

LEMMA RunnerCallSteps == Types /\ RunnerStep => CallSteps
<1>. SUFFICES ASSUME Types, RunnerStep PROVE CallSteps
  OBVIOUS
<1>0. exec \in Execution /\ ExecType
  BY DEF Types, ExecType
<1>1. Aborts => CallSteps
  BY NoExecutionType DEF Aborts, CallSteps
<1>2. ASSUME NEW phase \in Phases, Turns(phase)
      PROVE  exec'.phase = phase /\ exec'.at = exec.at /\ exec'.mine = exec.mine
  BY <1>0, <1>2 DEF Turns, Execution
<1>3. ASSUME NEW phase \in {"next", "bind", "after"}, Turns(phase) PROVE CallSteps
  BY <1>2, <1>3 DEF CallSteps, Phases
<1>4. Begin => CallSteps
  BY NoExecutionType DEF Begin, CallSteps, Execution
<1>5. LookAtJob => CallSteps
  BY <1>0, <1>1, <1>3, AdvancedLeaves DEF LookAtJob
<1>6. ASSUME CheckNext PROVE CallSteps
  <2>1. ASSUME Job \notin Targets, Turns("claim") PROVE CallSteps
    BY <1>2, <1>6, <2>1 DEF CheckNext, CallSteps, Phases
  <2>. QED
    BY <1>0, <1>3, <1>6, <2>1, AdvancedLeaves DEF CheckNext
<1>7. ASSUME LoadSource PROVE CallSteps
  <2>1. ASSUME SourceHasRef, Turns("update") PROVE CallSteps
    BY <1>2, <1>7, <2>1 DEF LoadSource, CallSteps, Phases
  <2>. QED
    BY <1>0, <1>1, <1>7, <2>1, AdvancedLeaves DEF LoadSource
<1>8. ASSUME UpdateQueued PROVE CallSteps
  <2>1. ASSUME bound' = bound \cup {Job}, Turns("claim") PROVE CallSteps
    BY <1>2, <1>8, <2>1 DEF UpdateQueued, CallSteps, Phases
  <2>. QED
    BY <1>0, <1>8, <2>1, AdvancedLeaves DEF UpdateQueued
<1>9. ASSUME ClaimNext PROVE CallSteps
  <2>1. ASSUME NEW j \in Jobs, Claim(KindOf[Job], j),
               exec' = [exec EXCEPT !.phase = "start", !.mine = j]
        PROVE  CallSteps
    <3>1. status[j] = "queued"
      BY <2>1 DEF Claim, NextFor, Queue
    <3>2. exec'.phase = "start" /\ exec'.at = exec.at /\ exec'.mine = j
      BY <1>0, <2>1 DEF Execution
    <3>. QED
      BY <1>9, <3>1, <3>2 DEF ClaimNext, CallSteps
  <2>2. exec' = [exec EXCEPT !.phase = "after"] => CallSteps
    BY <1>0 DEF CallSteps, Execution
  <2>. QED
    BY <1>9, <2>1, <2>2 DEF ClaimNext
<1>10. ASSUME StartJob PROVE CallSteps
  <2>1. Turns("heartbeat") => CallSteps
    BY <1>2, <1>10 DEF StartJob, CallSteps, Running, Phases
  <2>. QED
    BY <1>1, <1>10, <2>1 DEF StartJob
<1>11. ASSUME Heartbeat PROVE CallSteps
  <2>1. Turns("work") => CallSteps
    BY <1>2, <1>11 DEF Heartbeat, CallSteps, Running, Phases
  <2>. QED
    BY <1>1, <1>11, <2>1 DEF Heartbeat
<1>12. ASSUME Handle PROVE CallSteps
  <2>1. Turns("succeed") /\ Audited(exec.mine) => CallSteps
    BY <1>2, <1>12 DEF Handle, CallSteps, Running, Phases
  <2>2. Turns("fail") => CallSteps
    BY <1>2, <1>12 DEF Handle, CallSteps, Running, Phases
  <2>. QED
    BY <1>12, <2>1, <2>2 DEF Handle
<1>13. ASSUME SucceedJob PROVE CallSteps
  <2>1. Turns("fail") => CallSteps
    BY <1>2, <1>13 DEF SucceedJob, CallSteps, Running, Phases
  <2>2. exec' = [exec EXCEPT !.phase = "after", !.ok = TRUE] => CallSteps
    BY <1>0 DEF CallSteps, Execution
  <2>. QED
    BY <1>13, <2>1, <2>2 DEF SucceedJob
<1>14. FailJob => CallSteps
  BY <1>1, <1>3 DEF FailJob
<1>15. Report => CallSteps
  BY <1>0, <1>1, AdvancedLeaves DEF Report
<1>16. WriteExecution => CallSteps
  BY NoExecutionType DEF WriteExecution, CallSteps
<1>. QED
  BY <1>4, <1>5, <1>6, <1>7, <1>8, <1>9, <1>10, <1>11, <1>12, <1>13, <1>14, <1>15, <1>16
     DEF RunnerStep

LEMMA AllCallSteps == Types /\ [Next]_vars => CallSteps
<1>1. PlannerStep => exec' = exec
  BY DEF PlannerStep, DryPlan, BeginEnqueue, EnqueueNext, WritePlan
<1>2. OthersStep => exec' = exec
  BY DEF OthersStep, PoolClaim, PoolStart, PoolSucceed, PoolFail, PoolGone,
         EnqueueOther, CancelJob, RetryJob, MarkStale, Moves, Command
<1>3. Crash => exec' = exec \/ exec'.phase = "idle"
  BY NoExecutionType DEF Crash, Aborts
<1>4. exec' = exec \/ exec'.phase = "idle" => CallSteps
  BY DEF CallSteps
<1>. QED
  BY <1>1, <1>2, <1>3, <1>4, RunnerCallSteps DEF Next, vars

\* What _apply_bindings established: the source is done for good, so its one
\* value stays the one, and nothing takes the binding out of the spec.
Applied(j) ==
    /\ j \in bound
    /\ status[SourceOf[j]] = "succeeded" /\ refs[SourceOf[j]] = "one"

BindingInv ==
    /\ exec.phase = "update" => SourceHasRef
    /\ (exec.phase = "claim" \/ Running) /\ Job \in Targets => Applied(Job)

LEMMA BindingInvStep == Types /\ BindingInv /\ [Next]_vars => BindingInv'
<1>. SUFFICES ASSUME Types, BindingInv, [Next]_vars PROVE BindingInv'
  OBVIOUS
<1>1. bound \subseteq bound'
  BY DEF Next, PlannerStep, DryPlan, BeginEnqueue, EnqueueNext, WritePlan, RunnerStep, Begin,
         LookAtJob, CheckNext, LoadSource, UpdateQueued, ClaimNext, StartJob, Heartbeat, Handle,
         SucceedJob, FailJob, Report, WriteExecution, OthersStep, PoolClaim, PoolStart,
         PoolSucceed, PoolFail, PoolGone, EnqueueOther, CancelJob, RetryJob, MarkStale, Moves,
         Crash, vars, store, Insert, Claim, Succeed, Fail
<1>2. ASSUME NEW j \in Targets, status[SourceOf[j]] = "succeeded", refs[SourceOf[j]] = "one"
      PROVE  status'[SourceOf[j]] = "succeeded" /\ refs'[SourceOf[j]] = "one"
  BY <1>2, RowsStay, PlanFacts
<1>3. exec.phase \in {"bind", "update"} => Job \in Targets
  BY DEF Types, ExecType
<1>4. CASE exec' = exec
  <2>1. Job' = Job /\ (Running' <=> Running)
    BY <1>4 DEF Job, Running
  <2>. QED
    BY <1>1, <1>2, <1>3, <1>4, <2>1 DEF BindingInv, SourceHasRef, Applied
<1>5. CASE exec'.phase \notin {"update", "claim", "start", "heartbeat", "work", "succeed", "fail"}
  BY <1>5 DEF BindingInv, Running
<1>6. CASE exec'.at = exec.at
  <2>1. Job' = Job
    BY <1>6 DEF Job
  <2>2. CASE exec.phase = "bind" /\ exec'.phase = "update" /\ SourceHasRef /\ store' = store
    BY <2>1, <2>2 DEF BindingInv, SourceHasRef, Running, store
  <2>3. CASE /\ exec.phase = "update" /\ exec'.phase = "claim"
             /\ bound' = bound \cup {Job} /\ UNCHANGED <<status, refs>>
    BY <2>1, <2>3 DEF BindingInv, SourceHasRef, Applied
  <2>4. CASE exec.phase = "next" /\ exec'.phase = "claim" /\ Job \notin Targets
    BY <2>1, <2>4 DEF BindingInv, Running
  <2>5. CASE /\ exec.phase = "claim" \/ Running
             /\ exec'.phase \in {"start", "heartbeat", "work", "succeed", "fail"}
    BY <1>1, <1>2, <2>1, <2>5 DEF BindingInv, Applied
  <2>. QED
    BY <1>4, <1>5, <1>6, <2>2, <2>3, <2>4, <2>5, AllCallSteps DEF CallSteps
<1>. QED
  BY <1>4, <1>5, <1>6, AllCallSteps DEF CallSteps

\* The runner runs a planned job that has a binding only with the binding
\* applied, from a source that still has exactly one value for it.
THEOREM BoundJobsRunBound == Spec => []RunsBound
<1>1. Init => BindingInv
  BY DEF Init, NoExecution, BindingInv, Running
<1>2. BindingInv => RunsBound
  BY DEF BindingInv, RunsBound, Applied
<1>. QED
  BY <1>1, <1>2, BindingInvStep, TypesInit, TypesStep, PTL DEF Spec

-----------------------------------------------------------------------------
(* The audit report an execution is complete on.                           *)

\* Once an execution is complete the audit job is done: nobody runs it again,
\* and nobody who runs it is left.
AuditInv ==
    /\ status[Audit] = "succeeded" => report # "none"
    /\ exec.phase = "succeed" /\ exec.mine = Audit => report # "none"
    /\ execution = "completed" => report = "pass" /\ ~(Running /\ exec.mine = Audit)

LEMMA ReportSteps ==
    ASSUME Types, [Next]_vars
    PROVE  \/ report' = report
           \/ /\ report' \in {"pass", "blockers"}
              /\ (exec.phase = "work" /\ exec.mine = Audit) \/ status[Audit] = "running"
<1>1. CASE Handle
  BY <1>1 DEF Handle, Audited
<1>2. ASSUME NEW j \in Jobs, PoolSucceed(j)
      PROVE  \/ report' = report
             \/ report' \in {"pass", "blockers"} /\ status[Audit] = "running"
  BY <1>2 DEF PoolSucceed, Audited
<1>3. CASE ~Handle /\ \A j \in Jobs : ~PoolSucceed(j)
  BY <1>3 DEF Next, PlannerStep, DryPlan, BeginEnqueue, EnqueueNext, WritePlan, RunnerStep, Begin,
              LookAtJob, CheckNext, LoadSource, UpdateQueued, ClaimNext, StartJob, Heartbeat,
              SucceedJob, FailJob, Report, WriteExecution, OthersStep, PoolClaim, PoolStart,
              PoolFail, PoolGone, EnqueueOther, CancelJob, RetryJob, MarkStale, Moves, Command,
              Crash, vars, disk
<1>. QED
  BY <1>1, <1>2, <1>3

\* Whoever takes a job to "succeeded" has run its handler.
LEMMA SucceedsBy ==
    ASSUME Types, [Next]_vars, NEW i \in Jobs, status[i] # "succeeded", status'[i] = "succeeded"
    PROVE  (exec.phase = "succeed" /\ exec.mine = i) \/ Audited(i)
<1>0. status \in [Jobs -> Statuses \cup {"absent"}] /\ ExecType
  BY DEF Types, StoreType
<1>1. ASSUME NEW j \in Jobs, NEW s, s # "succeeded", Becomes(j, s) PROVE FALSE
  BY <1>0, <1>1 DEF Becomes
<1>2. ASSUME NEW j \in Jobs PROVE ~Insert(j) /\ ~Fail(j) /\ \A k : ~Claim(k, j)
  BY <1>1 DEF Insert, Fail, Claim
<1>3. ~PlannerStep
  <2>1. EnqueueNext => Plan[planner] \in Jobs
    BY PlanFacts DEF EnqueueNext
  <2>. QED
    BY <1>2, <2>1 DEF PlannerStep, DryPlan, BeginEnqueue, EnqueueNext, WritePlan, store
<1>4. CASE SucceedJob
  <2>1. exec.mine \in Jobs /\ exec.phase = "succeed" /\ Succeed(exec.mine)
    BY <1>0, <1>4 DEF SucceedJob, ExecType, store
  <2>2. i = exec.mine
    BY <1>0, <2>1 DEF Succeed, Becomes
  <2>. QED
    BY <2>1, <2>2
<1>5. CASE RunnerStep /\ ~SucceedJob
  <2>1. StartJob => exec.mine \in Jobs
    BY <1>0 DEF StartJob, ExecType
  <2>2. FailJob => exec.mine \in Jobs
    BY <1>0 DEF FailJob, ExecType
  <2>3. ~StartJob
    BY <1>1, <2>1 DEF StartJob
  <2>4. ~ClaimNext /\ ~FailJob
    BY <1>2, <2>2 DEF ClaimNext, FailJob, store
  <2>. QED
    BY <1>5, <2>3, <2>4
       DEF RunnerStep, Begin, LookAtJob, CheckNext, LoadSource, UpdateQueued, Heartbeat, Handle,
           Report, WriteExecution, store
<1>6. ASSUME NEW j \in Jobs, PoolSucceed(j) PROVE Audited(i)
  BY <1>0, <1>6 DEF PoolSucceed, Succeed, Becomes
<1>7. ~PoolClaim
  BY <1>2 DEF PoolClaim
<1>8. ASSUME NEW j \in Jobs
      PROVE  ~(PoolStart(j) \/ PoolFail(j) \/ PoolGone(j) \/ EnqueueOther(j)
               \/ CancelJob(j) \/ RetryJob(j) \/ MarkStale(j))
  BY <1>1, <1>2 DEF PoolStart, PoolFail, PoolGone, EnqueueOther, CancelJob, RetryJob, MarkStale,
                    Moves, store
<1>9. ~Crash /\ ~(UNCHANGED vars)
  BY DEF Crash, vars, store
<1>. QED
  BY <1>3, <1>4, <1>5, <1>6, <1>7, <1>8, <1>9 DEF Next, OthersStep

LEMMA AuditInvStep == Types /\ CycleInv /\ AuditInv /\ [Next]_vars => AuditInv'
<1>. SUFFICES ASSUME Types, CycleInv, AuditInv, [Next]_vars PROVE AuditInv'
  OBVIOUS
<1>0. Audit \in Jobs /\ report \in {"none", "pass", "blockers"}
  BY PlanFacts DEF Types, FilesType
<1>1. report # "none" => report' # "none"
  BY ReportSteps
<1>2. Audited(Audit) => report' # "none"
  BY DEF Audited
<1>3. status'[Audit] = "succeeded" => report' # "none"
  BY <1>0, <1>1, <1>2, SucceedsBy DEF AuditInv
<1>4. exec'.phase = "succeed" /\ exec'.mine = Audit => report' # "none"
  BY <1>1, <1>2, AllCallSteps DEF AuditInv, CallSteps
<1>5. ASSUME execution = "completed" PROVE report' = "pass" /\ ~(Running' /\ exec'.mine = Audit)
  <2>1. status[Audit] = "succeeded" /\ ~(Running /\ exec.mine = Audit)
    BY <1>5, PlanFacts DEF CycleInv, CompletedMeansDone, AuditInv
  <2>2. report' = report
    BY <2>1, ReportSteps DEF Running
  <2>3. ~(Running' /\ exec'.mine = Audit)
    BY <2>1, AllCallSteps DEF CallSteps, Running
  <2>. QED
    BY <1>5, <2>2, <2>3 DEF AuditInv
<1>6. ASSUME execution # "completed", execution' = "completed"
      PROVE  report' = "pass" /\ ~Running'
  <2>1. WriteExecution
    BY <1>6
       DEF Next, PlannerStep, DryPlan, BeginEnqueue, EnqueueNext, WritePlan, RunnerStep, Begin,
           LookAtJob, CheckNext, LoadSource, UpdateQueued, ClaimNext, StartJob, Heartbeat, Handle,
           SucceedJob, FailJob, Report, OthersStep, PoolClaim, PoolStart, PoolSucceed, PoolFail,
           PoolGone, EnqueueOther, CancelJob, RetryJob, MarkStale, Moves, Command, Crash, vars, disk
  <2>2. exec.phase = "write" /\ ~exec.blockers /\ report # "blockers"
    BY <1>6, <2>1 DEF WriteExecution, Clean
  <2>3. Done(Len(Plan))
    BY <2>2, PlanFacts DEF CycleInv, Places
  <2>4. report = "pass"
    BY <1>0, <2>2, <2>3 DEF Done, Audit, AuditInv
  <2>. QED
    BY <2>1, <2>4, NoExecutionType DEF WriteExecution, Running
<1>. QED
  BY <1>3, <1>4, <1>5, <1>6 DEF AuditInv

\* A cycle is reported complete only on an audit report that passes, and the
\* report stays: a missing report never counts for a clean one, though
\* _audit_report_blockers finds no blockers in it.
THEOREM CompleteCyclesAreAudited == Spec => []CompletedMeansAudited
<1>1. Init => AuditInv
  BY PlanFacts DEF Init, NoExecution, AuditInv, Running
<1>2. AuditInv => CompletedMeansAudited
  BY DEF AuditInv, CompletedMeansAudited
<1>. QED
  BY <1>1, <1>2, AuditInvStep, CycleInvariant, PTL DEF Spec
=============================================================================
