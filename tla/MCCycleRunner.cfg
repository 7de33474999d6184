CONSTANTS
    None = None
    collect = collect  ledger = ledger  audit = audit
    Jobs <- FiveJobs
    Kinds <- ThreeKinds
    KindOf <- KindOfFive
    Plan <- ThreeAndAudit
    SourceOf <- FourthFromSecond
    PoolKinds <- OnlyCollect
    Commands <- Everything
    Limits <- AllButAudit
    MaxAttempts = 2
    MaxCommands = 1
    MaxPlans = 1
    MaxExecutions = 2
    MaxCrashes = 1
SPECIFICATION Spec
CHECK_DEADLOCK FALSE
INVARIANTS TypeOK PlanIsEnqueued RunsInOrder RunsBound CompletedMeansDone CompletedMeansAudited
PROPERTIES UsesLifecycle
