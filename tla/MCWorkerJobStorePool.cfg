CONSTANTS
    None = None
    w1 = w1  w2 = w2  o1 = o1  o2 = o2  k1 = k1
    Jobs <- TwoJobs
    KindOf <- KindOfTwo
    Kinds <- OneKind
    Workers <- TwoWorkers
    Operators <- OneOperator
    Commands <- EnqueueOnly
    Overlap = TRUE
    Capturing = TRUE
    MaxAttempts = 2
    MaxCommands = 2
    MaxCrashes = 1
    MaxClaims = 9
SPECIFICATION Spec
CHECK_DEADLOCK FALSE
INVARIANTS TypeOK RowsLoad OneWorkerPerJob AttemptsCountClaims
