CONSTANTS
    None = None
    w1 = w1  w2 = w2  o1 = o1  o2 = o2  k1 = k1
    Jobs <- TwoJobs
    KindOf <- KindOfTwo
    Kinds <- OneKind
    Workers <- OneWorker
    Operators <- OneOperator
    Commands <- WithStale
    Overlap = TRUE
    Capturing = FALSE
    MaxAttempts = 2
    MaxCommands = 2
    MaxCrashes = 1
    MaxClaims = 9
SPECIFICATION FairSpec
CHECK_DEADLOCK FALSE
PROPERTIES EnqueuedJobsEnd NoJobStaysLive
