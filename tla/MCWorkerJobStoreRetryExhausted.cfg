CONSTANTS
    None = None
    w1 = w1  w2 = w2  o1 = o1  o2 = o2  k1 = k1
    Jobs <- OneJob
    KindOf <- KindOfOne
    Kinds <- OneKind
    Workers <- TwoWorkers
    Operators <- OneOperator
    Commands <- WithRetry
    Overlap = FALSE
    Capturing = TRUE
    MaxAttempts = 1
    MaxCommands = 3
    MaxCrashes = 0
    MaxClaims = 9
SPECIFICATION Spec
CHECK_DEADLOCK FALSE
INVARIANT AttemptsWithinMax
