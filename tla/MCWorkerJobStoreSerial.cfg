CONSTANTS
    None = None
    w1 = w1  w2 = w2  o1 = o1  o2 = o2  k1 = k1
    Jobs <- OneJob
    KindOf <- KindOfOne
    Kinds <- OneKind
    Workers <- TwoWorkers
    Operators <- TwoOperators
    Commands <- Everything
    Overlap = FALSE
    Capturing = TRUE
    MaxAttempts = 2
    MaxCommands = 4
    MaxCrashes = 1
    MaxClaims = 9
SPECIFICATION Spec
CHECK_DEADLOCK FALSE
INVARIANTS LogAgrees GapEvidenceKept RunsRecordedSpec
PROPERTIES TerminalLeftOnlyByRetry ImplementsLifecycle
