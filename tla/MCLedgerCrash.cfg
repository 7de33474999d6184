CONSTANTS
    None = None
    r1 = r1  r2 = r2  r3 = r3  p1 = p1  p2 = p2
    Runs <- ThreeRuns
    Processes <- OneProcess
    Outputs <- ToEither
    MaxPartRows = 2
    Overlap = FALSE
    MaxRows = 3
    MaxCompactions = 2
    MaxCrashes = 2
SPECIFICATION Spec
CHECK_DEADLOCK FALSE
INVARIANTS TypeOK CompleteAtRest FailsClosed DuplicatesFail
PROPERTIES ReadersSeeItGrow ImplementsLog
