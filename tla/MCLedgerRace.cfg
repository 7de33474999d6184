CONSTANTS
    None = None
    r1 = r1  r2 = r2  r3 = r3  p1 = p1  p2 = p2
    Runs <- ThreeRuns
    Processes <- TwoProcesses
    Outputs <- ToDefault
    MaxPartRows = 2
    Overlap = TRUE
    MaxRows = 3
    MaxCompactions = 1
    MaxCrashes = 1
SPECIFICATION Spec
CHECK_DEADLOCK FALSE
SYMMETRY Symmetry
INVARIANTS FailsClosed
PROPERTIES ReadersSeeItGrow
