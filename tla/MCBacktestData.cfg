SPECIFICATION BDSpec
CONSTANTS
    w1 = w1
    w2 = w2
    c1 = c1
    c2 = c2
    u1 = u1
    full = full
    gappy = gappy
    junk = junk
    None = None
    Torn = Torn
    MaxAttempts <- MCMaxAttempts
    MaxReads = 1
    LockboxStart = 2
    LockboxEnd = 3
    MaxMissing = 0
    Slots = {0, 1, 2}
    Parses = {full, gappy}
    Modes = {"accepted_research", "sandbox_diagnostic"}
    Workers = {w1,w2}
    Jobs = {c1, c2, u1}
    Kind <- MCKind
    Payloads <- MCPayloads
    Fetches <- MCFetches
    Bars <- MCBars
INVARIANTS Provenance RefsResolve UniverseIsBacked PanelsReplay NoLockboxBars
CHECK_DEADLOCK FALSE
SYMMETRY Symmetric
CONSTRAINT Unraced
