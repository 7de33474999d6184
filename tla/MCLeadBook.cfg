SPECIFICATION Spec
CONSTANTS
    l1 = l1  l2 = l2  p1 = p1  p2 = p2
    Leads = {l1, l2}
    Clients = {p1, p2}
    Torn = Torn
    None = None
    MaxCalls = 5
SYMMETRY Symmetry
INVARIANTS TypeOK ApprovalsAreInspected WritesAreKept SpoiledOnlyByRequest
CHECK_DEADLOCK FALSE
