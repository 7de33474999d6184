SPECIFICATION FairSpec
CONSTANTS
    s1 = s1  s2 = s2  c1 = c1  c2 = c2
    Signals = {s1, s2}
    Direction <- MCDirection
    Consoles = {c1, c2}
    Call <- MCCall
    None = None
    Loads <- MCLoads
    MaxFaults = 1
    MayCrash = TRUE
INVARIANTS TypeOK OneEntryPerSignal CleanRunsAgree
PROPERTIES OpensProtectedOrSafe PhantomsEnd
