SPECIFICATION Spec
CONSTANTS
    s1 = s1  s2 = s2  c1 = c1  c2 = c2
    Signals = {s1, s2}
    Direction <- MCDirection
    Consoles = {}
    Call <- NoCall
    Loads <- TwoSignals
    None = None
    MaxFaults = 1
    MayCrash = FALSE
INVARIANT DivergenceFailsClosed
