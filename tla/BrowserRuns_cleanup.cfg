SPECIFICATION Spec
CONSTANTS
    None = None
    r1 = r1
    r2 = r2
    p1 = p1
    p2 = p2
    Runs = {r1}
    Procs = {p1}
    MaxEpoch = 2
    NSteps = 1
    WriteSteps = {}
    CaptureProfiles = FALSE
    MaxCrashes = 1
SYMMETRY Symmetry
INVARIANTS
    CleanupTruthful
CHECK_DEADLOCK FALSE
