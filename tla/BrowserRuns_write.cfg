SPECIFICATION Spec
CONSTANTS
    None = None
    r1 = r1
    r2 = r2
    p1 = p1
    p2 = p2
    Runs = {r1}
    Procs = {p1, p2}
    MaxEpoch = 2
    NSteps = 2
    WriteSteps = {1}
    CaptureProfiles = TRUE
    MaxCrashes = 1
SYMMETRY Symmetry
INVARIANTS
    WriteOnce
    EffectTrue
    CancelledIsStopped
    ReleasedIsGone
CHECK_DEADLOCK FALSE
