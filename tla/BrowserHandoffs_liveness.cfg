SPECIFICATION FairSpec
CONSTANTS
    None = None
    r1 = r1
    p1 = p1
    p2 = p2
    Runs = {r1}
    Procs = {p1}
    MaxEpoch = 2
    CheckOutcomes = {"verified", "unsupported"}
    RedecideLimit = 3
    MaxCrashes = 1
PROPERTIES
    SealedCloses
CHECK_DEADLOCK FALSE
