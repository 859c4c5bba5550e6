SPECIFICATION Spec
CONSTANTS
    None = None
    r1 = r1
    p1 = p1
    p2 = p2
    Runs = {r1}
    Procs = {p1, p2}
    MaxEpoch = 2
    CheckOutcomes = {"verified", "unsupported"}
    RedecideLimit = 3
    MaxCrashes = 1
SYMMETRY Symmetry
INVARIANTS
    FilledOnce
    FillTold
    OwnerAlone
    WindowKeepsBinding
PROPERTIES
    OneVerdict
CHECK_DEADLOCK FALSE
