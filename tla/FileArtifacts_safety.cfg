SPECIFICATION Spec
CONSTANTS
    None = None
    Artifacts = {a1, a2}
    Producers = {p1, p2}
    Cleaners = {c1, c2}
    MaxClaims = 2
    SessionLimit = 2
    OwnerUnits = 2
    MaxUnits = 2
SYMMETRY Symmetry
INVARIANTS
    AvailableIsWhole
    RemovedLeavesNothing
    ToldTruly
    QuotaHolds
PROPERTIES
    FencedPublication
