SPECIFICATION FairSpec
CONSTANTS
    None = None
    Artifacts = {a1}
    Producers = {p1}
    Cleaners = {c1}
    MaxClaims = 1
    SessionLimit = 1
    OwnerUnits = 1
    MaxUnits = 1
PROPERTIES
    EventuallyRemoved
