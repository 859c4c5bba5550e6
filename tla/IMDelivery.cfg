CONSTANTS
    Deliveries = {d1}
    Tasks = {t1, t2}
    Checkers = {c1}
    Keys = {k1}
    None = None
SPECIFICATION FairSpec
INVARIANTS
    TruthfulOutcome
    WithdrawnNeverSent
PROPERTIES
    DeliversOnce
    ReadyLeaves
    LandedRecorded
