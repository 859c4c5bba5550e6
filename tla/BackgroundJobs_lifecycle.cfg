CONSTANTS
    Jobs = {j1}
    Owners = {o1}
    Keys = {k1}
    QueueIds = {1, 2}
    None = None
    MaxActive = 1
    MaxDispatches = 2
SPECIFICATION FairSpec
INVARIANTS
    Fencing
    ResultFromLastClaim
PROPERTIES
    CancelNeverRestarts
    AcceptedJobEnds
    CancelConverges
CHECK_DEADLOCK FALSE
