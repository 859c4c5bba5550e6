CONSTANTS
    Jobs = {j1, j2}
    Owners = {o1}
    Keys = {k1, k2}
    QueueIds = {1, 2}
    None = None
    MaxActive = 1
    MaxDispatches = 1
SPECIFICATION Spec
SYMMETRY Symmetry
INVARIANTS
    ActiveLimit
    IdempotentAccept
    BoundedExecutions
CHECK_DEADLOCK FALSE
