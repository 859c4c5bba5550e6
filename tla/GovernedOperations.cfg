SPECIFICATION Spec
CONSTANTS
    r1 = r1
    r2 = r2
    l1 = l1
    l2 = l2
    None = None
    Requests = {r1, r2}
    Logins = {l1, l2}
    Tools <- ToolSet
    Deadlines = {"running"}
    AttemptLimit = 10
    MaxGates = 2
SYMMETRY Symmetry
INVARIANTS
    SentAsConfirmed
    SenderUndisturbed
    OutcomeTrue
    SentOnce
    ToldTruly
PROPERTIES
    Final
CHECK_DEADLOCK FALSE
