SPECIFICATION AgentSpec
CONSTANTS
    None = None
    i1 = i1
    Inboxes = {i1}
    Deliveries <- MCDeliveries
    Actors = {a1}
    Grants = {g1}
    Materials = {m1}
    Kinds = {"private"}
    Answerers = {w1}
    Tasks = {t1}
    Checkers = {c1}
    Keys = {}
INVARIANTS
    AtMostOnePost
PROPERTIES
    InboxSettled
    RevokedStaysHome
