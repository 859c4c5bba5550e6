SPECIFICATION FairAgentSpec
CONSTANTS
    None = None
    i1 = i1
    Inboxes = {i1}
    Deliveries <- MCDeliveries
    Actors = {a1}
    Grants = {g1, g2}
    Materials = {m1}
    Kinds = {"private", "group", "delegated"}
    Answerers = {w1}
    Tasks = {}
    Checkers = {}
    Keys = {}
INVARIANTS
    ReplyMatchesInbox
PROPERTIES
    QuestionEnds
