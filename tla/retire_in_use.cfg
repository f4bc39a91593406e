\* A master that a Live dataset is denormalised with is retired.
CONSTANTS
    m1 = m1
    e1 = e1
    r1 = r1
    NoRequest = NoRequest
    Datasets = {m1, e1}
    Masters = {m1}
    Requests = {r1}
    Kinds <- Transitions
    Faults = {}
    MaxKey = 3
    MaxDb = 5
SPECIFICATION Spec
CHECK_DEADLOCK FALSE
INVARIANTS
    MastersInUseStayLive
