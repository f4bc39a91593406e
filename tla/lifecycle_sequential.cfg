\* One request at a time, no failure: two masters and an event dataset.
CONSTANTS
    m1 = m1
    m2 = m2
    e1 = e1
    r1 = r1
    NoRequest = NoRequest
    Datasets = {m1, m2, e1}
    Masters = {m1, m2}
    Requests = {r1}
    Kinds <- Drafting
    Faults = {}
    MaxKey = 4
    MaxDb = 6
SPECIFICATION Spec
CHECK_DEADLOCK FALSE
INVARIANTS
    TypeOK
    QuiescentConsistent
    PublishSuccessMeansLive
    LiveMastersOwnDb
PROPERTIES
    EditKeepsMasters
