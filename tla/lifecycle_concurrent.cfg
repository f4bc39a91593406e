\* Two requests at a time on one event dataset, with exceptions and
\* restarts of the command service.
CONSTANTS
    e1 = e1
    r1 = r1
    r2 = r2
    NoRequest = NoRequest
    Datasets = {e1}
    Masters = {}
    Requests = {r1, r2}
    Kinds <- AllKinds
    Faults = {"abort", "workerCrash"}
    MaxKey = 2
    MaxDb = 4
SPECIFICATION FairSpec
CHECK_DEADLOCK FALSE
INVARIANTS
    PublicationOrder
PROPERTIES
    ImplementsStatus
    EveryRequestAnswered
