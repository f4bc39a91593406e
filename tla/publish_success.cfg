\* The client is told that the dataset is Live although the workflow broke off.
CONSTANTS
    e1 = e1
    r1 = r1
    NoRequest = NoRequest
    Datasets = {e1}
    Masters = {}
    Requests = {r1}
    Kinds <- Transitions
    Faults = {"abort"}
    MaxKey = 2
    MaxDb = 4
SPECIFICATION Spec
CHECK_DEADLOCK FALSE
INVARIANTS
    PublishSuccessMeansLive
