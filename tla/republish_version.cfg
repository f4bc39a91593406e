\* A dataset is edited and published again.
CONSTANTS
    e1 = e1
    r1 = r1
    NoRequest = NoRequest
    Datasets = {e1}
    Masters = {}
    Requests = {r1}
    Kinds <- Transitions
    Faults = {}
    MaxKey = 2
    MaxDb = 4
SPECIFICATION Spec
CHECK_DEADLOCK FALSE
PROPERTIES
    RepublishRaisesVersion
