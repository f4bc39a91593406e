\* One request at a time, with failures of the command service, its dependencies and the
\* transactions of the API service.
CONSTANTS
    m1 = m1
    e1 = e1
    r1 = r1
    NoRequest = NoRequest
    Datasets = {m1, e1}
    Masters = {m1}
    Requests = {r1}
    Kinds <- Retrying
    Faults <- Outages
    MaxKey = 3
    MaxDb = 5
SPECIFICATION Spec
CHECK_DEADLOCK FALSE
INVARIANTS
    FailedPublishIsRetryable
    DraftSourceHasDraft
PROPERTIES
    
    DenormResolvedWhenMadeLive
