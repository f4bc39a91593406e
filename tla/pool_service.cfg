\* Three handlers and two connections; only one of the handlers may be a publication.
CONSTANTS
    h1 = h1
    h2 = h2
    h3 = h3
    d1 = d1
    NoHandler = NoHandler
    Handlers = {h1, h2, h3}
    Publishers = {h1}
    Datasets = {d1}
    PoolSize = 2
    Errors <- CaughtErrors
SPECIFICATION FairSpec
CHECK_DEADLOCK FALSE
INVARIANTS
    TypeOK
    NothingLeaked
PROPERTIES
    StarvedOnlyByPublication
    EveryRequestEnds
