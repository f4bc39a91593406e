\* Two publications overlap and no statement fails.
CONSTANTS
    h1 = h1
    h2 = h2
    d1 = d1
    NoHandler = NoHandler
    Handlers = {h1, h2}
    Publishers = {h1, h2}
    Datasets = {d1}
    PoolSize = 2
    Errors <- NoErrors
SPECIFICATION Spec
CHECK_DEADLOCK FALSE
INVARIANTS
    NothingLeaked
