\* Two masters and two requests at a time: the Redis databases of masters.
CONSTANTS
    m1 = m1
    m2 = m2
    r1 = r1
    r2 = r2
    NoRequest = NoRequest
    Datasets = {m1, m2}
    Masters = {m1, m2}
    Requests = {r1, r2}
    Kinds <- Publishing
    Faults = {}
    MaxKey = 3
    MaxDb = 5
SPECIFICATION Spec
SYMMETRY RequestSymmetry
CHECK_DEADLOCK FALSE
INVARIANTS
    RedisUnique
