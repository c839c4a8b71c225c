SPECIFICATION Spec
CONSTANTS
    c1 = c1
    c2 = c2
    c3 = c3
    w1 = w1
    Clients = {c1, c2, c3}
    Flushers = {f1, f2}
    Needs <- MCNeeds
    Panics = {c2}
    Foreign = {w1}
    Capacity = 2
    MaxBatch = 2
INVARIANTS
    PublishedIsDurable
    VerdictsFromPublished
    OrderAndBarriers
PROPERTY EverythingAnswered
CHECK_DEADLOCK FALSE
