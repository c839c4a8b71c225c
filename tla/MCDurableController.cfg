SPECIFICATION FairSpec
CONSTANTS
    Clients = {c1, c2, c3}
    Flushers = {f1}
    Capacity = 2
    MaxBatch = 2
INVARIANTS
    OutcomesAreTruthful
    FlushWaits
    OnlyLateTicketsAreLost
PROPERTIES
    CallsReturn
CHECK_DEADLOCK FALSE
