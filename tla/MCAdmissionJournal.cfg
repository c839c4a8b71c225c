SPECIFICATION Spec
CONSTANTS
    a = a
    b = b
    c = c
    d = d
    Clients = {a, b, c, d}
    Bulk <- MCBulk
    Accepts <- MCAccepts
    Explosive = {d}
    Capacity = 2
    MaxBatch = 2
    Window = 2
    MaxCalls = 1
    MaxCrashes = 1
CHECK_DEADLOCK FALSE
INVARIANTS
    ReceiptsAreTruthful
    JournalRecoverable
    WorldIsProjection
    VerdictsSurvive
    FlushWaits
PROPERTY
    TicketsResolve
