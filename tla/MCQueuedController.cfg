CONSTANTS
    t1 = t1
    t2 = t2
    t3 = t3
    f1 = f1
    Tickets <- TicketsDef
    SemanticTickets <- SemanticDef
    Impatient <- ImpatientDef
    Flushes <- FlushesDef
    Policies <- PoliciesDef
    Capacity = 2
    Gauge = 16
SPECIFICATION FairSpec
INVARIANTS
    ReservationsAreExact
    TicketsAreTruthful
    FlushCoversEarlier
PROPERTIES
    CallsResolve
CHECK_DEADLOCK FALSE
