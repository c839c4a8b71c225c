SPECIFICATION ReaperSpec
CONSTANTS
    Roots = {r1, r2, r3}
    Drainers = {d1}
    QueueCapacity = 1
INVARIANTS
    DrainCovers
PROPERTIES
    EverythingReaped
