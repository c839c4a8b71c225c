SPECIFICATION PairSpec
CONSTANTS
    Slots = {s1, s2}
    Atoms = {a, b}
    Predicates = {p, q}
    MaxRecords = 4
    MaxEntities = 1
SYMMETRY Symmetry
INVARIANTS
    IndexesAreExact
    ValidateAccepts
    KernelsAgree
    QueriesAreJoins
PROPERTIES
    ImplementsSlotStacks
CHECK_DEADLOCK FALSE
