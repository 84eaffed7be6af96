SPECIFICATION Spec
CONSTANTS
    Workers = {w1, w2, w3, w4}
    Families = {f1}
    Ops = {"login", "refresh", "revoke", "bulk"}
    Faults = TRUE
SYMMETRY Symmetry
INVARIANTS
    DeletedIsDead
    LateNeverServed
    ReuseEvidence
PROPERTIES
    ImplementsChain
