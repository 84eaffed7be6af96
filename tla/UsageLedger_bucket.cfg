SPECIFICATION Spec
CONSTANTS
    Calls = {c1, c2}
    Keys = {k1, k2}
    Reservations = {r1, r2}
    ReleaseKeys = {x1}
    Direct = Direct
    MaxQuantity = 1
    Limits = {1, 2}
    TTL = 2
    PeriodEnd = 1
    MaxRevision = 2
    MaxTime = 2
SYMMETRY Symmetry
INVARIANTS
    TypeOK
    RollupExact
    ChargedOnce
    QuotaBound
    NoneStranded
PROPERTIES
    RevokedSourceStops
