SPECIFICATION Spec
CONSTANTS
    Codes = {c1}
    Polls = {p1, p2}
    Deciders = {d1, d2}
    Clients = {a1, a2}
    Users = {u1}
    Backends = {"memory", "redis"}
    TTL = 1
    Interval = 1
    MaxEntries = 1
    Faults = TRUE
    MaxTime = 2
SYMMETRY Symmetry
INVARIANTS
    SingleUse
    BarredPollNeverServed
    ApprovalKept
