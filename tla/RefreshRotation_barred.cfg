SPECIFICATION Spec
CONSTANTS
    NoKey = NoKey
    Users = {u1}
    Certs = {x1}
    Reqs = {r1, r2}
    Families = {f1}
    Clients = {c1, c2}
    Keys = {k1}
    Scopes = {s1}
    Registered = {s1}
    RefreshTTL = 1
    AccessTTL = 1
    GraceWindow = 1
    AbsoluteMax = 1
    RotationWindow = 0
    MaxRotations = 0
    MaxDepth = 0
    MaxEntries = 0
    StoreErrors = FALSE
    MaxTime = 2
    MaxEnv = 1
SYMMETRY Symmetry
INVARIANTS
    BarredNeverServed
    ReuseMeansSpent
