SPECIFICATION Spec
CONSTANTS
    NoKey = NoKey
    Users = {u1}
    Certs = {x1}
    Reqs = {r1, r2}
    Families = {f1}
    Clients = {c1}
    Keys = {}
    Scopes = {s1}
    Registered = {s1}
    RefreshTTL = 1
    AccessTTL = 2
    GraceWindow = 1
    AbsoluteMax = 0
    RotationWindow = 1
    MaxRotations = 1
    MaxDepth = 0
    MaxEntries = 0
    StoreErrors = FALSE
    MaxTime = 2
    MaxEnv = 0
SYMMETRY Symmetry
INVARIANTS
    ReuseMeansConsumed
