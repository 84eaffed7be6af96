SPECIFICATION FairSpec
CONSTANTS
    NoKey = NoKey
    Users = {u1}
    Certs = {x1}
    Reqs = {r1, r2}
    Families = {f1, f2}
    Clients = {c1}
    Keys = {}
    Scopes = {s1}
    Registered = {s1}
    RefreshTTL = 1
    AccessTTL = 1
    GraceWindow = 1
    AbsoluteMax = 0
    RotationWindow = 1
    MaxRotations = 1
    MaxDepth = 1
    MaxEntries = 1
    StoreErrors = TRUE
    MaxTime = 1
    MaxEnv = 0
INVARIANTS
    FamilyLineage
    SealedStaysDead
PROPERTIES
    EveryRequestAnswered
