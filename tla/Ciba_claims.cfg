SPECIFICATION Spec
CONSTANTS
    Requests = {q1}
    Polls = {p1, p2}
    Resolvers = {d1, d2}
    Clients = {c1, c2}
    NoClient = NoClient
    Backends = {"memory", "redis"}
    TTL = 1
    Interval = 2
    MaxRetries = 1
    PushWired = TRUE
    Faults = TRUE
    MaxTime = 3
SYMMETRY Symmetry
INVARIANTS
    TypeOK
    SingleMint
    DecisionsAgree
    DecisionKept
    MintJustified
