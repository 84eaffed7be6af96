SPECIFICATION Spec
CONSTANTS
    Requests = {q1}
    Polls = {p1}
    Resolvers = {d1}
    Clients = {c1}
    NoClient = NoClient
    Backends = {"memory"}
    TTL = 1
    Interval = 2
    MaxRetries = 1
    PushWired = TRUE
    Faults = FALSE
    MaxTime = 2
INVARIANT
    FailedPushLeavesPoll
