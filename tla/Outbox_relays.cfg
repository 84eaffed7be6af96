SPECIFICATION FairSpec
CONSTANTS
    w1 = w1
    w2 = w2
    None = None
    Relays = {w1, w2}
    MaxFacts = 2
    BatchSize = 2
    Lease = 1
    Backoff = 1
    MaxAttempts = 2
    MaxMishaps = 4
INVARIANT TypeOK
INVARIANT Exclusive
INVARIANT OutcomeJustified
PROPERTY DeliveredStays
PROPERTY EventuallySettled
