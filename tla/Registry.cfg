SPECIFICATION FairSpec
CONSTANTS
    Nobody = Nobody
    Receivers = {r1}
    Ids = {i1, i2}
    Period = 1
    RetryDelay = 1
    MaxAttempts = 3
    CallLimit = 2
    Timeout = 9
    PruneEvery = 3
    MaxDelay = 1
    MaxFaults = 1
INVARIANTS
    TypeOK
    StaleListedBriefly
    FreshWhileUp
PROPERTIES
    NoResurrection
    Terminates
