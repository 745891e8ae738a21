SPECIFICATION FairSpec
CONSTANTS
    Nobody = Nobody
    Receivers = {r1}
    Ids = {i1}
    Period = 1
    RetryDelay = 1
    MaxAttempts = 2
    CallLimit = 2
    Timeout = 3
    PruneEvery = 1
    MaxDelay = 0
    MaxFaults = 0
PROPERTIES
    KeptAlive
