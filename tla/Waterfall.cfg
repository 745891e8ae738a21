SPECIFICATION FairSpec
CONSTANTS
    None = None
    Clients = {c1, c2}
    Ids = {i1, i2, i3}
    MaxQueue = 3
    BlocksPerLine = 2
INVARIANTS
    TypeOK
    NeverAsleepOnWork
    CallbacksAlive
PROPERTIES
    StopEnds
