SPECIFICATION FairSpec
CONSTANTS
    Nobody = Nobody
    Pages = {p1, p2}
    Sockets = {k1, k2}
    Requests = {r1, r2}
    Sessions = {n1, n2}
    MaxConnectionsPerUser = 1
    MaxAwaited = 1
    MaxFaults = 1
INVARIANTS
    TypeOK
    SocketsWithinLimit
    NothingLost
    SessionsReachTheirUser
PROPERTIES
    Reconnects
    CallsEnd
