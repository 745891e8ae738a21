SPECIFICATION FairSpec
CONSTANTS
    Main = Main
    Nobody = Nobody
    Handlers = {h1, h2}
    Channels = {c1, c2}
    Windows = {w1}
    Workers = {k1, k2}
    MaxDepth = 2
    MaxBlocks = 3
INVARIANTS
    TypeOK
    QueuesNewest
    ThreadsOwned
    RegisteredAlive
PROPERTIES
    JoinsShrink
    HandlersAnswer
    ShutdownCompletes
