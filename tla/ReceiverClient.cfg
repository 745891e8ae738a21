SPECIFICATION FairSpec
CONSTANTS
    None = None
    Configs = {g1, g2}
    MaxAttempts = 3
    MaxLate = 2
INVARIANTS
    TypeOK
    ReportsHold
PROPERTIES
    Settles
