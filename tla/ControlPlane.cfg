SPECIFICATION Spec
CONSTANTS
    w1 = w1
    w2 = w2
    NoWindow = NoWindow
    Nobody = Nobody
    Calls = {k1, k2}
    SessionIds = {s1, s2, s3}
    Windows = {w1, w2}
    Tunings = {t1}
    Serves <- MCServes
    MaxFaults = 2
SYMMETRY Interchangeable
INVARIANTS
    TypeOK
    OrphansBounded
    NewestServed
PROPERTIES
    ClosedMeansGone
