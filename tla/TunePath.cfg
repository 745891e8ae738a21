SPECIFICATION PathSpec
CONSTANTS
    w1 = w1
    w2 = w2
    t1 = t1
    t2 = t2
    NoWindow = NoWindow
    Requests = {r1, r2}
    ChannelIds = {c1, c2}
    SessionIds = {s1, s2}
    Windows = {w1, w2}
    Tunings = {t1, t2}
    Serves <- MCServes
    MaxUniqueChannels = 2
    MaxTotalSessions = 2
    WaterfallQuota = 1
PROPERTY
    AdmittedIsGranted
