SPECIFICATION MCSpec
CONSTANTS
    Articles = {a1}
    Categories = {c1, c2}
    Tags = {t1}
    Procs = {p1, p2}
    NoCat = NoCat
    Keep = Keep
    PreloadSeesDeleted = TRUE
    MaxRequests = 4
    Servers = {s1, s2}
    Second = 2
    AccessLife = 2
    RefreshLife = 3
    MaxPairs = 2
    MaxTime = 4
    MaxFaults = 1
SYMMETRY Symmetry
INVARIANTS DriftBounded PublishedHasTime SessionTypeOK
PROPERTIES DeletedIsFinal RevokedIsRefused
CHECK_DEADLOCK FALSE
