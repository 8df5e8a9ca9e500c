SPECIFICATION MCSpec
CONSTANTS
    Configs <- MCConfigs
    Garbled = Garbled
    Gone = Gone
    MaxWrites = 1
    MaxFaults = 1
    IPs = {ip1, ip2}
    MaxBuckets = 1
    Burst = 3
    Rate = 1
    IdleTimeout = 1
    Handlers = {h1}
    Tokens <- MCTokens
    MaxChanges = 1
SYMMETRY IPSymmetry
INVARIANTS ClassesAgree QuietIsCurrent SweepIsHarmless TableBounded RevokedStaysOut
PROPERTY HolderGoesForward
CHECK_DEADLOCK FALSE
