SPECIFICATION FairSpec
CONSTANTS
    Topics = {t1, t2}
    Publishers = {p1}
    Consumers = {c1}
    Closers = {k1}
    PendingSize = 2
    QueueSize = 1
    MaxEvents = 3
INVARIANT CloseWaits
CHECK_DEADLOCK FALSE
