SPECIFICATION MCSpec
CONSTANTS
    Topics = {t1, t2}
    Publishers = {p1}
    Consumers = {s1}
    Closers = {k1}
    PendingSize = 2
    QueueSize = 1
    MaxEvents = 3
    c1 = c1
    c2 = c2
    Cats = {c1, c2, c3}
    Root = root
    Procs = {h1, h2}
    MaxDepth = 3
    MaxCount = 1
    MaxFaults = 1
    MaxRequests = 3
INVARIANTS InOrderOnce NothingVanishes EveryCategoryShown TreeStaleExcused
PROPERTIES CloseReturns BufferDrains DeletesOnlyEmpty WalkEnds
CHECK_DEADLOCK FALSE
