SPECIFICATION PoolFairSpec
CONSTANTS
    Tasks = {t1, t2}
    Callers = {p1, p2}
    WorkerCount = 2
    Priority <- MCPriority
    MaxRetries = 1
    MaxQueueSize = 1
    NoTask = NoTask

PROPERTY StopReturns
CHECK_DEADLOCK FALSE
