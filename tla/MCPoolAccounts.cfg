SPECIFICATION MCSpec
CONSTANTS
    Tasks = {t1, t2}
    Callers = {c1, c2}
    WorkerCount = 2
    Priority <- MCPriority
    MaxRetries = 1
    MaxQueueSize = 1
    NoTask = NoTask
    Users = {u1, u2}
    Procs = {p1, p2}
    Profiles = {v0, v1}
    Blank = v0
    MaxLost = 1
    Names = {n1}
    Passwords <- MCPasswords
    MinPassword = 8
    MaxPassword = 64
    NoOne = none
INVARIANTS Bookkeeping AttemptsDisjoint NamesUnique PairsForActive StaleHasExcuse
PROPERTIES TasksSettle OnlyAdminsRevive LockedOut
CHECK_DEADLOCK FALSE
