SPECIFICATION MCSpec
CONSTANTS
    Articles = {v1, v2}
    IPs = {i1}
    Procs = {g1, g2}
    MaxViews = 2
    MaxFaults = 2
    a1 = a1
    a2 = a2
    t1 = t1
    u1 = u1
    Ids = {a1, a2}
    Titles = {t1}
    Tries = 2
    Alias <- MCAlias
    Author <- MCAuthor
    Users = {u1, u2, adm}
    Readers = {u1, anon}
    Admin = adm
    Anon = anon
    None = none
    Indexed = {"live", "deleted"}
    Handlers = {p1, p2}
    MaxFailures = 1
    MaxRequests = 3
INVARIANTS NoOvercount NoUndercount OncePerWindow MisledExcused AnswersRight
PROPERTIES Drained ConflictExcused
CHECK_DEADLOCK FALSE
