SPECIFICATION Spec
CONSTANTS
    p1 = p1  p2 = p2  p3 = p3
    h1 = h1  h2 = h2
    t1 = t1  t2 = t2  t3 = t3  t4 = t4
    None = None
    Proc = {p1, p2}
    Host = {h1}
    HostOf <- OneHost2
    Token = {t1, t2, t3}
    Timeout = 2
    HasRedis = TRUE
    Faulty = FALSE
INVARIANTS
    MutualExclusion
