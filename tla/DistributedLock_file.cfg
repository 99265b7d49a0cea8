SPECIFICATION Spec
CONSTANTS
    p1 = p1  p2 = p2  p3 = p3
    h1 = h1  h2 = h2
    t1 = t1  t2 = t2  t3 = t3  t4 = t4
    None = None
    Proc = {p1, p2, p3}
    Host = {h1, h2}
    HostOf <- TwoHosts
    Token = {t1, t2, t3, t4}
    Timeout = 2
    HasRedis = FALSE
    Faulty = TRUE
PROPERTIES
    ImplementsExclusion
