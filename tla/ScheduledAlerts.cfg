SPECIFICATION ScheduledSpec
CONSTANTS
    e1 = e1  e2 = e2  e3 = e3  h1 = h1  r1 = r1  m1 = m1
    t1 = t1  t2 = t2  t3 = t3
    None = None
    AnyHost = AnyHost
    Host = {h1}
    Rule = {r1}
    Machine = {m1}
    MachineOf <- OneMachine
    Timeout = 1
    KeysLast = TRUE
    LockFails = TRUE
    MaxAge = 0
    MaxClosed = 1
    Evaluator = {e1, e2, e3}
    Token = {t1, t2, t3}
    HasRedis = TRUE
    RuleOf <- StatusNow
    Value = {}
    Window = 1
    Overlap = TRUE
    Faulty = FALSE
SYMMETRY Alike
VIEW WithoutNotifications
INVARIANTS
    RunsPerLock
    OpenAlertsPerLock
