SPECIFICATION ScheduledFairSpec
CONSTANTS
    e1 = e1  e2 = e2  e3 = e3  h1 = h1  r1 = r1  m1 = m1
    t1 = t1  t2 = t2  t3 = t3
    None = None
    AnyHost = AnyHost
    Host = {h1}
    Rule = {r1}
    Machine = {m1}
    MachineOf <- OneMachine
    Timeout = 1
    KeysLast = TRUE
    LockFails = TRUE
    MaxAge = 1
    MaxClosed = 1
    Evaluator = {e1, e2}
    Token = {t1, t2}
    HasRedis = FALSE
    RuleOf <- TwoRows
    Value = {0, 1}
    Window = 2
    Overlap = FALSE
    Faulty = TRUE
INVARIANTS
    TypeOK
    OneOpenAlert
    NoSilentAlert
PROPERTIES
    CooldownRespected
    ImplementsEngine
    ConditionAlertsUnderLock
