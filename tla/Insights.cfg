SPECIFICATION Spec
CONSTANTS
    t1 = t1
    t2 = t2
    p1 = p1
    p2 = p2
    p3 = p3
    cpu1 = cpu1
    None = None
    Thread = {t1, t2}
    Job = {t1}
    Provider = {p1, p2, p3}
    Keyed = {p1, p2}
    Order <- Chain
    Threshold = 1
    Pair = {cpu1}
    Histories <- Jumps
    MinPoints = 10
    MaxResolved = 1
    MaxFaults = 1
INVARIANTS
    OldFailuresAreForgotten
    FindingsNeedHistory
    OpenInsightsBounded
PROPERTY
    StandingAnomalyIsOpen
