SPECIFICATION Spec
CONSTANTS
    r1 = r1
    r2 = r2
    r3 = r3
    s1 = s1
    safe1 = safe1
    safe2 = safe2
    bad = bad
    None = None
    Req = {r1, r2}
    Suggestion = {s1}
    Command = {safe1, safe2, bad}
    Blocked = {bad}
    Faulty = FALSE
    MaxRuns = 2
    MaxExecs = 1
CHECK_DEADLOCK FALSE
INVARIANTS FullAuditTrail
