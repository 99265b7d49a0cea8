SPECIFICATION Spec
SYMMETRY Symmetry
CONSTANTS
    r1 = r1
    r2 = r2
    r3 = r3
    s1 = s1
    safe1 = safe1
    safe2 = safe2
    bad = bad
    None = None
    Req = {r1, r2, r3}
    Suggestion = {s1}
    Command = {safe1, safe2, bad}
    Blocked = {bad}
    Faulty = TRUE
    MaxRuns = 2
    MaxExecs = 1
CHECK_DEADLOCK FALSE
INVARIANTS TypeOK OnlyApprovedCommandsRun RecordTellsWhatRan RunsAreRecorded RunningRowsAreAttended
PROPERTIES ImplementsLife
