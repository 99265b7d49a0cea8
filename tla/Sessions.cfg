SPECIFICATION Spec
CONSTANTS
    r1 = r1
    r2 = r2
    e1 = e1
    e2 = e2
    i1 = i1
    i2 = i2
    k1 = k1
    None = None
    Request = {r1, r2}
    Email = {e1, e2}
    Ip = {i1, i2}
    Token = {k1}
    MaxAttempts = 1
    Lockout = 2
    MaxId = 2
INVARIANTS
    FailuresBounded
    SessionsAreTheirs
PROPERTY
    LockoutEnds
