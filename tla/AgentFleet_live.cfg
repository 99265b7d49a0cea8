SPECIFICATION Spec
CONSTANTS
    c1 = c1
    r1 = r1
    r2 = r2
    h1 = h1
    h2 = h2
    i1 = i1
    m1 = m1
    None = None
    Checker = {c1}
    Request = {r1}
    Hostname = {h1, h2}
    Ip = {i1}
    Machine = {m1}
    NameOf <- OneMachine
    AddressOf <- OneAddress
    MaxId = 2
    MaxKey = 1
    MaxFaults = 1
INVARIANT
    DownIsAnnounced
PROPERTIES
    ReachableHostGoesUp
    UnreachableHostGoesDown
