SPECIFICATION Spec
SYMMETRY Threads
CONSTANTS
    c1 = c1
    r1 = r1
    r2 = r2
    h1 = h1
    h2 = h2
    i1 = i1
    m1 = m1
    None = None
    Checker = {c1}
    Request = {r1, r2}
    Hostname = {h1}
    Ip = {i1}
    Machine = {m1}
    NameOf <- OneMachine
    AddressOf <- OneAddress
    MaxId = 2
    MaxKey = 2
    MaxFaults = 0
INVARIANTS
    TypeOK
    DataHasItsHost
    RegisteredIsStored
