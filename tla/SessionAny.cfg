SPECIFICATION Spec
CONSTANTS
    c1 = c1
    c2 = c2
    c3 = c3
    c4 = c4
    c5 = c5
    b1 = b1
    b2 = b2
    u1 = u1
    u2 = u2
    Browser = {b1, b2}
    User = {u1, u2}
    NoCall = NoCall
    NoToken = NoToken
    Call = {c1, c2, c3, c4, c5}
    Workload <- SessionWorkload
    Lifetime = 2
    MaxTime = 2
    Faults = {"crash", "database", "network"}
INVARIANTS
    TypeOK
    OneLiveToken
    EndedIsDead
    SessionOfBrowser
CHECK_DEADLOCK FALSE
