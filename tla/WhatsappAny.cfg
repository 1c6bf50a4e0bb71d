SPECIFICATION Spec
CONSTANTS
    c1 = c1
    c2 = c2
    c3 = c3
    c4 = c4
    c5 = c5
    u1 = u1
    u2 = u2
    p1 = p1
    p2 = p2
    b1 = b1
    User = {u1, u2}
    Business = {b1}
    Phone = {p1, p2}
    Call = {c1, c2, c3, c4, c5}
    BusinessOf <- OneBusiness
    NoPhone = NoPhone
    NoCode = NoCode
    Workload <- LinkWorkload
    MaxAttempts = 2
INVARIANTS
    ProvenPhone
    VerifiedIsLinked
    AttemptLimit
    CodeUsedOnce
CHECK_DEADLOCK FALSE
