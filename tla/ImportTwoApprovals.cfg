SPECIFICATION Spec
CONSTANTS
    c1 = c1
    c2 = c2
    c3 = c3
    i1 = i1
    Call = {c1, c2, c3}
    Item = {i1}
    Workload <- TwoApprovals
    NoRow = NoRow
    Concurrency = 3
    MaxStalls = 1
    MaxCrashes = 0
    Faults = {}
INVARIANTS
    OneDecision
CHECK_DEADLOCK FALSE
