SPECIFICATION Spec
CONSTANTS
    c1 = c1
    c2 = c2
    c3 = c3
    i1 = i1
    Call = {c1, c2}
    Item = {i1}
    Workload <- SecondRefused
    NoRow = NoRow
    Concurrency = 3
    MaxStalls = 1
    MaxCrashes = 0
    Faults = {}
INVARIANTS
    AllOrNothing
CHECK_DEADLOCK FALSE
