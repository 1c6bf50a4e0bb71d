SPECIFICATION FairScan
CONSTANTS
    c1 = c1
    c2 = c2
    c3 = c3
    c4 = c4
    i1 = i1
    i2 = i2
    i3 = i3
    Call = {c1, c2, c3, c4}
    Item = {i1, i2, i3}
    Workload <- ScanWorkload
    NoRow = NoRow
    Concurrency = 1
    MaxStalls = 1
    MaxCrashes = 1
    Faults = {"crash", "database"}
    InputOf <- MCInputOf
    Configured = {"gemini", "gcv", "mindee", "azure"}
    Pages <- MCPages
    Responses <- MCResponses
    Predictions <- MCPredictions
    NoResult = NoResult
    NoAmount = NoAmount
    NoNumber = NoNumber
INVARIANTS
    ScanTypeOK
    ApprovedIsBooked
    AnsweredIsComplete
    ProcessingIsWatched
    PatientDecideOnce
    StoredAsPrinted
PROPERTIES
    TerminalStays
    EveryImageIsRead
    RefinesReview
CHECK_DEADLOCK FALSE
