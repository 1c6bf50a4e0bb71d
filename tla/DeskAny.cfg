SPECIFICATION FairSpec
CONSTANTS
    c1 = c1
    c2 = c2
    c3 = c3
    c4 = c4
    u1 = u1
    u2 = u2
    p1 = p1
    p2 = p2
    p3 = p3
    d1 = d1
    Call = {c1, c2, c3, c4}
    User = {u1, u2}
    Phone = {p1, p2, p3}
    Currency = {"IDR", "USD"}
    DefaultCategory = {d1}
    NoCategory = NoCategory
    NoUser = NoUser
    NoCall = NoCall
    NoFile = NoFile
    Name <- MCName
    Lower <- MCLower
    NameOf <- MCNameOf
    UserOf <- MCUserOf
    Opening <- MCOpening
    Documented <- MCDocumented
    Workload <- DeskWorkload
    Window = 0
    MaxClock = 1
    Value = {1, 2, 3}
    Column = {"baseCurrency", "defaultExportFormat"}
    Choice = {"old", "new", "other"}
    Standard <- MCStandard
    Attempts = 2
    MaxStalls = 1
INVARIANTS
    TypeOK
    BatalReachesLastTold
    ProfitIsBalance
    NamesDistinct
    UsedCategoryLives
    FeedIsTable
    ChangesStand
PROPERTIES
    KeepsContract
CHECK_DEADLOCK FALSE
