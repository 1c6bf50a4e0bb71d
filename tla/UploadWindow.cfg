SPECIFICATION FairWindow
CONSTANTS
    NoRequest = NoRequest
    Request = {r1, r2, r3, r4}
    MaxRequests = 2
    Window = 2
    RedisFails = TRUE
INVARIANTS
    UploadsBounded
    LockoutHasCause
PROPERTIES
    WindowReopens
CHECK_DEADLOCK FALSE
