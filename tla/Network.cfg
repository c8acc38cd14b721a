CONSTANTS
    Router = {r1, r2, r3, r4}
    Address = {a1, a2, a3}
    None = None
    Reclaim = TRUE
    Prealloc = TRUE
    Faults = {"fail", "echo", "wipe", "networks", "routers", "others"}
    MaxEvents = 3
SPECIFICATION FairSpec
INVARIANTS
    ActiveNotReleased
    NothingForgotten
PROPERTIES
    NeverASecondNetwork
    ImplementsAuditedList
    EventuallyAccurate
