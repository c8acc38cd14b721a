CONSTANTS
    Server = {s1, s2}
    HasStore = TRUE
    Faults = {"crash", "scoped", "api", "slow", "disabled"}
    MaxEvents = 4
SPECIFICATION FairSpec
INVARIANTS
    Inv
PROPERTIES
    UnshelveOnlyAfterLock
    EventuallyInState
