CONSTANTS
    Here = {h1, h2}
    There = {}
    MinWant <- Unlimited
    MaxWant = 2
    Reclaim = FALSE
    TrackChanges = TRUE
    Faults = {"crash", "users", "echo"}
    MaxEvents = 4
SPECIFICATION FairSpec
INVARIANTS
    ListsAccount
    ReleasedIsGone
PROPERTIES
    InUseStays
    EventuallyAllocated
    EventuallyTracked
