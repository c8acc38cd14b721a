CONSTANTS
    Server = {s1}
    HasStore = TRUE
    Faults = {"crash"}
    MaxEvents = 4
SPECIFICATION FairSpec
PROPERTY
    LockedServersReturn
