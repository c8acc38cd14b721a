CONSTANTS
    Fip = {f1}
    Snapshot = {p1}
    Router = {r1, r2}
    Subnet = {s1}
    Network = {n1}
    Group = {g1}
    Services = {"compute", "storage"}
    Faults = {"crash", "read", "write", "echo", "users"}
    MaxEvents = 3
SPECIFICATION FairSpec
INVARIANTS
    Inv
    DeletedProjectsAreEmpty
    NoDanglingAccess
    DeletedMeansGone
PROPERTIES
    OrderNeverRefused
    EventuallyTornDown
