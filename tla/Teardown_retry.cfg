CONSTANTS
    Fip = {f1}
    Snapshot = {p1}
    Router = {r1}
    Subnet = {s1, s2}
    Network = {n1}
    Group = {g1}
    Services = {"compute", "storage"}
    Faults = {"write"}
    MaxEvents = 2
SPECIFICATION FairSpec
PROPERTY
    NothingLeftBehind
