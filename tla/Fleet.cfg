CONSTANTS
    N = 3
    GroupMode = {1, 2, 3}
    Federated = {1, 2, 3}
    Group <- MCGroup
    GroupOf <- MCGroupOf
    Broken = {2}
    Homeless = {2}
    Damaged = {1}
    Faults = {"crash", "fail", "lock", "scoped", "groups", "mapping"}
    MaxClock = 1
    MaxEvents = 2
SPECIFICATION FairSpec
INVARIANTS
    OutcomeIsReported
    GroupsAreThere
    RulesAgree
PROPERTIES
    OthersConverge
