CONSTANTS
    Flavor = {f1, f2}
    Run = {r1, r2}
    Overlap = FALSE
    MaxEvents = 3
SPECIFICATION FairSpec
INVARIANTS
    Inv
    GrantsRecorded
PROPERTIES
    ManualGrantsSurvive
    RevocationsAudited
    ImplementsAuditedList
    EventuallyConverged
