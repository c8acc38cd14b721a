CONSTANTS
    Here = {h1, h2, h3}
    There = {t1}
    MinWant <- Unlimited
    MaxWant = 2
    Reclaim = TRUE
    TrackChanges = FALSE
    Faults = {"others", "move", "crash", "echo"}
    MaxEvents = 5
SPECIFICATION Spec
SYMMETRY Symmetry
INVARIANTS
    ListIsTrue
    CountIsRight
