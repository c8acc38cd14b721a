CONSTANTS
    Proc = {p1, p2}
    Key = {k1, k2}
    Val = {v1}
    Unset = Unset
SPECIFICATION FairSpec
INVARIANTS
    Inv
PROPERTIES
    ImplementsStateMap
    CallsEnd
