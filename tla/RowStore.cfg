SPECIFICATION Spec
CONSTANTS
    MaxId = 3
    UniqueVals = {u1, u2, u3}
    Step = 2
    Actions = {"restrict", "cascade", "set_null"}
    MaxOps = 3
    MaxCommits = 2
    MaxCrashes = 1
SYMMETRY Perms
CHECK_DEADLOCK FALSE
INVARIANTS
    RefsHold
    StoreConsistent
    IdsNotReused
