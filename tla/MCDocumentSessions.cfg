SPECIFICATION Spec
CONSTANTS
    f1 = f1
    f2 = f2
    Files = {f1, f2}
    SharedFiles = {f2}
    SessionMax = 2
    MaxEpoch = 1
    MaxEdits = 2
    MaxLosses = 1
    Capacity = 2
INVARIANTS TypeOK StoreIsConsistent SyncNeverRunsAhead
SYMMETRY Symmetry
CHECK_DEADLOCK FALSE
