SPECIFICATION Spec
CONSTANTS
    Clients = {c1}
    Documents = {d1}
    Packages = {p1}
    Modes = {m1, m2}
    Windows = {w1, w2}
    Tasks = {t1, t2}
    MaxVersion = 2
    MaxGeneration = 2
    Capacity = 1
SYMMETRY Symmetry
INVARIANTS TypeOK EntriesAreAlive RoutesFollowAccess
    ClosedDocumentsAreForgotten
PROPERTIES ReplacedWorkReachesNoHolder
CHECK_DEADLOCK FALSE
