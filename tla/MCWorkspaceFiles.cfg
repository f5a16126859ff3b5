SPECIFICATION Spec
CONSTANTS
    Connections = {c1}
    RuntimeTasks = {r1}
    Runtime = Runtime
    NoClient = NoClient
    Files = {f1, f2}
    MaxServerDocuments = 2
    MaxClientDocuments = 1
    MaxRoots = 1
    OpenKinds = {"workspace", "selected"}
    MaxChanges = 4
    MaxDocuments = 2
SYMMETRY FileSymmetry
CHECK_DEADLOCK FALSE
INVARIANTS
    TypeOK
    RegistryIsConsistent
    
    CleanMeansStored
PROPERTY SavesReplaceSeenContent
