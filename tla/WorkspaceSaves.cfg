SPECIFICATION Spec
CONSTANTS
    Connections = {c1}
    RuntimeTasks = {r1}
    Runtime = Runtime
    NoClient = NoClient
    Files = {f1}
    MaxServerDocuments = 2
    MaxClientDocuments = 1
    MaxRoots = 1
    OpenKinds = {"workspace"}
    MaxChanges = 4
    MaxDocuments = 1
CHECK_DEADLOCK FALSE
PROPERTY SavesOverwriteNothingUnseen
