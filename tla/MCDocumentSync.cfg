SPECIFICATION FairSpec
CONSTANTS
    Connections = {c1, c2}
    NoConnection = NoConnection
    QueueCapacity = 1
    MaxEdits = 2
    MaxRequests = 2
    MaxInputs = 3
    MaxLoads = 1
    Welcomes <- WelcomeDocuments
CHECK_DEADLOCK FALSE
INVARIANTS
    TypeOK
    HeldLeasesAreActive
    VersionsArriveInOrder
    QuietEditorAgrees
    OneEditor
    ShownDocumentsStayOpen
PROPERTIES
    ImplementsVersionedDocument
    PendingEditsResolve
    RejectionsAreRepaired
