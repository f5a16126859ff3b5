SPECIFICATION FairSpec
CONSTANTS
    Clients = {c1}
    Requests = {"edit", "open", "reload"}
    Documents = {d1}
    MaxSaves = 2
    MaxRequests = 2
    MaxScanFaults = 1
    MaxEvents = 3
    MaxRescans = 2
    GraceLimit = 1
    FanoutCapacity = 1
    QueueCapacity = 1
INVARIANTS TypeOK
PROPERTIES ManifestChangesAreSerial  PublishedGenerationsArrive SavesAreTried
CHECK_DEADLOCK FALSE
