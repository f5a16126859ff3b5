SPECIFICATION Spec
CONSTANTS
    Clients = {c1, c2}
    Requests = {"edit"}
    Documents = {d1}
    MaxSaves = 1
    MaxRequests = 2
    MaxScanFaults = 0
    MaxEvents = 3
    MaxRescans = 2
    GraceLimit = 1
    FanoutCapacity = 1
    QueueCapacity = 1
INVARIANTS GraceLimitHolds
CHECK_DEADLOCK FALSE
