SPECIFICATION Spec
CONSTANTS
    Connections = {c1, c2}
    NoConnection = NoConnection
    QueueCapacity = 2
    MaxEdits = 2
    MaxRequests = 2
    MaxInputs = 4
    MaxLoads = 1
    Welcomes <- WelcomeDocuments
CHECK_DEADLOCK FALSE
PROPERTY EditsApplyToTheTextTheyWereMadeOn
