SPECIFICATION FairSpec
CONSTANTS
    Writer = w
    Readers = {}
    Lanes = {"completion", "intelligence"}
    MaxRequests = 2
    MaxChanges = 1
    LaneCapacity = 1
    MaxOutstanding = 1
INVARIANTS TypeOK
PROPERTIES InstalledMenusFit EveryRequestIsAnswered AnswersAreShown
CHECK_DEADLOCK FALSE
