SPECIFICATION FairSpec
CONSTANTS
    InitialTabs = 1
    MaxConns = 6
    MaxRoots = 2
    MaxEvents = 2
INVARIANTS TypeOK RegisteredTabsHaveState OneTabPerClient GrantsEnd TabsKeepTheirRoot
PROPERTIES WindowAgreesAtRest DropsOnlyUnregistered LostTabsReturn
CHECK_DEADLOCK FALSE
