SPECIFICATION Spec
CONSTANTS
    InitialTabs = 2
    MaxConns = 5
    MaxRoots = 2
    MaxEvents = 2
PROPERTIES RebuiltTabsStay
CHECK_DEADLOCK FALSE
