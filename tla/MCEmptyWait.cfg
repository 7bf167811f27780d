SPECIFICATION Spec
CONSTANTS
    PageIds = {1, 2, 3}
    Sides <- MCTwoSides
    Banks <- MCBanks
    SideOf <- MCSideOfBank
    Rows = 3
    Programs <- EmptyWaitPrograms
    MaxGeneration = 1
INVARIANTS
    LaunchedCanArrive
CHECK_DEADLOCK FALSE
