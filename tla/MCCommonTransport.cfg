SPECIFICATION FairSpec
CONSTANTS
    PageIds = {1, 2}
    Sides <- MCSides
    Banks <- MCBanks
    SideOf <- MCSideOf
    Rows = 2
    Programs <- TwoPagePrograms
    MaxGeneration = 1
INVARIANTS
    IInv
    BarrierHolds
    LeaseRespected
    LaunchedCanArrive
    NoFrozenDependency
    StartsWithDependencies
PROPERTIES
    ReadsSeeTheirPage
    ImplementsPagedExecution
    TaskFinishes
CHECK_DEADLOCK FALSE
