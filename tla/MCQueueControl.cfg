SPECIFICATION FairSpec
CONSTANTS
    PageIds = {1, 2}
    PageEvents = {1, 2}
    Signals = {1}
    Queues <- MCQueues
    MemQueues <- MCMemQueues
    MxmQueues <- MCMxmQueues
    Sides = {"east"}
    StartupWindow = 1
    MaxOffset = 3
    Horizon = 2
    Programs <- MCPrograms
INVARIANTS
    IInv
    WaitsSeeCommits
    NoLatchedToken
    OneInFlight
PROPERTIES
    PhasesKept
    RunCompletes
CHECK_DEADLOCK FALSE
