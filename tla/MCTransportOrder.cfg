SPECIFICATION Spec
CONSTANTS
    PageIds = {1, 2, 3}
    PageEvents = {1, 2, 3}
    Signals = {}
    Queues = {"mem0", "mem1"}
    MemQueues = {"mem0", "mem1"}
    MxmQueues = {}
    Sides = {"east"}
    StartupWindow = 1
    MaxOffset = 0
    Horizon = 1
    Programs <- QueuePrograms
INVARIANTS
    TransportsMove
CHECK_DEADLOCK FALSE
