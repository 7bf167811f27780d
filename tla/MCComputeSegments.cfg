SPECIFICATION Spec
CONSTANTS
    Queues <- MCQueues
    ComputeQueues = {"vxm", "sxm"}
    VxmQueues = {"vxm"}
    Depth <- MCDepth
    PacketWords = 2
    MaxWait = 3
    Programs <- MCPrograms
INVARIANTS
    ReloadsSucceed
PROPERTIES
    ImplementsWhole
CHECK_DEADLOCK FALSE
