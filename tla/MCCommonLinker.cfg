CONSTANTS
    Queues = {"q1", "q2"}
    NoQueue = "none"
    StreamCount = 3
    Lanes = 2
    TileRows = 1
    Guard = 2
    Horizon = 12
    Images <- MCImages
    PageSets <- MCPageSets
SPECIFICATION Spec
INVARIANTS LeaseIsFree LaunchIsEarliest CompleteJoin
CHECK_DEADLOCK FALSE
