CONSTANTS
    Pages <- MCPages
    Banks <- MCBanks
    Spots <- MCSpots
    StreamCount = 3
    Lanes = 2
    LaneBytes = 1
    Guard = 1
    Horizon = 7
    PackedBytes = {1, 5}
    Programs <- MCPrograms
SPECIFICATION Spec
INVARIANTS
    UsesCovered
    WindowsApart
    ResidencyDisjoint
    ReuseSafe
    OneTransport
    ArmedInTime
    StreamsFound
PROPERTY PlansKeepOrder
CHECK_DEADLOCK FALSE
