CONSTANTS
    Slices <- MCSlices
    Capacity <- MCCapacity
    WideBinding = 2
    Packages <- MCPackages
SPECIFICATION Spec
INVARIANTS TypeOK ResidentsApart ResidentsAvoidReserved RefusalIsJustified
CHECK_DEADLOCK FALSE
