CONSTANTS
    Slices <- MCSlices
    Capacity <- MCCapacity
    WideBinding = 2
    Packages <- MCPagedPackages
SPECIFICATION Spec
INVARIANT ResidentsAvoidPages
CHECK_DEADLOCK FALSE
