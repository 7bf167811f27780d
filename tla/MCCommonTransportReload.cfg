SPECIFICATION Spec
CONSTANTS
    PageIds = {1, 2}
    Sides <- MCSides
    Banks <- MCBanks
    SideOf <- MCSideOf
    Rows = 2
    Programs <- ReloadPrograms
    MaxGeneration = 2
PROPERTIES
    ReadsSeeTheirPage
CHECK_DEADLOCK FALSE
