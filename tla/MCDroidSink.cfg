SPECIFICATION Spec
CONSTANTS
    Inputs <- MCInputs
    Virtual = "virtual"
    RouteOf <- MCRouteOf
    Phone = {"ring", "virtual"}
    Devices <- MCDevices
    DefaultDevice = "speaker"
    Earpiece = "earpiece"
    Speaker = "speaker"
    InitialPorts = {"wired", "no port"}
    NoPort = "no port"
    Levels = {low, high}
    NoLevel = none
    VirtualStream = TRUE
    MaxStack = 3
INVARIANTS RouteIsChosen VoiceLevelSet
PROPERTIES CallUsesPort
SYMMETRY MCLevelSymmetry
CHECK_DEADLOCK FALSE
