SPECIFICATION Spec
CONSTANTS
    Inputs <- MCInputs
    Virtual = "virtual"
    RouteOf <- MCRouteOf
    Phone = {"ring", "virtual"}
    Devices <- MCDevices
    DefaultDevice = "speaker"
    Earpiece = "earpiece"
    Speaker = "speaker"
    InitialPorts = {"wired"}
    NoPort = "no port"
    Levels = {low, high}
    NoLevel = none
    VirtualStream = TRUE
    MaxStack = 3
INVARIANT ExtraRouteEnds
SYMMETRY MCLevelSymmetry
CHECK_DEADLOCK FALSE
