SPECIFICATION ConfigSpec
CONSTANTS
    Names = {"a", "b", "c", "d", "e", "i", "m"}
    Texts = {"b", "fragment"}
    MixPorts <- MCMixPorts
    DevicePorts <- MCDevicePorts
    Routes <- MCRoutes
    OutTypes = {"speaker", "headset"}
    InTypes = {"mic"}
    Connected = {"speaker"}
    Inside <- MCInside
    Confs = {}
    MaxElements = 8
    MaxIncludes = 2
INVARIANT NoModuleLeft
CHECK_DEADLOCK FALSE
