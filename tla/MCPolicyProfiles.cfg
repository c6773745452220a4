SPECIFICATION ConfigSpec
CONSTANTS
    Names = {"a", "b", "c", "d", "e", "i", "m"}
    Texts = {"b", "fragment"}
    MixPorts <- MCMixPorts
    DevicePorts <- MCDevicePorts
    Routes <- MCRoutes
    OutTypes = {"speaker", "headset"}
    InTypes = {"mic"}
    Connected = {"speaker"}
    Inside <- MCInside
    Confs <- MCConfs
    MaxElements = 9
    MaxIncludes = 2
INVARIANT PathFollowsDocument CurrentIsRight ReadingEnds
INVARIANT MappingsOfRoutes PortsOfMappings PlainModuleWorks LostPortsOnly
CHECK_DEADLOCK FALSE
