SPECIFICATION Spec
CONSTANTS
    Outputs <- MCOutputs
    SpecOf <- MCSpecOf
    SourceOf <- MCSourceOf
    Specs <- MCSpecs
    Default = "stereo 44.1k"
    Closed = "closed"
    NoSpec = "no spec"
    AudioSources = {"mic", "recognition", "communication"}
    NoSource = "none"
    Mic = "mic"
    Ports <- MCPorts
    DefaultSource <- MCDefaultSource
    NoPort = "no port"
    Modes <- MCModes
    Override <- MCOverride
    Fill <- MCFill
    CloseInput = TRUE
    MayFail = TRUE
INVARIANTS ReadsOpenStream ServesLast PatchIsPort SpecAgrees
PROPERTIES AudioSourceServed Recovers
CHECK_DEADLOCK FALSE
